------------------------------ MODULE ImageCache ------------------------------
(***************************************************************************)
(* Thumbnails: CachingImageProvider asks the index of ImageCachingService  *)
(* for a file's thumbnail from a thread of QML while the single thread of  *)
(* ImageCachingWorker makes thumbnails and maintains the index             *)
(* (DbCacheIndex: a write-ahead log, a cache in memory and a table).       *)
(*                                                                         *)
(* The content of a file is its version, which is also its modification    *)
(* time; 0 is a file that cannot be loaded.  A thumbnail is the version it *)
(* was made of.  Left out are sizes and importCache, which migrates the    *)
(* index of an old version.                                                *)
(***************************************************************************)
EXTENDS Integers, Sequences, FiniteSets

CONSTANTS
    Keys,                \* paths of images
    None,                \* no entry, no thumbnail, no key
    MaxCacheSize,        \* DbImageCacheIndex::getMaxCacheMemorySize
    BackupStep,          \* IMAGES_INDEX_BACKUP_STEP
    MaxVersion,          \* bound: how often a file changes
    MaxServed,           \* bound: m_RequestsServed counts up to it
    MaxRequests,         \* bound: requests for thumbnails
    MaxFaults,           \* bound: saves and writes that fail
    MaxRestarts          \* bound: how often the program ends and starts again

ASSUME ImageCacheAssumption ==
    /\ IsFiniteSet(Keys) /\ None \notin Keys
    /\ MaxCacheSize \in Nat \ {0} /\ BackupStep \in Nat \ {0}
    /\ MaxVersion \in Nat \ {0} /\ MaxServed \in Nat \ {0}
    /\ MaxRequests \in Nat /\ MaxFaults \in Nat /\ MaxRestarts \in Nat
    /\ None \notin 0..MaxVersion
    /\ None \notin [stamp : 0..MaxVersion, served : 1..MaxServed]

VARIABLES
    file,                \* the version of each image file
    thumb,               \* the thumbnail file of each image
    m_WriteAheadLog, m_CacheIndex, table,
    m_MaxCacheTag,
    m_Queue,             \* requests and separators of the worker
    worker,              \* where the worker's thread is, its key and what it loaded
    batch,               \* what flush took out of the log
    m_ProcessedItemsCount,
    provider,            \* where the thread of QML is, its key and what it found
    raced,               \* history: the file changed between load and lastModified
    requests, faults, restarts

indexVars == <<m_WriteAheadLog, m_CacheIndex, table, m_MaxCacheTag>>
disk == <<file, thumb>>
bounds == <<requests, faults, restarts>>
workerVars == <<worker, batch, m_ProcessedItemsCount>>
vars == <<disk, indexVars, m_Queue, workerVars, provider, raced, bounds>>

Versions == 0..MaxVersion
Entry == [stamp : Versions, served : 1..MaxServed]
Index == [Keys -> Entry \cup {None}]
Separator == [key |-> None, recache |-> FALSE]
Request == [key : Keys, recache : BOOLEAN] \cup {Separator}
Empty == [k \in Keys |-> None]
Stored(index) == {k \in Keys : index[k] # None}

Idle == [pc |-> "idle", key |-> None, loaded |-> 0]
Waiting == [pc |-> "idle", key |-> None, found |-> None]

TypeOK ==
    /\ file \in [Keys -> Versions]
    /\ thumb \in [Keys -> Versions \cup {None}]
    /\ m_WriteAheadLog \in Index /\ m_CacheIndex \in Index /\ table \in Index
    /\ batch \in Index
    /\ m_MaxCacheTag \in 0..MaxServed
    /\ m_Queue \in Seq(Request)
    /\ worker \in [pc : {"idle", "loaded", "saved", "sync", "write", "restore", "compact"},
                   key : Keys \cup {None}, loaded : Versions]
    /\ worker.pc \in {"loaded", "saved"} => worker.key # None
    /\ m_ProcessedItemsCount \in 0..(BackupStep - 1)
    /\ provider \in [pc : {"idle", "cache", "table", "remember", "answer"},
                     key : Keys \cup {None}, found : Entry \cup {None}]
    /\ provider.pc # "idle" => provider.key # None
    /\ provider.pc = "remember" => provider.found # None
    /\ raced \in [Keys -> BOOLEAN]
    /\ requests \in Nat /\ faults \in Nat /\ restarts \in Nat

Init ==
    /\ file \in [Keys -> {0, 1}]
    /\ thumb = Empty
    /\ m_WriteAheadLog = Empty /\ m_CacheIndex = Empty /\ table = Empty
    /\ batch = Empty
    /\ m_MaxCacheTag = 0
    /\ m_Queue = <<>>
    /\ worker = Idle
    /\ m_ProcessedItemsCount = 0
    /\ provider = Waiting
    /\ raced = [k \in Keys |-> FALSE]
    /\ requests = 0 /\ faults = 0 /\ restarts = 0

-----------------------------------------------------------------------------
(* The index. *)

\* DbCacheIndex::tryGet when nothing comes between its parts.
Found(k) ==
    IF m_WriteAheadLog[k] # None THEN m_WriteAheadLog[k]
    ELSE IF m_CacheIndex[k] # None THEN m_CacheIndex[k]
    ELSE table[k]

\* addToCacheUnsafe.
AddToCache(k, entry) ==
    /\ m_CacheIndex' = [m_CacheIndex EXCEPT ![k] = entry]
    /\ m_MaxCacheTag' = IF entry.served > m_MaxCacheTag THEN entry.served ELSE m_MaxCacheTag

\* A tryGet keeps what it had to read from the table.
Remember(k) ==
    IF m_WriteAheadLog[k] = None /\ m_CacheIndex[k] = None /\ table[k] # None
    THEN AddToCache(k, table[k])
    ELSE UNCHANGED <<m_CacheIndex, m_MaxCacheTag>>

\* tryGetCachedImage: the image has changed since its entry was made.
NeedsUpdate(k, entry) == file[k] > entry.stamp

\* Erroneous variant: any thumbnail the index knows will do.
IsKnown(request) ==
    /\ ~request.recache
    /\ Found(request.key) # None
    /\ thumb[request.key] # None

\* isProcessed: the worker leaves out what the index knows to be up to date.
IsProcessed(request) ==
    LET k == request.key
    IN  /\ ~request.recache
        /\ Found(k) # None
        /\ thumb[k] # None
        /\ ~NeedsUpdate(k, Found(k))

-----------------------------------------------------------------------------
(* The thread of QML: CachingImageProvider::requestImage. *)

\* The write-ahead log is asked first.
RequestImage(k) ==
    /\ provider.pc = "idle" /\ requests < MaxRequests
    /\ requests' = requests + 1
    /\ provider' = [pc    |-> IF m_WriteAheadLog[k] # None THEN "answer" ELSE "cache",
                    key   |-> k,
                    found |-> m_WriteAheadLog[k]]
    /\ UNCHANGED <<disk, indexVars, m_Queue, workerVars, raced, faults, restarts>>

GetFromCache ==
    /\ provider.pc = "cache"
    /\ LET entry == m_CacheIndex[provider.key]
       IN  provider' = [provider EXCEPT !.pc = IF entry # None THEN "answer" ELSE "table",
                                        !.found = entry]
    /\ UNCHANGED <<disk, indexVars, m_Queue, workerVars, raced, bounds>>

GetFromDB ==
    /\ provider.pc = "table"
    /\ LET entry == table[provider.key]
       IN  provider' = [provider EXCEPT !.pc = IF entry # None THEN "remember" ELSE "answer",
                                        !.found = entry]
    /\ UNCHANGED <<disk, indexVars, m_Queue, workerVars, raced, bounds>>

\* What was read from the table goes to the cache, however old it is by now.
RememberRead ==
    /\ provider.pc = "remember"
    /\ AddToCache(provider.key, provider.found)
    /\ provider' = [provider EXCEPT !.pc = "answer"]
    /\ UNCHANGED <<disk, m_WriteAheadLog, table, m_Queue, workerVars, raced, bounds>>

\* A hit shows the thumbnail and asks for a new one if it is outdated; a miss,
\* or a thumbnail that cannot be loaded because the worker is writing it, shows
\* the image itself and asks for a thumbnail.
Answer ==
    LET k == provider.key
        hit == provider.found # None /\ thumb[k] # None
        again == [key |-> k, recache |-> TRUE]
        first == [key |-> k, recache |-> FALSE]
        asked == IF hit /\ NeedsUpdate(k, provider.found) THEN <<again>> ELSE <<>>
    IN  /\ provider.pc = "answer"
        /\ \E loads \in BOOLEAN :
             /\ ~loads => ~hit \/ (worker.pc = "loaded" /\ worker.key = k)
             /\ loads => hit
             /\ m_Queue' = IF loads THEN asked \o m_Queue ELSE <<first>> \o asked \o m_Queue
        /\ provider' = Waiting
        /\ UNCHANGED <<disk, indexVars, workerVars, raced, bounds>>

Orders ==
    {order \in [1..Cardinality(Keys) -> Keys] :
        \A i, j \in 1..Cardinality(Keys) : i # j => order[i] # order[j]}

\* generatePreviews, when artworks were added.
GeneratePreviews ==
    /\ requests < MaxRequests
    /\ requests' = requests + 1
    /\ \E order \in Orders :
         m_Queue' = m_Queue \o [i \in DOMAIN order |-> [key |-> order[i], recache |-> FALSE]]
                            \o <<Separator>>
    /\ UNCHANGED <<disk, indexVars, workerVars, provider, raced, faults, restarts>>

-----------------------------------------------------------------------------
(* The worker. *)

\* processWorkItem up to the loaded image; a separator saves the index.
ProcessItem ==
    /\ worker.pc = "idle" /\ m_Queue # <<>>
    /\ m_Queue' = Tail(m_Queue)
    /\ LET request == Head(m_Queue)
           k == request.key
       IN  IF request = Separator
           THEN /\ worker' = [Idle EXCEPT !.pc = "sync"]
                /\ UNCHANGED <<m_CacheIndex, m_MaxCacheTag>>
           ELSE /\ IF request.recache
                   THEN UNCHANGED <<m_CacheIndex, m_MaxCacheTag>>
                   ELSE Remember(k)
                /\ worker' = IF IsProcessed(request) \/ file[k] = 0
                             THEN Idle
                             ELSE [pc |-> "loaded", key |-> k, loaded |-> file[k]]
    /\ UNCHANGED <<disk, m_WriteAheadLog, table, batch, m_ProcessedItemsCount, provider,
                   raced, bounds>>

\* The index is saved whenever the count is a multiple of the step, also after
\* a thumbnail that could not be saved.
AfterItem(count) == IF count = 0 THEN [Idle EXCEPT !.pc = "sync"] ELSE Idle

SaveThumbnail ==
    /\ worker.pc = "loaded"
    /\ thumb' = [thumb EXCEPT ![worker.key] = worker.loaded]
    /\ worker' = [worker EXCEPT !.pc = "saved"]
    /\ UNCHANGED <<file, indexVars, m_Queue, batch, m_ProcessedItemsCount, provider,
                   raced, bounds>>

\* Erroneous variant: the entry is made although the thumbnail was not saved.
UpdateAfterFailure ==
    /\ worker.pc = "loaded" /\ faults < MaxFaults
    /\ faults' = faults + 1
    /\ worker' = [worker EXCEPT !.pc = "saved"]
    /\ UNCHANGED <<disk, indexVars, m_Queue, batch, m_ProcessedItemsCount, provider,
                   raced, requests, restarts>>

SaveFails ==
    /\ worker.pc = "loaded" /\ faults < MaxFaults
    /\ faults' = faults + 1
    /\ worker' = AfterItem(m_ProcessedItemsCount)
    /\ UNCHANGED <<disk, indexVars, m_Queue, batch, m_ProcessedItemsCount, provider,
                   raced, requests, restarts>>

\* lastModified is asked only now, and DbImageCacheIndex::update puts the entry
\* into the write-ahead log.
UpdateIndex ==
    /\ worker.pc = "saved"
    /\ LET k == worker.key
           previous == Found(k)
           served == IF previous = None THEN 1
                     ELSE IF previous.served < MaxServed THEN previous.served + 1
                     ELSE MaxServed
           count == (m_ProcessedItemsCount + 1) % BackupStep
       IN  /\ m_WriteAheadLog' = [m_WriteAheadLog EXCEPT ![k] =
                                    [stamp |-> file[k], served |-> served]]
           /\ Remember(k)
           /\ raced' = [raced EXCEPT ![k] = file[k] # worker.loaded]
           /\ m_ProcessedItemsCount' = count
           /\ worker' = AfterItem(count)
    /\ UNCHANGED <<disk, table, m_Queue, batch, provider, bounds>>

\* DbCacheIndex::sync, first part: WriteAheadLog::flush empties the log.
CollectLog ==
    /\ worker.pc = "sync"
    /\ batch' = m_WriteAheadLog
    /\ m_WriteAheadLog' = Empty
    /\ worker' = [Idle EXCEPT !.pc = IF Stored(m_WriteAheadLog) = {} THEN "compact"
                                                                     ELSE "write"]
    /\ UNCHANGED <<disk, m_CacheIndex, table, m_MaxCacheTag, m_Queue,
                   m_ProcessedItemsCount, provider, raced, bounds>>

\* trySetMany: some of the entries may fail, and flush restores those.
WriteTable ==
    /\ worker.pc = "write"
    /\ \E failed \in SUBSET Stored(batch) :
         /\ failed # {} => faults < MaxFaults
         /\ faults' = IF failed = {} THEN faults ELSE faults + 1
         /\ table' = [k \in Keys |-> IF k \in Stored(batch) \ failed THEN batch[k] ELSE table[k]]
         /\ batch' = [k \in Keys |-> IF k \in failed THEN batch[k] ELSE None]
         /\ worker' = [worker EXCEPT !.pc = IF failed = {} THEN "compact" ELSE "restore"]
    /\ UNCHANGED <<disk, m_WriteAheadLog, m_CacheIndex, m_MaxCacheTag, m_Queue,
                   m_ProcessedItemsCount, provider, raced, requests, restarts>>

\* Erroneous variant: a write that fails is given up.
ForgetFailedItems ==
    /\ worker.pc = "restore"
    /\ batch' = Empty
    /\ worker' = [worker EXCEPT !.pc = "compact"]
    /\ UNCHANGED <<disk, indexVars, m_Queue, m_ProcessedItemsCount, provider, raced, bounds>>

RestoreFailedItems ==
    /\ worker.pc = "restore"
    /\ m_WriteAheadLog' = [k \in Keys |-> IF batch[k] # None THEN batch[k]
                                                             ELSE m_WriteAheadLog[k]]
    /\ batch' = Empty
    /\ worker' = [worker EXCEPT !.pc = "compact"]
    /\ UNCHANGED <<disk, m_CacheIndex, table, m_MaxCacheTag, m_Queue,
                   m_ProcessedItemsCount, provider, raced, bounds>>

\* compactCache, whose passes are one step here.  A pass by the served requests
\* keeps what is above a part of the highest tag; if the passes removed next to
\* nothing, one of every eachToRemove entries is kept, in the order of the hash.
Above(part) == {k \in Stored(m_CacheIndex) : m_CacheIndex[k].served > m_MaxCacheTag \div part}

TooFew(kept) == Cardinality(Stored(m_CacheIndex)) - Cardinality(kept) <= MaxCacheSize \div 10

\* Erroneous variant: the last pass keeps what it should remove.
KeptInFull(kept) == {kept}

KeptByOrder(kept) ==
    LET each == Cardinality(Stored(m_CacheIndex)) \div MaxCacheSize
    IN  {K \in SUBSET kept : Cardinality(K) = (Cardinality(kept) + each - 1) \div each}

KeptByCompaction ==
    LET half == Above(4) \cap Above(2)
    IN  IF Cardinality(Stored(m_CacheIndex)) < MaxCacheSize THEN {Stored(m_CacheIndex)}
        ELSE IF ~TooFew(Above(4)) THEN {Above(4)}
        ELSE IF ~TooFew(half) THEN {half}
        ELSE KeptByOrder(half)

CompactCache ==
    /\ worker.pc = "compact"
    /\ \E kept \in KeptByCompaction :
         m_CacheIndex' = [k \in Keys |-> IF k \in kept THEN m_CacheIndex[k] ELSE None]
    /\ worker' = Idle
    /\ UNCHANGED <<disk, m_WriteAheadLog, table, m_MaxCacheTag, m_Queue, batch,
                   m_ProcessedItemsCount, provider, raced, bounds>>

-----------------------------------------------------------------------------
(* The surroundings. *)

\* Another program writes the image.
ImageChanges(k) ==
    /\ file[k] < MaxVersion
    /\ file' = [file EXCEPT ![k] = @ + 1]
    /\ UNCHANGED <<thumb, indexVars, m_Queue, workerVars, provider, raced, bounds>>

\* Somebody clears the directory of the thumbnails.
ThumbnailIsRemoved(k) ==
    /\ thumb[k] # None
    /\ thumb' = [thumb EXCEPT ![k] = None]
    /\ UNCHANGED <<file, indexVars, m_Queue, workerVars, provider, raced, bounds>>

\* The program ends, by itself or not, and starts again: finalize closes the
\* database and does not save the log.
Restart ==
    /\ restarts < MaxRestarts
    /\ restarts' = restarts + 1
    /\ m_WriteAheadLog' = Empty /\ m_CacheIndex' = Empty /\ batch' = Empty
    /\ m_MaxCacheTag' = 0
    /\ m_Queue' = <<>>
    /\ worker' = Idle /\ m_ProcessedItemsCount' = 0
    /\ provider' = Waiting
    /\ UNCHANGED <<disk, table, raced, requests, faults>>

-----------------------------------------------------------------------------
Provide == GetFromCache \/ GetFromDB \/ RememberRead \/ Answer

Work ==
    \/ ProcessItem \/ SaveThumbnail \/ SaveFails \/ UpdateIndex
    \/ CollectLog \/ WriteTable \/ RestoreFailedItems \/ CompactCache

Next ==
    \/ \E k \in Keys : RequestImage(k) \/ ImageChanges(k) \/ ThumbnailIsRemoved(k)
    \/ Provide
    \/ GeneratePreviews
    \/ Work
    \/ Restart

Spec == Init /\ [][Next]_vars

\* Both threads go on while there is something for them to do.
FairSpec == Spec /\ WF_vars(Provide) /\ WF_vars(Work)

-----------------------------------------------------------------------------
(* Properties. *)

\* The entry made last for a key, wherever it waits to be saved.
Newest ==
    [k \in Keys |-> IF m_WriteAheadLog[k] # None THEN m_WriteAheadLog[k]
                    ELSE IF batch[k] # None THEN batch[k]
                    ELSE table[k]]

\* The log, the batch on its way and the table are together a store that loses
\* nothing it was given except by the end of the program, through writes of
\* which some fail (WriteAheadLog::flush, restoreFailedItems).
Store == INSTANCE WriteBehindStore WITH
           Values <- Entry \cup {None}, newest <- Newest, saved <- table, quits <- restarts

ImplementsStore == Store!Spec

\* Every entry that a request can find for an outdated thumbnail is older than
\* the image, so the request asks for a new thumbnail; also after a restart that
\* lost entries whose thumbnails had been written.  The exception is an image
\* that changed while its thumbnail was made (processOneItem asks for the
\* modification time only after it has saved the thumbnail).
OutdatedIsNoticed ==
    \A k \in Keys :
        (thumb[k] # None /\ thumb[k] # file[k] /\ ~raced[k]) =>
            \A entry \in {m_WriteAheadLog[k], m_CacheIndex[k], batch[k], table[k]} \ {None} :
                NeedsUpdate(k, entry)

\* A requested thumbnail is made of the image as it is, when the program stays
\* on and nothing fails any more: whatever the order of the requests, a thumbnail
\* removed or outdated, an index saved or compacted meanwhile.
RequestsAreServed ==
    \A k \in Keys :
        (/\ \E i \in DOMAIN m_Queue : m_Queue[i].key = k
         /\ file[k] # 0 /\ faults = MaxFaults /\ restarts = MaxRestarts)
            ~> (thumb[k] = file[k] \/ raced[k])

\* A compaction leaves less than twice the limit or has removed more than a
\* tenth of it: the cache in memory does not grow without end.
CompactionShrinks ==
    [][ worker.pc = "compact" /\ worker'.pc = "idle" /\ restarts' = restarts =>
          \/ Cardinality(Stored(m_CacheIndex')) < 2 * MaxCacheSize
          \/ Cardinality(Stored(m_CacheIndex)) - Cardinality(Stored(m_CacheIndex'))
               > MaxCacheSize \div 10 ]_vars

=============================================================================
