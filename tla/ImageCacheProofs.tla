--------------------------- MODULE ImageCacheProofs ---------------------------
(***************************************************************************)
(* For every set of images, limit and bound: the index of the thumbnails   *)
(* implements the write-behind store, whatever fails and whenever the      *)
(* program ends.                                                           *)
(*                                                                         *)
(* The types are proved first.  The refinement needs one fact more: while  *)
(* entries are on their way to the table the log is empty, because the     *)
(* thread that saves the index is the only one that makes entries; a       *)
(* restored entry can therefore not replace a newer one.                   *)
(***************************************************************************)
EXTENDS ImageCache, FiniteSetTheorems, TLAPS

\* The entries of the batch are on their way only while the index is saved, and
\* meanwhile the log is empty (WriteAheadLog::flush).
BatchInv ==
    /\ worker.pc \notin {"write", "restore"} => batch = Empty
    /\ worker.pc \in {"write", "restore"} => m_WriteAheadLog = Empty

IInv == TypeOK /\ BatchInv

-----------------------------------------------------------------------------
(* Types. *)

\* AddToCache and Remember (addToCacheUnsafe) keep the cache in memory typed.
LEMMA CacheTypes ==
    ASSUME TypeOK, NEW k \in Keys, NEW entry \in Entry, AddToCache(k, entry)
    PROVE  m_CacheIndex' \in Index /\ m_MaxCacheTag' \in 0..MaxServed
<1>1. entry.served \in 0..MaxServed
  BY DEF Entry
<1> QED
  BY <1>1, ImageCacheAssumption DEF AddToCache, TypeOK, Index

LEMMA RememberTypes ==
    ASSUME TypeOK, NEW k \in Keys, Remember(k)
    PROVE  m_CacheIndex' \in Index /\ m_MaxCacheTag' \in 0..MaxServed
<1>1. table[k] # None => table[k] \in Entry
  BY DEF TypeOK, Index
<1> QED
  BY <1>1, CacheTypes DEF Remember, TypeOK

\* What a request finds is an entry or nothing (DbCacheIndex::tryGet).
LEMMA FoundType ==
    ASSUME TypeOK, NEW k \in Keys
    PROVE  Found(k) \in Entry \cup {None}
BY DEF Found, TypeOK, Index

\* The image worker and the requests start from typed values.
LEMMA InitTypes == Init => TypeOK
<1> SUFFICES ASSUME Init PROVE TypeOK
  OBVIOUS
<1>1. Empty \in Index /\ Empty \in [Keys -> Versions \cup {None}]
  BY DEF Empty, Index
<1>2. file \in [Keys -> Versions]
  BY ImageCacheAssumption DEF Init, Versions
<1> QED
  BY <1>1, <1>2, ImageCacheAssumption DEF Init, TypeOK, Idle, Waiting, Versions

\* Steps of the thread of QML and of the surroundings (requestImage).
LEMMA ProvideTypes ==
    ASSUME TypeOK, Provide \/ GeneratePreviews \/ \E k \in Keys : RequestImage(k)
    PROVE  TypeOK'
<1>1. CASE \E k \in Keys : RequestImage(k)
  <2>1. PICK k \in Keys : RequestImage(k)
    BY <1>1
  <2>2. m_WriteAheadLog[k] \in Entry \cup {None}
    BY DEF TypeOK, Index
  <2> QED
    BY <2>1, <2>2, ImageCacheAssumption
       DEF RequestImage, TypeOK, disk, indexVars, workerVars
<1>2. CASE GetFromCache
  <2>1. m_CacheIndex[provider.key] \in Entry \cup {None}
    BY <1>2 DEF GetFromCache, TypeOK, Index
  <2> QED
    BY <1>2, <2>1 DEF GetFromCache, TypeOK, disk, indexVars, workerVars, bounds
<1>3. CASE GetFromDB
  <2>1. table[provider.key] \in Entry \cup {None}
    BY <1>3 DEF GetFromDB, TypeOK, Index
  <2> QED
    BY <1>3, <2>1 DEF GetFromDB, TypeOK, disk, indexVars, workerVars, bounds
<1>4. CASE RememberRead
  <2>1. /\ provider.key \in Keys /\ provider.found \in Entry
        /\ AddToCache(provider.key, provider.found)
    BY <1>4 DEF RememberRead, TypeOK
  <2>2. m_CacheIndex' \in Index /\ m_MaxCacheTag' \in 0..MaxServed
    BY <2>1, CacheTypes
  <2> QED
    BY <1>4, <2>2 DEF RememberRead, TypeOK, disk, workerVars, bounds
<1>5. CASE Answer
  <2> DEFINE again == [key |-> provider.key, recache |-> TRUE]
             first == [key |-> provider.key, recache |-> FALSE]
             asked == IF /\ provider.found # None /\ thumb[provider.key] # None
                         /\ NeedsUpdate(provider.key, provider.found)
                      THEN <<again>> ELSE <<>>
  <2>1. again \in Request /\ first \in Request
    BY <1>5 DEF Answer, TypeOK, Request
  <2>2. asked \in Seq(Request)
    BY <2>1
  <2>3. m_Queue' = asked \o m_Queue \/ m_Queue' = <<first>> \o asked \o m_Queue
    BY <1>5 DEF Answer
  <2>4. m_Queue \in Seq(Request)
    BY DEF TypeOK
  <2>5. asked \o m_Queue \in Seq(Request) /\ <<first>> \o asked \o m_Queue \in Seq(Request)
    <3> HIDE DEF asked, first
    <3>1. <<first>> \in Seq(Request)
      BY <2>1
    <3> QED
      BY <2>2, <2>4, <3>1
  <2>6. m_Queue' \in Seq(Request)
    BY <2>3, <2>5
  <2> HIDE DEF asked, first, again
  <2> QED
    BY <1>5, <2>6 DEF Answer, TypeOK, Waiting, disk, indexVars, workerVars, bounds
<1>6. CASE GeneratePreviews
  <2>1. PICK order \in Orders :
          m_Queue' = m_Queue \o [i \in DOMAIN order |-> [key |-> order[i], recache |-> FALSE]]
                             \o <<Separator>>
    BY <1>6 DEF GeneratePreviews
  <2>2. Cardinality(Keys) \in Nat
    BY ImageCacheAssumption, FS_CardinalityType
  <2>3. order \in [1..Cardinality(Keys) -> Keys]
    BY DEF Orders
  <2> DEFINE previews == [i \in DOMAIN order |-> [key |-> order[i], recache |-> FALSE]]
  <2>4. previews \in [1..Cardinality(Keys) -> Request]
    BY <2>3 DEF Request
  <2>5. previews \in Seq(Request)
    BY <2>2, <2>4
  <2>6. <<Separator>> \in Seq(Request)
    BY DEF Separator, Request
  <2>7. m_Queue' \in Seq(Request)
    <3> HIDE DEF previews
    <3>1. m_Queue \in Seq(Request)
      BY DEF TypeOK
    <3>2. m_Queue \o previews \o <<Separator>> \in Seq(Request)
      BY <2>5, <2>6, <3>1
    <3> QED
      BY <2>1, <3>2 DEF previews
  <2> QED
    BY <1>6, <2>7 DEF GeneratePreviews, TypeOK, disk, indexVars, workerVars
<1> QED
  BY <1>1, <1>2, <1>3, <1>4, <1>5, <1>6 DEF Provide

\* The next state of the thread that makes thumbnails (processWorkItem).
LEMMA AfterItemType ==
    ASSUME NEW count
    PROVE  /\ AfterItem(count) \in [pc : {"idle", "sync"}, key : {None}, loaded : {0}]
           /\ AfterItem(count).pc \notin {"loaded", "saved", "write", "restore"}
BY DEF AfterItem, Idle

\* The worker records an entry for the thumbnail it saved (DbImageCacheIndex::update).
LEMMA UpdateMakesEntry ==
    ASSUME TypeOK, UpdateIndex
    PROVE  \E e \in Entry : /\ m_WriteAheadLog' = [m_WriteAheadLog EXCEPT ![worker.key] = e]
                            /\ e.stamp = file[worker.key]
<1> DEFINE k == worker.key
           served == IF Found(k) = None THEN 1
                     ELSE IF Found(k).served < MaxServed THEN Found(k).served + 1
                     ELSE MaxServed
<1>1. k \in Keys
  BY DEF UpdateIndex, TypeOK
<1>2. Found(k) \in Entry \cup {None}
  BY <1>1, FoundType
<1>3. served \in 1..MaxServed
  BY <1>2, ImageCacheAssumption DEF Entry
<1>4. file[k] \in Versions
  BY <1>1 DEF TypeOK
<1>5. [stamp |-> file[k], served |-> served] \in Entry
  BY <1>3, <1>4 DEF Entry
<1> QED
  BY <1>5 DEF UpdateIndex

\* Steps of the worker (ImageCachingWorker::processOneItem, DbCacheIndex::sync).
LEMMA WorkTypes ==
    ASSUME TypeOK, Work
    PROVE  TypeOK'
<1>0. 0 \in Versions
  BY ImageCacheAssumption DEF Versions
<1>1. CASE ProcessItem
  <2>1. m_Queue # <<>> /\ m_Queue \in Seq(Request)
    BY <1>1 DEF ProcessItem, TypeOK
  <2>2. Head(m_Queue) \in Request /\ Tail(m_Queue) \in Seq(Request)
    BY <2>1
  <2> DEFINE request == Head(m_Queue)
             k == request.key
  <2>3. CASE request = Separator
    <3>1. worker' = [Idle EXCEPT !.pc = "sync"] /\ UNCHANGED <<m_CacheIndex, m_MaxCacheTag>>
      BY <1>1, <2>3 DEF ProcessItem
    <3> QED
      BY <1>0, <1>1, <2>2, <3>1 DEF ProcessItem, TypeOK, Idle, disk, bounds
  <2>4. CASE request # Separator
    <3>1. k \in Keys
      BY <2>2, <2>4 DEF Request
    <3>2. Remember(k) \/ UNCHANGED <<m_CacheIndex, m_MaxCacheTag>>
      BY <1>1, <2>4 DEF ProcessItem
    <3>3. m_CacheIndex' \in Index /\ m_MaxCacheTag' \in 0..MaxServed
      BY <3>1, <3>2, RememberTypes DEF TypeOK
    <3>4. worker' \in {Idle, [pc |-> "loaded", key |-> k, loaded |-> file[k]]}
      BY <1>1, <2>4 DEF ProcessItem
    <3>5. file[k] \in Versions
      BY <3>1 DEF TypeOK
    <3>6. /\ worker' \in [pc : {"idle", "loaded"}, key : Keys \cup {None}, loaded : Versions]
          /\ worker'.pc \in {"loaded", "saved"} => worker'.key # None
      <4> HIDE DEF k
      <4> QED
        BY <1>0, <3>1, <3>4, <3>5, ImageCacheAssumption DEF Idle
    <3> QED
      BY <1>1, <2>2, <3>3, <3>6 DEF ProcessItem, TypeOK, disk, bounds
  <2> QED
    BY <2>3, <2>4
<1>2. CASE SaveThumbnail
  BY <1>2 DEF SaveThumbnail, TypeOK, indexVars, bounds
<1>3. CASE SaveFails
  BY <1>0, <1>3, AfterItemType DEF SaveFails, TypeOK, disk, indexVars
<1>4. CASE UpdateIndex
  <2> DEFINE k == worker.key
             count == (m_ProcessedItemsCount + 1) % BackupStep
  <2>1. k \in Keys
    BY <1>4 DEF UpdateIndex, TypeOK
  <2>2. Remember(k) /\ worker' = AfterItem(count) /\ m_ProcessedItemsCount' = count
    BY <1>4 DEF UpdateIndex
  <2>3. m_CacheIndex' \in Index /\ m_MaxCacheTag' \in 0..MaxServed
    BY <2>1, <2>2, RememberTypes
  <2>4. count \in 0..(BackupStep - 1)
    BY ImageCacheAssumption DEF TypeOK
  <2>5. PICK e \in Entry : m_WriteAheadLog' = [m_WriteAheadLog EXCEPT ![k] = e]
    BY <1>4, UpdateMakesEntry
  <2>6. m_WriteAheadLog' \in Index
    BY <2>5 DEF TypeOK, Index
  <2>7. raced' \in [Keys -> BOOLEAN]
    BY <1>4 DEF UpdateIndex, TypeOK
  <2>8. /\ worker' \in [pc : {"idle", "sync"}, key : {None}, loaded : {0}]
        /\ worker'.pc \notin {"loaded", "saved"}
    BY <2>2, AfterItemType
  <2> QED
    BY <1>0, <1>4, <2>2, <2>3, <2>4, <2>6, <2>7, <2>8
       DEF UpdateIndex, TypeOK, disk, bounds
<1>5. CASE CollectLog
  BY <1>0, <1>5 DEF CollectLog, TypeOK, Idle, Empty, Index, disk, bounds
<1>6. CASE WriteTable
  <2>1. PICK failed \in SUBSET Stored(batch) :
          /\ table' = [k \in Keys |-> IF k \in Stored(batch) \ failed THEN batch[k] ELSE table[k]]
          /\ batch' = [k \in Keys |-> IF k \in failed THEN batch[k] ELSE None]
          /\ worker' = [worker EXCEPT !.pc = IF failed = {} THEN "compact" ELSE "restore"]
          /\ faults' = IF failed = {} THEN faults ELSE faults + 1
    BY <1>6 DEF WriteTable
  <2>2. table' \in Index /\ batch' \in Index
    BY <2>1 DEF TypeOK, Index
  <2>3. /\ worker' \in [pc : {"compact", "restore"}, key : Keys \cup {None}, loaded : Versions]
        /\ faults' \in Nat
    <3> DEFINE pc == IF failed = {} THEN "compact" ELSE "restore"
    <3>1. pc \in {"compact", "restore"}
      OBVIOUS
    <3>2. worker' = [worker EXCEPT !.pc = pc]
      BY <2>1
    <3> HIDE DEF pc
    <3> QED
      BY <2>1, <3>1, <3>2 DEF TypeOK
  <2> QED
    BY <1>6, <2>2, <2>3 DEF WriteTable, TypeOK, disk
<1>7. CASE RestoreFailedItems
  BY <1>7 DEF RestoreFailedItems, TypeOK, Empty, Index, disk, bounds
<1>8. CASE CompactCache
  BY <1>0, <1>8 DEF CompactCache, TypeOK, Idle, Index, disk, bounds
<1> QED
  BY <1>1, <1>2, <1>3, <1>4, <1>5, <1>6, <1>7, <1>8 DEF Work

\* The surroundings: the image, its thumbnail, the end of the program.
LEMMA SurroundingsTypes ==
    ASSUME TypeOK,
           \/ \E k \in Keys : ImageChanges(k) \/ ThumbnailIsRemoved(k)
           \/ Restart
    PROVE  TypeOK'
<1>1. CASE \E k \in Keys : ImageChanges(k)
  <2>1. PICK k \in Keys : ImageChanges(k)
    BY <1>1
  <2>2. file' \in [Keys -> Versions]
    BY <2>1, ImageCacheAssumption DEF ImageChanges, TypeOK, Versions
  <2> QED
    BY <2>1, <2>2 DEF ImageChanges, TypeOK, indexVars, workerVars, bounds
<1>2. CASE \E k \in Keys : ThumbnailIsRemoved(k)
  BY <1>2 DEF ThumbnailIsRemoved, TypeOK, indexVars, workerVars, bounds
<1>3. CASE Restart
  <2>1. Empty \in Index
    BY DEF Empty, Index
  <2>2. Idle.loaded \in Versions /\ 0 \in 0..(BackupStep - 1) /\ 0 \in 0..MaxServed
    BY ImageCacheAssumption DEF Idle, Versions
  <2> QED
    BY <1>3, <2>1, <2>2 DEF Restart, TypeOK, Idle, Waiting, disk
<1> QED
  BY <1>1, <1>2, <1>3

LEMMA TypesStep == TypeOK /\ [Next]_vars => TypeOK'
<1> SUFFICES ASSUME TypeOK, [Next]_vars PROVE TypeOK'
  OBVIOUS
<1>1. CASE UNCHANGED vars
  BY <1>1 DEF TypeOK, vars, disk, indexVars, workerVars, bounds
<1>2. CASE Next
  BY <1>2, ProvideTypes, WorkTypes, SurroundingsTypes DEF Next
<1> QED
  BY <1>1, <1>2

\* Every entry, request and counter of the cache stays within its type
\* (ImageCachingWorker, DbCacheIndex).
THEOREM TypeCorrect == Spec => []TypeOK
<1> QED
  BY InitTypes, TypesStep, PTL DEF Spec

-----------------------------------------------------------------------------
(* The refinement. *)

LEMMA BatchStep == IInv /\ [Next]_vars => BatchInv'
<1> SUFFICES ASSUME TypeOK, BatchInv, [Next]_vars PROVE BatchInv'
  BY DEF IInv
<1>1. CASE UNCHANGED vars
  BY <1>1 DEF BatchInv, vars, indexVars, workerVars
<1>2. CASE \/ Provide \/ GeneratePreviews
           \/ \E k \in Keys : RequestImage(k) \/ ImageChanges(k) \/ ThumbnailIsRemoved(k)
  <2>1. UNCHANGED <<worker, batch, m_WriteAheadLog>>
    BY <1>2 DEF Provide, GetFromCache, GetFromDB, RememberRead, Answer, GeneratePreviews,
                RequestImage, ImageChanges, ThumbnailIsRemoved, indexVars, workerVars
  <2> QED
    BY <2>1 DEF BatchInv
<1>3. CASE ProcessItem
  <2>1. worker'.pc \in {"idle", "sync", "loaded"}
    BY <1>3 DEF ProcessItem, Idle
  <2> QED
    BY <1>3, <2>1 DEF ProcessItem, BatchInv
<1>4. CASE SaveThumbnail
  <2>1. worker'.pc = "saved"
    BY <1>4 DEF SaveThumbnail, TypeOK
  <2> QED
    BY <1>4, <2>1 DEF SaveThumbnail, BatchInv
<1>5. CASE SaveFails
  BY <1>5, AfterItemType DEF SaveFails, BatchInv
<1>6. CASE UpdateIndex
  <2>1. worker'.pc \notin {"write", "restore"}
    BY <1>6, AfterItemType DEF UpdateIndex
  <2> QED
    BY <1>6, <2>1 DEF UpdateIndex, BatchInv
<1>7. CASE CollectLog
  <2>1. CASE Stored(m_WriteAheadLog) = {}
    <3>1. m_WriteAheadLog = Empty
      BY <2>1 DEF Stored, Empty, TypeOK, Index
    <3> QED
      BY <1>7, <3>1, <2>1 DEF CollectLog, BatchInv, Idle
  <2>2. CASE Stored(m_WriteAheadLog) # {}
    BY <1>7, <2>2 DEF CollectLog, BatchInv, Idle
  <2> QED
    BY <2>1, <2>2
<1>8. CASE WriteTable
  <2>1. PICK failed \in SUBSET Stored(batch) :
          /\ batch' = [k \in Keys |-> IF k \in failed THEN batch[k] ELSE None]
          /\ worker' = [worker EXCEPT !.pc = IF failed = {} THEN "compact" ELSE "restore"]
    BY <1>8 DEF WriteTable
  <2>2. failed = {} => batch' = Empty
    BY <2>1 DEF Empty
  <2>3. worker'.pc = IF failed = {} THEN "compact" ELSE "restore"
    BY <2>1 DEF TypeOK
  <2> QED
    BY <1>8, <2>2, <2>3 DEF WriteTable, BatchInv
<1>9. CASE RestoreFailedItems
  <2>1. worker'.pc = "compact"
    BY <1>9 DEF RestoreFailedItems, TypeOK
  <2> QED
    BY <1>9, <2>1 DEF RestoreFailedItems, BatchInv
<1>10. CASE CompactCache
  BY <1>10 DEF CompactCache, BatchInv, Idle
<1>11. CASE Restart
  BY <1>11 DEF Restart, BatchInv, Idle
<1> QED
  BY <1>1, <1>2, <1>3, <1>4, <1>5, <1>6, <1>7, <1>8, <1>9, <1>10, <1>11 DEF Next, Work

LEMMA IInvHolds == Spec => []IInv
<1>1. Init => IInv
  BY InitTypes DEF IInv, BatchInv, Init, Idle
<1>2. IInv /\ [Next]_vars => IInv'
  BY TypesStep, BatchStep DEF IInv
<1> QED
  BY <1>1, <1>2, PTL DEF Spec

LEMMA StoreInit == Init => Store!Init
<1> SUFFICES ASSUME Init PROVE Store!Init
  OBVIOUS
<1>1. Newest = table
  BY DEF Newest, Init, Empty
<1>2. table \in [Keys -> Entry \cup {None}]
  BY InitTypes DEF TypeOK, Index
<1> QED
  BY <1>1, <1>2 DEF Init, Store!Init

\* Every step is a write, a save, a quit or none of them.
LEMMA StoreStep == IInv /\ [Next]_vars => [Store!Next]_(Store!vars)
<1> SUFFICES ASSUME TypeOK, BatchInv, [Next]_vars PROVE [Store!Next]_(Store!vars)
  BY DEF IInv
<1>1. CASE /\ UNCHANGED <<m_WriteAheadLog, batch, table, restarts>>
  <2>1. UNCHANGED <<Newest, table, restarts>>
    BY <1>1 DEF Newest
  <2> QED
    BY <2>1 DEF Store!vars
<1>2. CASE UpdateIndex
  <2> DEFINE k == worker.key
  <2>1. k \in Keys
    BY <1>2 DEF UpdateIndex, TypeOK
  <2>2. PICK e \in Entry : m_WriteAheadLog' = [m_WriteAheadLog EXCEPT ![k] = e]
    BY <1>2, UpdateMakesEntry
  <2>3. batch' = batch /\ table' = table /\ restarts' = restarts
    BY <1>2 DEF UpdateIndex, bounds
  <2>4. e # None
    BY ImageCacheAssumption DEF Entry, Versions
  <2>5. Newest' = [Newest EXCEPT ![k] = e]
    BY <2>1, <2>2, <2>3, <2>4 DEF Newest, TypeOK, Index
  <2>6. Store!Write(k, e)
    BY <2>3, <2>5 DEF Store!Write
  <2> QED
    BY <2>1, <2>6 DEF Store!Next
<1>3. CASE CollectLog
  <2>1. batch = Empty
    BY <1>3 DEF CollectLog, BatchInv
  <2>2. Newest' = Newest
    BY <1>3, <2>1 DEF CollectLog, Newest, Empty
  <2> QED
    BY <1>3, <2>2 DEF CollectLog, Store!vars, bounds
<1>4. CASE WriteTable
  <2>1. PICK failed \in SUBSET Stored(batch) :
          /\ table' = [k \in Keys |-> IF k \in Stored(batch) \ failed THEN batch[k] ELSE table[k]]
          /\ batch' = [k \in Keys |-> IF k \in failed THEN batch[k] ELSE None]
    BY <1>4 DEF WriteTable
  <2>2. m_WriteAheadLog = Empty /\ m_WriteAheadLog' = Empty
    BY <1>4 DEF WriteTable, BatchInv
  <2>3. Newest' = Newest
    BY <2>1, <2>2 DEF Newest, Empty, Stored
  <2>4. table' = [k \in Keys |-> IF k \in Stored(batch) \ failed THEN Newest[k] ELSE table[k]]
    BY <2>1, <2>2 DEF Newest, Empty, Stored
  <2>5. Store!Save(Stored(batch) \ failed)
    BY <1>4, <2>3, <2>4 DEF Store!Save, WriteTable
  <2> QED
    BY <2>5 DEF Store!Next, Stored
<1>5. CASE RestoreFailedItems
  <2>1. m_WriteAheadLog = Empty
    BY <1>5 DEF RestoreFailedItems, BatchInv
  <2>2. Newest' = Newest
    BY <1>5, <2>1 DEF RestoreFailedItems, Newest, Empty
  <2> QED
    BY <1>5, <2>2 DEF RestoreFailedItems, Store!vars, bounds
<1>6. CASE Restart
  <2>1. Newest' = table
    BY <1>6 DEF Restart, Newest, Empty, TypeOK, Index
  <2> QED
    BY <1>6, <2>1 DEF Restart, Store!Next, Store!Quit
<1>7. CASE /\ ~UpdateIndex /\ ~CollectLog /\ ~WriteTable /\ ~RestoreFailedItems /\ ~Restart
           /\ Next
  <2>1. UNCHANGED <<m_WriteAheadLog, batch, table, restarts>>
    BY <1>7 DEF Next, Provide, Work, GetFromCache, GetFromDB, RememberRead, Answer,
                GeneratePreviews, RequestImage, ImageChanges, ThumbnailIsRemoved,
                ProcessItem, SaveThumbnail, SaveFails, CompactCache, indexVars, workerVars,
                bounds
  <2> QED
    BY <1>1, <2>1
<1>8. CASE UNCHANGED vars
  BY <1>1, <1>8 DEF vars, indexVars, workerVars, bounds
<1> QED
  BY <1>2, <1>3, <1>4, <1>5, <1>6, <1>7, <1>8

\* The index of the thumbnails loses nothing it was given, through writes that
\* fail and entries on their way, except what was not saved when the program
\* ended (WriteAheadLog::flush, DbCacheIndex::finalize).
THEOREM IndexImplementsStore == Spec => ImplementsStore
<1> QED
  BY IInvHolds, StoreInit, StoreStep, PTL DEF Spec, ImplementsStore, Store!Spec

-----------------------------------------------------------------------------
(* Outdated thumbnails. *)

\* Every entry of k that somebody may still find or keep.
Around(k) ==
    {m_WriteAheadLog[k], m_CacheIndex[k], batch[k], table[k]}
        \cup (IF provider.key = k THEN {provider.found} ELSE {})

\* The worker has k's image in its hands.
Holds(k) == worker.pc \in {"loaded", "saved"} /\ worker.key = k

\* No entry is ahead of its image, nor of the image the worker has loaded, nor,
\* unless the image changed while its thumbnail was made, of its thumbnail.
StampsInv ==
    \A k \in Keys :
        /\ Holds(k) => worker.loaded <= file[k]
        /\ thumb[k] # None => thumb[k] <= file[k]
        /\ Holds(k) /\ worker.pc = "saved" => thumb[k] \in {None, worker.loaded}
        /\ \A entry \in Around(k) \ {None} :
             /\ entry.stamp <= file[k]
             /\ Holds(k) => entry.stamp <= worker.loaded
             /\ thumb[k] # None /\ ~raced[k] => entry.stamp <= thumb[k]

LEMMA StampsTypes ==
    ASSUME TypeOK, NEW k \in Keys
    PROVE  /\ file[k] \in Int /\ worker.loaded \in Int
           /\ thumb[k] # None => thumb[k] \in Int
           /\ Around(k) \subseteq Entry \cup {None}
           /\ \A entry \in Around(k) \ {None} : entry.stamp \in Int
<1>1. Versions \subseteq Int
  BY ImageCacheAssumption DEF Versions
<1>2. Around(k) \subseteq Entry \cup {None}
  BY DEF TypeOK, Index, Around
<1> QED
  BY <1>1, <1>2 DEF TypeOK, Entry

\* Entries that only move or disappear: nothing to show but where the worker is.
LEMMA EntriesMove ==
    ASSUME StampsInv, UNCHANGED <<file, thumb, raced>>,
           \A k \in Keys : Around(k)' \ {None} \subseteq Around(k),
           worker' = worker \/ worker'.pc \notin {"loaded", "saved"}
    PROVE  StampsInv'
BY DEF StampsInv, Holds

LEMMA ProvideMoves ==
    ASSUME TypeOK, Provide \/ GeneratePreviews \/ \E k \in Keys : RequestImage(k),
           NEW k \in Keys
    PROVE  /\ Around(k)' \ {None} \subseteq Around(k)
           /\ UNCHANGED <<file, thumb, raced, worker>>
<1>1. CASE \E i \in Keys : RequestImage(i)
  BY <1>1 DEF RequestImage, Around, disk, indexVars, workerVars
<1>2. CASE GetFromCache
  BY <1>2 DEF GetFromCache, Around, TypeOK, disk, indexVars, workerVars
<1>3. CASE GetFromDB
  BY <1>3 DEF GetFromDB, Around, TypeOK, disk, indexVars, workerVars
<1>4. CASE RememberRead
  BY <1>4 DEF RememberRead, AddToCache, Around, TypeOK, Index, disk, workerVars
<1>5. CASE Answer
  BY <1>5 DEF Answer, Around, Waiting, TypeOK, disk, indexVars, workerVars
<1>6. CASE GeneratePreviews
  BY <1>6 DEF GeneratePreviews, Around, disk, indexVars, workerVars
<1> QED
  BY <1>1, <1>2, <1>3, <1>4, <1>5, <1>6 DEF Provide

\* What the worker's tryGet keeps was in the table.
LEMMA RememberMoves ==
    ASSUME TypeOK, NEW i \in Keys, Remember(i), NEW k \in Keys,
           UNCHANGED <<m_WriteAheadLog, batch, table, provider>>
    PROVE  Around(k)' \ {None} \subseteq Around(k)
BY DEF Remember, AddToCache, Around, TypeOK, Index

LEMMA SyncMoves ==
    ASSUME TypeOK, CollectLog \/ WriteTable \/ RestoreFailedItems \/ CompactCache \/ Restart,
           NEW k \in Keys
    PROVE  /\ Around(k)' \ {None} \subseteq Around(k)
           /\ UNCHANGED <<file, thumb, raced>>
           /\ worker'.pc \notin {"loaded", "saved"}
<1>1. CASE CollectLog
  BY <1>1 DEF CollectLog, Around, Empty, Idle, disk
<1>2. CASE WriteTable
  <2>1. PICK failed \in SUBSET Stored(batch) :
          /\ table' = [i \in Keys |-> IF i \in Stored(batch) \ failed THEN batch[i] ELSE table[i]]
          /\ batch' = [i \in Keys |-> IF i \in failed THEN batch[i] ELSE None]
          /\ worker' = [worker EXCEPT !.pc = IF failed = {} THEN "compact" ELSE "restore"]
    BY <1>2 DEF WriteTable
  <2>2. table'[k] \in {table[k], batch[k]} /\ batch'[k] \in {batch[k], None}
    BY <2>1
  <2>3. worker'.pc = IF failed = {} THEN "compact" ELSE "restore"
    BY <2>1 DEF TypeOK
  <2> QED
    BY <1>2, <2>2, <2>3 DEF WriteTable, Around, disk
<1>3. CASE RestoreFailedItems
  <2>1. m_WriteAheadLog'[k] \in {batch[k], m_WriteAheadLog[k]} /\ batch'[k] = None
    BY <1>3 DEF RestoreFailedItems, Empty
  <2>2. worker'.pc = "compact"
    BY <1>3 DEF RestoreFailedItems, TypeOK
  <2> QED
    BY <1>3, <2>1, <2>2 DEF RestoreFailedItems, Around, disk
<1>4. CASE CompactCache
  BY <1>4 DEF CompactCache, Around, Idle, disk
<1>5. CASE Restart
  BY <1>5 DEF Restart, Around, Empty, Idle, Waiting, disk
<1> QED
  BY <1>1, <1>2, <1>3, <1>4, <1>5

LEMMA StampsStep == TypeOK /\ StampsInv /\ [Next]_vars => StampsInv'
<1> SUFFICES ASSUME TypeOK, StampsInv, [Next]_vars PROVE StampsInv'
  OBVIOUS
<1>0. TypeOK'
  BY TypesStep
<1>1. CASE UNCHANGED vars
  BY <1>1, EntriesMove DEF vars, disk, indexVars, workerVars, Around
<1>2. CASE Provide \/ GeneratePreviews \/ \E k \in Keys : RequestImage(k)
  <2>1. \A k \in Keys : /\ Around(k)' \ {None} \subseteq Around(k)
                        /\ UNCHANGED <<file, thumb, raced, worker>>
    BY <1>2, ProvideMoves
  <2> QED
    BY <2>1, EntriesMove DEF StampsInv
<1>3. CASE ProcessItem
  <2> DEFINE i == Head(m_Queue).key
  <2>1. UNCHANGED <<file, thumb, raced, m_WriteAheadLog, batch, table, provider>>
    BY <1>3 DEF ProcessItem, disk
  <2>2. \A k \in Keys : Around(k)' \ {None} \subseteq Around(k)
    <3>1. Head(m_Queue) \in Request
      BY <1>3 DEF ProcessItem, TypeOK
    <3>2. UNCHANGED m_CacheIndex \/ (i \in Keys /\ Remember(i))
      BY <1>3, <3>1 DEF ProcessItem, Request
    <3>3. CASE UNCHANGED m_CacheIndex
      BY <2>1, <3>3 DEF Around
    <3>4. CASE i \in Keys /\ Remember(i)
      BY <2>1, <3>4, RememberMoves
    <3> QED
      BY <3>2, <3>3, <3>4
  <2>3. \/ worker'.pc \notin {"loaded", "saved"}
        \/ i \in Keys /\ worker' = [pc |-> "loaded", key |-> i, loaded |-> file[i]]
    <3>1. Head(m_Queue) \in Request
      BY <1>3 DEF ProcessItem, TypeOK
    <3> QED
      BY <1>3, <3>1 DEF ProcessItem, Request, Idle
  <2>4. CASE worker'.pc \notin {"loaded", "saved"}
    BY <2>1, <2>2, <2>4, EntriesMove
  <2>5. CASE i \in Keys /\ worker' = [pc |-> "loaded", key |-> i, loaded |-> file[i]]
    <3> SUFFICES ASSUME NEW k \in Keys
                 PROVE  /\ Holds(k)' => worker'.loaded <= file[k]
                        /\ Holds(k)' => worker'.pc # "saved"
                        /\ \A entry \in Around(k) \ {None} :
                             Holds(k)' => entry.stamp <= worker'.loaded
      BY <2>1, <2>2 DEF StampsInv, Holds
    <3>1. worker'.pc = "loaded" /\ worker'.key = i /\ worker'.loaded = file[i]
      BY <2>5
    <3>2. Holds(k)' => k = i
      BY <3>1 DEF Holds
    <3> QED
      BY <3>1, <3>2, StampsTypes DEF StampsInv
  <2> QED
    BY <2>3, <2>4, <2>5
<1>4. CASE SaveThumbnail
  <2> DEFINE i == worker.key
  <2>1. i \in Keys /\ Holds(i) /\ \A k \in Keys : Holds(k) => k = i
    BY <1>4 DEF SaveThumbnail, TypeOK, Holds
  <2>2. /\ worker'.pc = "saved" /\ worker'.key = i /\ worker'.loaded = worker.loaded
        /\ thumb' = [thumb EXCEPT ![i] = worker.loaded]
        /\ UNCHANGED <<file, raced>>
    BY <1>4 DEF SaveThumbnail, TypeOK
  <2>3. \A k \in Keys : Around(k)' = Around(k)
    BY <1>4 DEF SaveThumbnail, Around, indexVars
  <2>4. \A k \in Keys : Holds(k)' <=> Holds(k)
    BY <2>1, <2>2 DEF Holds
  <2>5. thumb'[i] = worker.loaded /\ \A k \in Keys : k # i => thumb'[k] = thumb[k]
    BY <2>1, <2>2 DEF TypeOK
  <2> QED
    BY <2>1, <2>2, <2>3, <2>4, <2>5 DEF StampsInv
<1>5. CASE SaveFails
  <2>1. \A k \in Keys : Around(k)' = Around(k)
    BY <1>5 DEF SaveFails, Around, indexVars
  <2> QED
    BY <1>5, <2>1, AfterItemType, EntriesMove DEF SaveFails, disk
<1>6. CASE UpdateIndex
  <2> DEFINE i == worker.key
  <2>1. i \in Keys /\ Holds(i) /\ worker.pc = "saved"
    BY <1>6 DEF UpdateIndex, TypeOK, Holds
  <2>2. /\ UNCHANGED <<file, thumb, batch, table, provider>>
        /\ worker'.pc \notin {"loaded", "saved"}
        /\ raced' = [raced EXCEPT ![i] = file[i] # worker.loaded]
    BY <1>6, AfterItemType DEF UpdateIndex, disk
  <2>3. PICK e \in Entry : /\ m_WriteAheadLog' = [m_WriteAheadLog EXCEPT ![i] = e]
                           /\ e.stamp = file[i]
    BY <1>6, UpdateMakesEntry
  <2>4. \A k \in Keys : m_CacheIndex'[k] \in {m_CacheIndex[k], table[k]}
    BY <1>6, <2>1 DEF UpdateIndex, Remember, AddToCache, TypeOK, Index
  <2>5. \A k \in Keys : Around(k)' \subseteq Around(k) \cup (IF k = i THEN {e} ELSE {})
    BY <2>1, <2>2, <2>3, <2>4 DEF Around, TypeOK, Index
  <2>6. ASSUME NEW k \in Keys, NEW entry \in Around(k)' \ {None}
        PROVE  /\ entry.stamp <= file[k]
               /\ thumb[k] # None /\ ~raced'[k] => entry.stamp <= thumb[k]
    <3>1. CASE k = i
      <4>1. raced'[k] = (file[i] # worker.loaded) /\ thumb[k] \in {None, worker.loaded}
        BY <2>1, <2>2, <3>1 DEF TypeOK, StampsInv
      <4>2. entry \in Around(i) \ {None} \/ entry = e
        BY <2>5, <2>6, <3>1
      <4>3. CASE entry = e
        <5>1. file[i] \in Int /\ entry.stamp = file[i]
          BY <2>1, <2>3, <4>3, StampsTypes
        <5>2. ~raced'[k] => file[i] = worker.loaded
          BY <4>1
        <5>3. thumb[k] # None /\ ~raced'[k] => thumb[k] = file[i]
          BY <4>1, <5>2
        <5> QED
          BY <3>1, <5>1, <5>3
      <4>4. CASE entry \in Around(i) \ {None}
        BY <2>1, <3>1, <4>1, <4>4 DEF StampsInv
      <4> QED
        BY <4>2, <4>3, <4>4
    <3>2. CASE k # i
      BY <2>2, <2>5, <3>2 DEF StampsInv, TypeOK
    <3> QED
      BY <3>1, <3>2
  <2>7. \A k \in Keys : ~Holds(k)'
    BY <2>2 DEF Holds
  <2> QED
    BY <2>2, <2>6, <2>7 DEF StampsInv
<1>7. CASE CollectLog \/ WriteTable \/ RestoreFailedItems \/ CompactCache \/ Restart
  <2>1. \A k \in Keys : /\ Around(k)' \ {None} \subseteq Around(k)
                        /\ UNCHANGED <<file, thumb, raced>>
                        /\ worker'.pc \notin {"loaded", "saved"}
    BY <1>7, SyncMoves
  <2> QED
    BY <2>1, EntriesMove DEF StampsInv
<1>8. CASE \E i \in Keys : ImageChanges(i)
  <2>1. PICK i \in Keys : ImageChanges(i)
    BY <1>8
  <2>2. UNCHANGED <<thumb, raced, worker>> /\ \A k \in Keys : Around(k)' = Around(k)
    BY <2>1 DEF ImageChanges, Around, indexVars, workerVars
  <2>3. \A k \in Keys : file'[k] \in Int /\ file[k] <= file'[k]
    BY <2>1, StampsTypes DEF ImageChanges, TypeOK
  <2> QED
    BY <2>2, <2>3, StampsTypes DEF StampsInv, Holds
<1>9. CASE \E i \in Keys : ThumbnailIsRemoved(i)
  <2>1. PICK i \in Keys : ThumbnailIsRemoved(i)
    BY <1>9
  <2>2. UNCHANGED <<file, raced, worker>> /\ \A k \in Keys : Around(k)' = Around(k)
    BY <2>1 DEF ThumbnailIsRemoved, Around, indexVars, workerVars
  <2>3. \A k \in Keys : thumb'[k] \in {thumb[k], None}
    BY <2>1 DEF ThumbnailIsRemoved, TypeOK
  <2> QED
    BY <2>2, <2>3 DEF StampsInv, Holds
<1> QED
  BY <1>1, <1>2, <1>3, <1>4, <1>5, <1>6, <1>7, <1>8, <1>9 DEF Next, Work

\* A thumbnail older than its image is noticed by whoever finds an entry for it,
\* unless the image changed while the thumbnail was made (tryGetCachedImage).
THEOREM OutdatedThumbnailsAreNoticed == Spec => []OutdatedIsNoticed
<1>1. Init => StampsInv
  BY DEF Init, StampsInv, Around, Holds, Empty, Idle, Waiting
<1>2. TypeOK /\ StampsInv => OutdatedIsNoticed
  <2> SUFFICES ASSUME TypeOK, StampsInv, NEW k \in Keys,
                      thumb[k] # None, thumb[k] # file[k], ~raced[k],
                      NEW entry \in Around(k) \ {None}
               PROVE  NeedsUpdate(k, entry)
    BY DEF OutdatedIsNoticed, Around
  <2> QED
    BY StampsTypes DEF StampsInv, NeedsUpdate
<1> QED
  BY <1>1, <1>2, StampsStep, TypeCorrect, PTL DEF Spec

-----------------------------------------------------------------------------
(* Compaction. *)

\* The quotient of the integers, as a product and a rest.
LEMMA Quotient ==
    ASSUME NEW n \in Nat, NEW m \in Nat \ {0}
    PROVE  /\ n \div m \in Nat
           /\ m * (n \div m) <= n
           /\ n < m * (n \div m) + m
OBVIOUS

\* One of every n \div m entries, of at most n: less than twice m.
LEMMA OneOfEach ==
    ASSUME NEW n \in Nat, NEW m \in Nat \ {0}, m <= n, NEW h \in Nat, h <= n
    PROVE  LET each == n \div m IN (h + each - 1) \div each < 2 * m
<1> DEFINE each == n \div m
           kept == (h + each - 1) \div each
<1>1. each \in Nat /\ m * each <= n /\ n < m * each + m
  BY Quotient
<1>2. each # 0
  BY <1>1
<1> HIDE DEF each
<1>3. kept \in Nat /\ each * kept <= h + each - 1
  BY <1>1, <1>2, Quotient
<1> HIDE DEF kept
<1>4. ASSUME kept >= 2 * m PROVE FALSE
  <2>1. each * kept >= each * (2 * m)
    BY <1>1, <1>3, <1>4
  <2>2. each * (2 * m) = m * each + m * each
    BY <1>1
  <2> DEFINE product == m * each
  <2>3. product \in Nat
    BY <1>1
  <2>4. (each - 1) * (m - 1) >= 0 /\ (each - 1) * (m - 1) = product - each - m + 1
    BY <1>1, <1>2
  <2>5. product + product <= h + each - 1
    BY <1>1, <1>3, <2>1, <2>2
  <2>6. n < product + m
    BY <1>1
  <2> HIDE DEF product
  <2> QED
    BY <1>1, <2>3, <2>4, <2>5, <2>6
<1> QED
  BY <1>1, <1>3, <1>4 DEF each, kept

\* What a compaction keeps is in the cache, and it is little, or much is removed.
LEMMA CompactionKeeps ==
    ASSUME TypeOK, NEW kept \in KeptByCompaction
    PROVE  /\ kept \subseteq Stored(m_CacheIndex)
           /\ \/ Cardinality(kept) < 2 * MaxCacheSize
              \/ Cardinality(Stored(m_CacheIndex)) - Cardinality(kept) > MaxCacheSize \div 10
<1> USE ImageCacheAssumption
<1> DEFINE all == Stored(m_CacheIndex)
           half == Above(4) \cap Above(2)
           n == Cardinality(all)
<1>1. /\ IsFiniteSet(all) /\ n \in Nat
      /\ \A some \in SUBSET all : Cardinality(some) \in Nat /\ Cardinality(some) <= n
  <2>1. IsFiniteSet(all)
    BY FS_Subset DEF Stored
  <2> HIDE DEF all
  <2> QED
    BY <2>1, FS_Subset, FS_CardinalityType
<1>2. Above(4) \subseteq all /\ half \subseteq all
  BY DEF Above
<1>3. MaxCacheSize \div 10 \in Nat
  OBVIOUS
<1> HIDE DEF all
<1>4. CASE n < MaxCacheSize
  <2>1. kept = all
    BY <1>4 DEF KeptByCompaction, all
  <2> QED
    BY <1>1, <1>4, <2>1 DEF all
<1>5. CASE n >= MaxCacheSize /\ ~TooFew(Above(4))
  <2>1. kept = Above(4)
    BY <1>1, <1>5 DEF KeptByCompaction, all
  <2> QED
    BY <1>1, <1>2, <1>3, <1>5, <2>1 DEF TooFew, all
<1>6. CASE n >= MaxCacheSize /\ TooFew(Above(4)) /\ ~TooFew(half)
  <2>1. kept = half
    BY <1>1, <1>6 DEF KeptByCompaction, all
  <2> HIDE DEF half
  <2> QED
    BY <1>1, <1>2, <1>3, <1>6, <2>1 DEF TooFew, all
<1>7. CASE n >= MaxCacheSize /\ TooFew(Above(4)) /\ TooFew(half)
  <2>1. kept \in KeptByOrder(half)
    BY <1>1, <1>7 DEF KeptByCompaction, all
  <2> HIDE DEF half
  <2>2. /\ kept \subseteq half
        /\ Cardinality(kept) = (Cardinality(half) + (n \div MaxCacheSize) - 1)
                                  \div (n \div MaxCacheSize)
    BY <2>1 DEF KeptByOrder, all
  <2>3. Cardinality(half) \in Nat /\ Cardinality(half) <= n
    BY <1>1, <1>2
  <2> HIDE DEF n
  <2>4. Cardinality(kept) < 2 * MaxCacheSize
    BY <1>1, <1>7, <2>2, <2>3, OneOfEach
  <2> QED
    BY <1>2, <2>2, <2>4 DEF all
<1> QED
  BY <1>1, <1>4, <1>5, <1>6, <1>7

\* The passes of compactCache, whatever was asked for: the cache is left below
\* twice its limit, or lost more than a tenth of the limit.
THEOREM CacheIsBounded == Spec => CompactionShrinks
<1>1. TypeOK /\ [Next]_vars =>
        [ worker.pc = "compact" /\ worker'.pc = "idle" /\ restarts' = restarts =>
            \/ Cardinality(Stored(m_CacheIndex')) < 2 * MaxCacheSize
            \/ Cardinality(Stored(m_CacheIndex)) - Cardinality(Stored(m_CacheIndex'))
                 > MaxCacheSize \div 10 ]_vars
  <2> SUFFICES ASSUME TypeOK, Next, worker.pc = "compact", worker'.pc = "idle",
                      restarts' = restarts
               PROVE  \/ Cardinality(Stored(m_CacheIndex')) < 2 * MaxCacheSize
                      \/ Cardinality(Stored(m_CacheIndex)) - Cardinality(Stored(m_CacheIndex'))
                           > MaxCacheSize \div 10
    OBVIOUS
  <2>1. CompactCache
    <3>1. ~Restart
      BY DEF Restart, TypeOK
    <3>2. ~(Provide \/ GeneratePreviews)
      BY DEF Provide, GetFromCache, GetFromDB, RememberRead, Answer, GeneratePreviews, workerVars
    <3>3. ~\E k \in Keys : RequestImage(k) \/ ImageChanges(k) \/ ThumbnailIsRemoved(k)
      BY DEF RequestImage, ImageChanges, ThumbnailIsRemoved, workerVars
    <3>4. ~(ProcessItem \/ SaveThumbnail \/ SaveFails \/ UpdateIndex \/ CollectLog
              \/ WriteTable \/ RestoreFailedItems)
      BY DEF ProcessItem, SaveThumbnail, SaveFails, UpdateIndex, CollectLog, WriteTable,
             RestoreFailedItems
    <3> QED
      BY <3>1, <3>2, <3>3, <3>4 DEF Next, Work
  <2>2. PICK kept \in KeptByCompaction :
          m_CacheIndex' = [k \in Keys |-> IF k \in kept THEN m_CacheIndex[k] ELSE None]
    BY <2>1 DEF CompactCache
  <2>3. kept \subseteq Stored(m_CacheIndex)
    BY <2>2, CompactionKeeps
  <2>4. Stored(m_CacheIndex') = kept
    BY <2>2, <2>3 DEF Stored
  <2> QED
    BY <2>2, <2>4, CompactionKeeps
<1> QED
  BY <1>1, TypeCorrect, PTL DEF Spec, CompactionShrinks

=============================================================================
