--------------------------- MODULE EditSavingProofs ---------------------------
(***************************************************************************)
(* For any artworks, timers and limits: the timers run while they should,  *)
(* every queued write is followed by a sync, and what was saved of an edit *)
(* is not replaced by a content with nothing of an edit or of a backup.    *)
(***************************************************************************)
EXTENDS EditSaving, TLAPS

\* A write of an artwork carries an edit or a backup of it: the job holds the
\* artwork and the artwork holds that.
CarriesEdit(i, a) ==
    m_Queue[i].job = "write" /\ m_Queue[i].artwork = a =>
        m_Queue[i].value = None /\ state[a] = "ready" /\ content[a] # 0

Written(a) ==
    /\ Runs(editTimer[a]) => state[a] = "ready" /\ content[a] # 0
    /\ m_SetWAL[a] # 0
    /\ \A i \in DOMAIN m_Queue : CarriesEdit(i, a)

\* Writes of a guarded artwork follow an edit of it or the backup of one.
EditsAreWritten == \A a \in Guarded : Written(a)

IInv == TypeOK /\ TimersRun

-----------------------------------------------------------------------------
(* Timers. *)

\* DelayedActionEntity keeps its types and, started, it runs.
LEMMA TimerTypes ==
    ASSUME NEW interval \in Nat, NEW limit \in Nat \ {0}, NEW timer \in Timer(interval, limit)
    PROVE  /\ JustChanged(timer, interval, limit) \in Timer(interval, limit)
           /\ Fired(timer) \in Timer(interval, limit)
           /\ Elapse(timer) \in Timer(interval, limit)
           /\ NoTimer \in Timer(interval, limit)
BY DEF Timer, JustChanged, Fired, Elapse, NoTimer, Off

\* The timer and its count of restarts stay in step (justChanged, onQtTimer).
LEMMA TimerRuns ==
    ASSUME NEW interval \in Nat, NEW limit \in Nat \ {0}, NEW timer \in Timer(interval, limit),
           timer.restarts > 0 <=> Runs(timer)
    PROVE  /\ Runs(JustChanged(timer, interval, limit))
           /\ JustChanged(timer, interval, limit).restarts > 0
           /\ ~Runs(NoTimer) /\ NoTimer.restarts = 0 /\ Fired(timer) = NoTimer
           /\ Elapse(timer).restarts = timer.restarts
           /\ Runs(Elapse(timer)) <=> Runs(timer)
BY DEF Timer, JustChanged, Fired, Elapse, NoTimer, Off, Runs

\* So does a timer that several setters have started one after the other.
LEMMA SettersTypes ==
    ASSUME NEW timer \in Timer(EditInterval, MaxEditRestarts), NEW started \in Setters(timer)
    PROVE  /\ started \in Timer(EditInterval, MaxEditRestarts)
           /\ (timer.restarts > 0 <=> Runs(timer)) => Runs(started) /\ started.restarts > 0
<1> DEFINE Start(t) == JustChanged(t, EditInterval, MaxEditRestarts)
<1> USE EditSavingAssumption
<1>1. started \in {Start(timer), Start(Start(timer)), Start(Start(Start(timer)))}
  BY DEF Setters
<1>2. ASSUME NEW t \in Timer(EditInterval, MaxEditRestarts)
      PROVE  /\ Start(t) \in Timer(EditInterval, MaxEditRestarts)
             /\ (t.restarts > 0 <=> Runs(t)) => Runs(Start(t)) /\ Start(t).restarts > 0
  BY TimerTypes, TimerRuns
<1> HIDE DEF Start
<1> QED
  BY <1>1, <1>2

-----------------------------------------------------------------------------
(* Types. *)

\* Jobs and pieces of the queue are typed.
LEMMA JobTypes ==
    /\ \A a \in Artworks : \A job \in {"read", "write", "add", "withdrawn"} : Job(job, a) \in Jobs
    /\ Separator \in Jobs
    /\ Empty \in Saved
BY DEF Job, Jobs, Separator, Empty, Saved

\* A sync leaves contents in the logs and in the table.
LEMMA SyncTypes ==
    ASSUME TypeOK, NEW adds \in Saved, NEW sets \in Saved, Sync(adds, sets)
    PROVE  m_AddWal' \in Saved /\ m_SetWAL' \in Saved /\ table' \in Saved /\ faults' \in Nat
<1>1. PICK failedAdds \in SUBSET Artworks, failedSets \in SUBSET Artworks :
        /\ faults' = IF failedAdds \cup failedSets # {} THEN faults + 1 ELSE faults
        /\ table' = [a \in Artworks |->
                       LET added == IF a \in failedAdds THEN table[a]
                                    ELSE AddOrIgnore(table[a], adds[a])
                       IN  IF a \in failedSets THEN added ELSE SetOrKeep(added, sets[a])]
        /\ m_AddWal' = Empty
        /\ m_SetWAL' = [a \in Artworks |-> IF a \in failedSets THEN sets[a] ELSE None]
  BY DEF Sync, Logged
<1>2. table' \in Saved
  BY <1>1 DEF TypeOK, Saved, AddOrIgnore, SetOrKeep
<1>3. m_SetWAL' \in Saved /\ m_AddWal' \in Saved
  BY <1>1, JobTypes DEF Saved
<1>4. faults' \in Nat
  BY <1>1 DEF TypeOK
<1> QED
  BY <1>2, <1>3, <1>4

LEMMA AfterJobTypes ==
    ASSUME TypeOK, NEW adds \in Saved, NEW sets \in Saved, AfterJob(adds, sets)
    PROVE  /\ m_AddWal' \in Saved /\ m_SetWAL' \in Saved /\ table' \in Saved
           /\ faults' \in Nat /\ m_ProcessedItemsCount' \in 0..(SyncStep - 1)
<1>1. m_ProcessedItemsCount' \in 0..(SyncStep - 1)
  BY EditSavingAssumption DEF AfterJob, TypeOK
<1>2. CASE m_ProcessedItemsCount' = 0
  BY <1>1, <1>2, SyncTypes DEF AfterJob
<1>3. CASE m_ProcessedItemsCount' # 0
  BY <1>1, <1>3 DEF AfterJob, TypeOK
<1> QED
  BY <1>2, <1>3

\* What the worker takes is a job, and an artwork of one holds a content.
LEMMA TakeTypes ==
    ASSUME TypeOK, NEW job \in {"read", "write", "add", "withdrawn"}, Take(job)
    PROVE  /\ Head(m_Queue) \in Jobs /\ Head(m_Queue).artwork \in Artworks
           /\ Held(Head(m_Queue)) \in Contents
           /\ m_Queue' \in Seq(Jobs)
<1>1. m_Queue \in Seq(Jobs) /\ m_Queue # <<>>
  BY DEF TypeOK, Take
<1>2. Head(m_Queue) \in Jobs /\ Tail(m_Queue) \in Seq(Jobs)
  BY <1>1
<1>3. Head(m_Queue).artwork \in Artworks /\ Head(m_Queue).value \in Contents \cup {None}
  BY <1>2 DEF Jobs, Separator, Take
<1>4. Held(Head(m_Queue)) \in Contents
  BY <1>3 DEF Held, TypeOK
<1> QED
  BY <1>2, <1>3, <1>4 DEF Take

LEMMA InitTypes == Init => TypeOK
<1> SUFFICES ASSUME Init PROVE TypeOK
  OBVIOUS
<1>1. /\ NoTimer \in Timer(EditInterval, MaxEditRestarts)
      /\ NoTimer \in Timer(SyncInterval, MaxSyncRestarts)
  BY EditSavingAssumption DEF NoTimer, Timer, Off
<1>2. stopping \in BOOLEAN
  BY Zenon DEF Init
<1>3. /\ state \in [Artworks -> {"away", "reading", "ready"}]
      /\ content \in [Artworks -> Contents]
      /\ editTimer \in [Artworks -> Timer(EditInterval, MaxEditRestarts)]
      /\ syncTimer \in Timer(SyncInterval, MaxSyncRestarts)
      /\ posted \in Nat /\ faults \in Nat /\ losses \in Nat
  BY <1>1, EditSavingAssumption DEF Init, Contents, Versions
<1>4. /\ thumbnailed \subseteq Videos /\ exposed \subseteq Artworks
      /\ reimportPending \subseteq Artworks
      /\ m_Queue \in Seq(Jobs)
      /\ m_ProcessedItemsCount \in 0..(SyncStep - 1)
      /\ found \in Saved /\ m_AddWal \in Saved /\ m_SetWAL \in Saved /\ table \in Saved
  BY JobTypes, EditSavingAssumption DEF Init
<1> QED
  BY <1>2, <1>3, <1>4 DEF TypeOK

\* Artworks that are destroyed leave typed jobs behind.
LEMMA DestroyTypes ==
    ASSUME TypeOK, NEW artworks \in SUBSET Artworks, Destroy(artworks),
           losses' \in Nat, stopping' \in BOOLEAN
    PROVE  TypeOK'
<1> USE EditSavingAssumption
<1>1. m_Queue' \in Seq(Jobs)
  <2> DEFINE job(i) == IF m_Queue[i].artwork \in artworks /\ m_Queue[i].value = None
                       THEN [m_Queue[i] EXCEPT !.value = 0] ELSE m_Queue[i]
  <2>1. m_Queue \in Seq(Jobs) /\ 0 \in Contents
    BY DEF TypeOK, Contents, Versions
  <2>2. /\ DOMAIN m_Queue = 1..Len(m_Queue) /\ Len(m_Queue) \in Nat
        /\ \A i \in DOMAIN m_Queue : m_Queue[i] \in Jobs
    BY <2>1
  <2>3. \A i \in DOMAIN m_Queue : job(i) \in Jobs
    BY <2>1, <2>2 DEF Jobs, Separator
  <2>4. m_Queue' = [i \in 1..Len(m_Queue) |-> job(i)]
    BY <2>2 DEF Destroy
  <2> HIDE DEF job
  <2> QED
    BY <2>2, <2>3, <2>4
<1>2. NoTimer \in Timer(EditInterval, MaxEditRestarts)
  BY DEF NoTimer, Timer, Off
<1>3. /\ content' \in [Artworks -> Contents]
      /\ editTimer' \in [Artworks -> Timer(EditInterval, MaxEditRestarts)]
  BY <1>2 DEF Destroy, TypeOK, Contents, Versions
<1>4. /\ state' \in [Artworks -> {"away", "reading", "ready"}]
      /\ thumbnailed' \subseteq Videos /\ exposed' \subseteq Artworks
      /\ reimportPending' \subseteq Artworks
  BY DEF Destroy, TypeOK
<1>5. found' \in Saved
  BY DEF Destroy, TypeOK, Saved
<1> QED
  BY <1>1, <1>3, <1>4, <1>5 DEF Destroy, TypeOK

\* Jobs that are withdrawn are typed, and nothing else of the queue changes.
LEMMA WithdrawnTypes ==
    ASSUME TypeOK, NEW a \in Artworks
    PROVE  /\ Withdrawn(a) \in Seq(Jobs) /\ DOMAIN Withdrawn(a) = DOMAIN m_Queue
           /\ \A i \in DOMAIN m_Queue :
                \/ Withdrawn(a)[i] = m_Queue[i]
                \/ m_Queue[i].job = "read" /\ Withdrawn(a)[i].job = "withdrawn"
<1> DEFINE job(i) == IF m_Queue[i].job = "read" /\ m_Queue[i].artwork = a
                     THEN [m_Queue[i] EXCEPT !.job = "withdrawn"] ELSE m_Queue[i]
<1>1. m_Queue \in Seq(Jobs)
  BY DEF TypeOK
<1>2. /\ DOMAIN m_Queue = 1..Len(m_Queue) /\ Len(m_Queue) \in Nat
      /\ \A i \in DOMAIN m_Queue : m_Queue[i] \in Jobs
  BY <1>1
<1>3. ASSUME NEW i \in DOMAIN m_Queue
      PROVE  /\ job(i) \in Jobs
             /\ \/ job(i) = m_Queue[i]
                \/ m_Queue[i].job = "read" /\ job(i).job = "withdrawn"
  <2>1. CASE m_Queue[i].job = "read" /\ m_Queue[i].artwork = a
    <3>1. m_Queue[i] \in [job : {"read", "write", "add", "withdrawn"}, artwork : Artworks,
                          value : Contents \cup {None}]
      BY <1>2, <2>1 DEF Jobs, Separator
    <3> QED
      BY <2>1, <3>1 DEF Jobs
  <2>2. CASE ~(m_Queue[i].job = "read" /\ m_Queue[i].artwork = a)
    BY <1>2, <2>2
  <2> QED
    BY <2>1, <2>2
<1>4. Withdrawn(a) = [i \in 1..Len(m_Queue) |-> job(i)]
  BY <1>2 DEF Withdrawn
<1> HIDE DEF job
<1> QED
  BY <1>2, <1>3, <1>4

\* Steps of the main thread, one by one.
LEMMA MainTypes ==
    ASSUME TypeOK, NEW a \in Artworks,
           \/ AddFile(a) \/ Edit(a) \/ EditingPaused(a) \/ ImportBackup(a) \/ Reimport(a)
           \/ \E cancelled, ignored \in BOOLEAN : EndImport(a, cancelled, ignored)
           \/ \E overwrite \in BOOLEAN : Export(a, overwrite)
    PROVE  TypeOK'
<1> USE EditSavingAssumption
<1>0. editTimer[a] \in Timer(EditInterval, MaxEditRestarts)
  BY DEF TypeOK
<1>1. CASE AddFile(a)
  <2>1. m_Queue' \in Seq(Jobs)
    <3>1. <<Job("read", a), Separator>> \in Seq(Jobs)
      BY JobTypes
    <3> QED
      BY <1>1, <3>1 DEF AddFile, TypeOK
  <2> QED
    BY <1>1, <2>1 DEF AddFile, TypeOK, cacheVars, bounds
<1>2. CASE Edit(a)
  <2>1. JustChanged(editTimer[a], EditInterval, MaxEditRestarts)
          \in Timer(EditInterval, MaxEditRestarts)
    BY <1>0, TimerTypes
  <2>2. content' \in [Artworks -> Contents]
    <3>1. content[a] \in Contents => Later(content[a]) \in Contents
      BY DEF Later, Contents, Versions
    <3> QED
      BY <1>2, <3>1 DEF Edit, TypeOK
  <2> QED
    BY <1>2, <2>1, <2>2 DEF Edit, TypeOK, cacheVars, bounds
<1>4. CASE EditingPaused(a)
  <2>1. /\ Fired(editTimer[a]) \in Timer(EditInterval, MaxEditRestarts)
        /\ JustChanged(syncTimer, SyncInterval, MaxSyncRestarts)
             \in Timer(SyncInterval, MaxSyncRestarts)
    BY <1>0, TimerTypes DEF TypeOK
  <2>2. m_Queue' \in Seq(Jobs)
    BY <1>4, JobTypes DEF EditingPaused, TypeOK
  <2> QED
    BY <1>4, <2>1, <2>2 DEF EditingPaused, TypeOK, artworkVars, cacheVars, bounds
<1>5. CASE \E cancelled, ignored \in BOOLEAN : EndImport(a, cancelled, ignored)
  <2>1. PICK cancelled \in BOOLEAN, ignored \in BOOLEAN : EndImport(a, cancelled, ignored)
    BY <1>5
  <2>2. m_Queue' \in Seq(Jobs)
    <3>1. <<Job("add", a), Separator>> \in Seq(Jobs)
      BY JobTypes
    <3>2. Withdrawn(a) \in Seq(Jobs) /\ m_Queue \in Seq(Jobs)
      BY WithdrawnTypes DEF TypeOK
    <3> QED
      BY <2>1, <3>1, <3>2 DEF EndImport
  <2>3. content' \in [Artworks -> Contents]
    <3>1. content[a] \in Contents /\ 0 \in Contents /\ Merged \in Contents
      BY DEF TypeOK, Contents, Versions
    <3>2. \E rest \in Contents : content' = [content EXCEPT ![a] = rest]
      BY <2>1, <3>1 DEF EndImport
    <3> QED
      BY <3>2 DEF TypeOK
  <2>4. found' \in Saved
    BY <2>1 DEF EndImport, TypeOK, Saved
  <2> QED
    BY <2>1, <2>2, <2>3, <2>4 DEF EndImport, TypeOK, bounds
<1>6. CASE \E overwrite \in BOOLEAN : Export(a, overwrite)
  <2>1. PICK overwrite \in BOOLEAN : Export(a, overwrite)
    BY <1>6
  <2>2. <<Job("write", a), Separator>> \in Seq(Jobs)
    BY JobTypes
  <2>3. m_Queue' \in Seq(Jobs)
    BY <2>1, <2>2 DEF Export, TypeOK
  <2>4. exposed' \subseteq Artworks
    BY <2>1 DEF Export, TypeOK
  <2> QED
    BY <2>1, <2>3, <2>4 DEF Export, TypeOK, artworkVars, cacheVars
<1>7. CASE ImportBackup(a)
  <2>1. /\ content[a] \in Contents /\ Merged \in Contents
        /\ found[a] # None => found[a] \in Contents
    BY DEF TypeOK, Saved, Contents
  <2>2. content' \in [Artworks -> Contents]
    BY <1>7, <2>1 DEF ImportBackup, TypeOK
  <2>3. editTimer' \in [Artworks -> Timer(EditInterval, MaxEditRestarts)]
    <3>1. \A timer \in Setters(editTimer[a]) : timer \in Timer(EditInterval, MaxEditRestarts)
      BY <1>0, SettersTypes
    <3> QED
      BY <1>7, <3>1 DEF ImportBackup, TypeOK
  <2>4. found' \in Saved
    BY <1>7 DEF ImportBackup, TypeOK, Saved
  <2> QED
    BY <1>7, <2>2, <2>3, <2>4 DEF ImportBackup, TypeOK, bounds
<1>8. CASE Reimport(a)
  <2>1. <<Job("add", a), Separator>> \in Seq(Jobs)
    BY JobTypes
  <2>2. m_Queue' \in Seq(Jobs)
    BY <1>8, <2>1 DEF Reimport, TypeOK
  <2>3. /\ content' \in [Artworks -> Contents]
        /\ state' \in [Artworks -> {"away", "reading", "ready"}]
        /\ reimportPending' \subseteq Artworks /\ exposed' \subseteq Artworks
    BY <1>8 DEF Reimport, TypeOK, Contents, Versions
  <2> QED
    BY <1>8, <2>2, <2>3 DEF Reimport, TypeOK, cacheVars
<1> QED
  BY <1>1, <1>2, <1>4, <1>5, <1>6, <1>7, <1>8

\* Steps of timers, signals, the video thread and the end of the program.
LEMMA EventTypes ==
    ASSUME TypeOK,
           \/ Tick \/ CacheSyncRequest \/ SyncTimerFires \/ DeleteAllItems \/ Quit
           \/ \E a \in Artworks : ThumbnailIsWritten(a) \/ Remove(a)
    PROVE  TypeOK'
<1> USE EditSavingAssumption
<1>0. syncTimer \in Timer(SyncInterval, MaxSyncRestarts)
  BY DEF TypeOK
<1>1. CASE Tick
  <2>1. Elapse(syncTimer) \in Timer(SyncInterval, MaxSyncRestarts)
    BY <1>0, TimerTypes
  <2>2. \A a \in Artworks : Elapse(editTimer[a]) \in Timer(EditInterval, MaxEditRestarts)
    BY TimerTypes DEF TypeOK
  <2> QED
    BY <1>1, <2>1, <2>2 DEF Tick, TypeOK, artworkVars, cacheVars, bounds
<1>2. CASE CacheSyncRequest
  <2>1. JustChanged(syncTimer, SyncInterval, MaxSyncRestarts)
          \in Timer(SyncInterval, MaxSyncRestarts)
    BY <1>0, TimerTypes
  <2> QED
    BY <1>2, <2>1 DEF CacheSyncRequest, TypeOK, artworkVars, cacheVars, bounds
<1>3. CASE SyncTimerFires
  <2>1. Fired(syncTimer) \in Timer(SyncInterval, MaxSyncRestarts)
    BY <1>0, TimerTypes
  <2>2. m_Queue' \in Seq(Jobs)
    BY <1>3, JobTypes DEF SyncTimerFires, TypeOK
  <2> QED
    BY <1>3, <2>1, <2>2 DEF SyncTimerFires, TypeOK, artworkVars, cacheVars, bounds
<1>4. CASE Quit
  <2>1. /\ NoTimer \in Timer(EditInterval, MaxEditRestarts)
        /\ NoTimer \in Timer(SyncInterval, MaxSyncRestarts)
    BY DEF NoTimer, Timer, Off
  <2>2. stopping' \in BOOLEAN
    BY <1>4, Zenon DEF Quit
  <2>3. /\ state' \in [Artworks -> {"away", "reading", "ready"}]
        /\ content' \in [Artworks -> Contents]
        /\ editTimer' \in [Artworks -> Timer(EditInterval, MaxEditRestarts)]
        /\ syncTimer' \in Timer(SyncInterval, MaxSyncRestarts)
        /\ posted' \in Nat /\ faults' \in Nat /\ losses' \in Nat
    BY <1>4, <2>1 DEF Quit, Contents, Versions, TypeOK
  <2>4. /\ thumbnailed' \subseteq Videos /\ exposed' \subseteq Artworks
        /\ reimportPending' \subseteq Artworks
        /\ m_Queue' \in Seq(Jobs)
        /\ m_ProcessedItemsCount' \in 0..(SyncStep - 1)
        /\ found' \in Saved /\ m_AddWal' \in Saved /\ m_SetWAL' \in Saved
        /\ table' \in Saved
    BY <1>4, JobTypes DEF Quit, TypeOK
  <2> QED
    BY <2>2, <2>3, <2>4 DEF TypeOK
<1>5. CASE \E a \in Artworks : ThumbnailIsWritten(a)
  <2>1. PICK a \in Artworks : ThumbnailIsWritten(a)
    BY <1>5
  <2>2. m_Queue' \in Seq(Jobs)
    BY <2>1, JobTypes DEF ThumbnailIsWritten, TypeOK
  <2> QED
    BY <2>1, <2>2 DEF ThumbnailIsWritten, TypeOK, cacheVars, bounds
<1>6. CASE DeleteAllItems
  <2>1. /\ Destroy(Artworks) /\ stopping' \in BOOLEAN
        /\ losses' \in Nat
    BY <1>6 DEF DeleteAllItems, TypeOK
  <2> QED
    BY <2>1, DestroyTypes
<1>7. CASE \E a \in Artworks : Remove(a)
  <2>1. PICK a \in Artworks : Remove(a)
    BY <1>7
  <2>2. /\ Destroy({a}) /\ {a} \in SUBSET Artworks /\ stopping' \in BOOLEAN
        /\ losses' \in Nat
    BY <2>1 DEF Remove, TypeOK
  <2> QED
    BY <2>2, DestroyTypes
<1> QED
  BY <1>1, <1>2, <1>3, <1>4, <1>5, <1>6, <1>7

\* Steps of MetadataIOWorker.
LEMMA WorkTypes ==
    ASSUME TypeOK, Work
    PROVE  TypeOK'
<1> DEFINE a == Head(m_Queue).artwork
           held == Held(Head(m_Queue))
<1>0. m_AddWal \in Saved /\ m_SetWAL \in Saved
  BY DEF TypeOK
<1>1. CASE ProcessRead
  <2>1. a \in Artworks /\ m_Queue' \in Seq(Jobs)
    BY <1>1, TakeTypes DEF ProcessRead
  <2>2. found' \in Saved
    BY <1>1, <2>1 DEF ProcessRead, TypeOK, Saved
  <2>3. AfterJob(m_AddWal, m_SetWAL)
    BY <1>1 DEF ProcessRead
  <2>4. /\ m_AddWal' \in Saved /\ m_SetWAL' \in Saved /\ table' \in Saved
        /\ faults' \in Nat /\ m_ProcessedItemsCount' \in 0..(SyncStep - 1)
    BY <1>0, <2>3, AfterJobTypes
  <2> QED
    BY <1>1, <2>1, <2>2, <2>4 DEF ProcessRead, Take, TypeOK, artworkVars
<1>2. CASE ProcessWrite
  <2>1. a \in Artworks /\ held \in Contents /\ m_Queue' \in Seq(Jobs)
    BY <1>2, TakeTypes DEF ProcessWrite
  <2>2. [m_SetWAL EXCEPT ![a] = held] \in Saved
    BY <1>0, <2>1 DEF Saved
  <2>3. AfterJob(m_AddWal, [m_SetWAL EXCEPT ![a] = held])
    BY <1>2 DEF ProcessWrite
  <2>4. /\ m_AddWal' \in Saved /\ m_SetWAL' \in Saved /\ table' \in Saved
        /\ faults' \in Nat /\ m_ProcessedItemsCount' \in 0..(SyncStep - 1)
    BY <1>0, <2>2, <2>3, AfterJobTypes
  <2> QED
    BY <1>2, <2>1, <2>4 DEF ProcessWrite, Take, TypeOK, artworkVars
<1>3. CASE ProcessAdd
  <2>1. a \in Artworks /\ held \in Contents /\ m_Queue' \in Seq(Jobs)
    BY <1>3, TakeTypes DEF ProcessAdd
  <2>2. [m_AddWal EXCEPT ![a] = held] \in Saved
    BY <1>0, <2>1 DEF Saved
  <2>3. AfterJob([m_AddWal EXCEPT ![a] = held], m_SetWAL)
    BY <1>3 DEF ProcessAdd
  <2>4. /\ m_AddWal' \in Saved /\ m_SetWAL' \in Saved /\ table' \in Saved
        /\ faults' \in Nat /\ m_ProcessedItemsCount' \in 0..(SyncStep - 1)
    BY <1>0, <2>2, <2>3, AfterJobTypes
  <2> QED
    BY <1>3, <2>1, <2>4 DEF ProcessAdd, Take, TypeOK, artworkVars
<1>4. CASE ProcessSeparator
  <2>1. Sync(m_AddWal, m_SetWAL)
    BY <1>4 DEF ProcessSeparator
  <2>2. m_AddWal' \in Saved /\ m_SetWAL' \in Saved /\ table' \in Saved /\ faults' \in Nat
    BY <1>0, <2>1, SyncTypes
  <2>3. m_Queue' \in Seq(Jobs)
    BY <1>4 DEF ProcessSeparator, Take, TypeOK
  <2> QED
    BY <1>4, <2>2, <2>3 DEF ProcessSeparator, Take, TypeOK, artworkVars
<1>5. CASE PassOver
  BY <1>5, TakeTypes DEF PassOver, Take, TypeOK, artworkVars, cacheVars
<1> QED
  BY <1>1, <1>2, <1>3, <1>4, <1>5 DEF Work

LEMMA NextTypes ==
    ASSUME TypeOK, [Next]_vars
    PROVE  TypeOK'
<1>1. CASE Next
  BY <1>1, MainTypes, EventTypes, WorkTypes DEF Next, Events
<1>2. CASE UNCHANGED vars
  BY <1>2 DEF vars, TypeOK, artworkVars, cacheVars, bounds
<1> QED
  BY <1>1, <1>2

\* The timers, the queue, the logs and the table hold what their types say.
THEOREM TypeCorrect == Spec => []TypeOK
BY InitTypes, NextTypes, PTL DEF Spec

-----------------------------------------------------------------------------
(* The timers run while their restarts are counted. *)

LEMMA InitTimers == Init => TimersRun
BY DEF Init, TimersRun, NoTimer, Runs, Off

LEMMA NextTimers ==
    ASSUME IInv, [Next]_vars
    PROVE  TimersRun'
<1> USE EditSavingAssumption
<1>1. /\ syncTimer \in Timer(SyncInterval, MaxSyncRestarts)
      /\ \A a \in Artworks : editTimer[a] \in Timer(EditInterval, MaxEditRestarts)
      /\ DOMAIN editTimer = Artworks
  BY DEF IInv, TypeOK
<1>2. syncTimer' \in {syncTimer, Elapse(syncTimer), NoTimer,
                     JustChanged(syncTimer, SyncInterval, MaxSyncRestarts)}
  BY DEF Next, Events, Work, Tick, AddFile, EndImport, ImportBackup, Reimport, Export, Edit,
         EditingPaused, CacheSyncRequest, SyncTimerFires, Remove, DeleteAllItems, Destroy,
         Quit, ThumbnailIsWritten, ProcessRead, ProcessWrite, ProcessAdd, ProcessSeparator,
         PassOver, Take, Fired, vars
<1>3. \A a \in Artworks :
        editTimer'[a] \in {editTimer[a], Elapse(editTimer[a]), NoTimer} \cup Setters(editTimer[a])
  <2>1. CASE DeleteAllItems \/ (\E a \in Artworks : Remove(a))
    BY <2>1 DEF DeleteAllItems, Remove, Destroy
  <2>2. CASE Tick \/ Quit
    BY <2>2 DEF Tick, Quit
  <2>3. CASE \E a \in Artworks : Edit(a) \/ EditingPaused(a)
    BY <2>3, <1>1 DEF Edit, EditingPaused, Fired, Setters
  <2>5. CASE \E a \in Artworks : ImportBackup(a)
    <3>1. PICK b \in Artworks : ImportBackup(b)
      BY <2>5
    <3>2. \/ editTimer' = editTimer
          \/ \E timer \in Setters(editTimer[b]) : editTimer' = [editTimer EXCEPT ![b] = timer]
      BY <3>1 DEF ImportBackup
    <3> QED
      BY <1>1, <3>2
  <2>4. CASE editTimer' = editTimer
    BY <2>4
  <2> QED
    BY <2>1, <2>2, <2>3, <2>4, <2>5
    DEF Next, Events, Work, AddFile, EndImport, Reimport, Export, CacheSyncRequest,
        SyncTimerFires, ThumbnailIsWritten, ProcessRead, ProcessWrite, ProcessAdd,
        ProcessSeparator, PassOver, Take, vars
<1>4. syncTimer'.restarts > 0 <=> Runs(syncTimer')
  BY <1>1, <1>2, TimerRuns DEF IInv, TimersRun
<1>5. ASSUME NEW a \in Artworks
      PROVE  editTimer'[a].restarts > 0 <=> Runs(editTimer'[a])
  <2>1. editTimer[a].restarts > 0 <=> Runs(editTimer[a])
    BY DEF IInv, TimersRun
  <2>2. CASE editTimer'[a] \in Setters(editTimer[a])
    BY <1>1, <2>1, <2>2, SettersTypes
  <2>3. CASE editTimer'[a] \notin Setters(editTimer[a])
    BY <1>1, <1>3, <2>1, <2>3, TimerRuns
  <2> QED
    BY <2>2, <2>3
<1> QED
  BY <1>4, <1>5 DEF TimersRun, Runs

\* "Q_ASSERT(m_LastTimerId != -1)" (delayedactionentity.h) never fails: whoever
\* has used up the restarts of a timer finds it running.
THEOREM TimersAreKept == Spec => []TimersRun
<1>1. Init => IInv
  BY InitTypes, InitTimers DEF IInv
<1>2. IInv /\ [Next]_vars => IInv'
  BY NextTypes, NextTimers DEF IInv
<1>3. IInv => TimersRun
  BY DEF IInv
<1> QED
  BY <1>1, <1>2, <1>3, PTL DEF Spec

-----------------------------------------------------------------------------
(* No write is stranded. *)

\* What is appended to a sequence comes after what was there.
LEMMA JobsAdded ==
    ASSUME NEW kept \in Seq(Jobs), NEW more \in Seq(Jobs)
    PROVE  \A i \in DOMAIN (kept \o more) :
              \/ i \in DOMAIN kept /\ (kept \o more)[i] = kept[i]
              \/ \E k \in DOMAIN more : (kept \o more)[i] = more[k]
<1>1. /\ Len(kept) \in Nat /\ Len(more) \in Nat /\ Len(kept \o more) = Len(kept) + Len(more)
      /\ DOMAIN kept = 1..Len(kept) /\ DOMAIN more = 1..Len(more)
      /\ DOMAIN (kept \o more) = 1..Len(kept \o more)
      /\ \A i \in 1..Len(kept \o more) :
           (kept \o more)[i] = IF i <= Len(kept) THEN kept[i] ELSE more[i - Len(kept)]
  OBVIOUS
<1>2. ASSUME NEW i \in DOMAIN (kept \o more), i \notin DOMAIN kept
      PROVE  \E k \in DOMAIN more : (kept \o more)[i] = more[k]
  <2>1. i - Len(kept) \in DOMAIN more /\ (kept \o more)[i] = more[i - Len(kept)]
    BY <1>1, <1>2
  <2> QED
    BY <2>1
<1> QED
  BY <1>1, <1>2

\* Adding to the end of the queue leaves every separator where it was.
LEMMA QueueGrows ==
    ASSUME NEW more \in Seq(Jobs), m_Queue \in Seq(Jobs),
           m_Queue' = m_Queue \o more
    PROVE  /\ \A i \in Nat : SeparatorAfter(i) => SeparatorAfter(i)'
           /\ \A i \in DOMAIN m_Queue' :
                \/ i \in DOMAIN m_Queue /\ m_Queue'[i] = m_Queue[i]
                \/ \E k \in DOMAIN more : m_Queue'[i] = more[k]
<1>1. \A i \in DOMAIN m_Queue : i \in DOMAIN m_Queue' /\ m_Queue'[i] = m_Queue[i]
  OBVIOUS
<1> QED
  BY <1>1, JobsAdded DEF SeparatorAfter

\* Taking a job moves the separators behind it up by one.
LEMMA QueueShrinks ==
    ASSUME TypeOK, NEW job \in {"read", "write", "add", "withdrawn", "separator"}, Take(job)
    PROVE  /\ \A i \in DOMAIN m_Queue' : i + 1 \in DOMAIN m_Queue /\ m_Queue'[i] = m_Queue[i + 1]
           /\ \A i \in Nat : SeparatorAfter(i + 1) => SeparatorAfter(i)'
           /\ job # "separator" => (SeparatorAfter(0) => SeparatorAfter(0)')
           /\ 1 \in DOMAIN m_Queue /\ m_Queue[1] = Head(m_Queue) /\ m_Queue[1].job = job
<1>1. m_Queue \in Seq(Jobs) /\ m_Queue # <<>> /\ m_Queue' = Tail(m_Queue)
  BY DEF TypeOK, Take
<1>2. /\ \A i \in DOMAIN m_Queue' : i + 1 \in DOMAIN m_Queue /\ m_Queue'[i] = m_Queue[i + 1]
      /\ \A j \in DOMAIN m_Queue : j > 1 => j - 1 \in DOMAIN m_Queue' /\ m_Queue'[j - 1] = m_Queue[j]
      /\ 1 \in DOMAIN m_Queue /\ m_Queue[1] = Head(m_Queue)
      /\ DOMAIN m_Queue \subseteq Nat
  BY <1>1
<1>3. m_Queue[1].job = job
  BY <1>2 DEF Take
<1>4. ASSUME NEW i \in Nat, SeparatorAfter(i + 1)
      PROVE  SeparatorAfter(i)'
  BY <1>2, <1>4 DEF SeparatorAfter
<1>5. ASSUME job # "separator", SeparatorAfter(0)
      PROVE  SeparatorAfter(0)'
  <2>1. PICK j \in DOMAIN m_Queue : j > 0 /\ m_Queue[j] = Separator
    BY <1>5 DEF SeparatorAfter
  <2>2. j # 1
    BY <1>3, <1>5, <2>1 DEF Separator
  <2> QED
    BY <1>2, <2>1, <2>2 DEF SeparatorAfter
<1> QED
  BY <1>2, <1>3, <1>4, <1>5

\* What is behind a sync that nothing will ask for again (NothingIsStranded).
Followed ==
    /\ \A i \in DOMAIN m_Queue : m_Queue[i].job = "write" => SeparatorAfter(i)
    /\ \A a \in Artworks : m_SetWAL[a] # None => SeparatorAfter(0) \/ faults > 0

\* A change goes on waiting in its log only if no sync came or the sync failed.
LEMMA SyncEmpties ==
    ASSUME TypeOK, NEW adds, NEW sets, Sync(adds, sets)
    PROVE  \A a \in Artworks : m_SetWAL'[a] # None => faults' > 0
<1>1. PICK failedAdds \in SUBSET Artworks, failedSets \in SUBSET Artworks :
        /\ faults' = IF failedAdds \cup failedSets # {} THEN faults + 1 ELSE faults
        /\ m_SetWAL' = [a \in Artworks |-> IF a \in failedSets THEN sets[a] ELSE None]
  BY DEF Sync, Logged
<1> QED
  BY <1>1 DEF TypeOK

LEMMA AfterJobWaits ==
    ASSUME TypeOK, NEW adds, NEW sets, AfterJob(adds, sets)
    PROVE  /\ faults' \in Nat /\ faults' >= faults
           /\ \A a \in Artworks : m_SetWAL'[a] # None => faults' > 0 \/ m_SetWAL' = sets
<1>1. CASE Sync(adds, sets)
  BY <1>1, SyncEmpties DEF Sync, TypeOK
<1>2. CASE ~Sync(adds, sets)
  BY <1>2 DEF AfterJob, TypeOK
<1> QED
  BY <1>1, <1>2

\* A job of the worker: what followed the queue follows the rest of it.
LEMMA WorkFollowed ==
    ASSUME TypeOK, Followed, Work
    PROVE  Followed'
<1>1. ASSUME NEW job \in {"read", "write", "add", "withdrawn", "separator"}, Take(job),
             NEW i \in DOMAIN m_Queue', m_Queue'[i].job = "write"
      PROVE  SeparatorAfter(i)'
  <2>1. /\ i + 1 \in DOMAIN m_Queue /\ m_Queue[i + 1].job = "write"
        /\ i \in Nat
    <3>1. m_Queue' \in Seq(Jobs)
      BY <1>1 DEF Take, TypeOK
    <3> QED
      BY <1>1, <3>1, QueueShrinks
  <2> QED
    BY <1>1, <2>1, QueueShrinks DEF Followed
<1>2. CASE ProcessRead
  <2>1. Take("read") /\ AfterJob(m_AddWal, m_SetWAL)
    BY <1>2 DEF ProcessRead
  <2>2. SeparatorAfter(0) => SeparatorAfter(0)'
    BY <2>1, QueueShrinks
  <2>3. /\ faults \in Nat /\ faults' \in Nat /\ faults' >= faults
        /\ \A a \in Artworks : m_SetWAL'[a] # None => faults' > 0 \/ m_SetWAL' = m_SetWAL
    BY <2>1, AfterJobWaits DEF TypeOK
  <2>4. \A a \in Artworks : m_SetWAL'[a] # None => SeparatorAfter(0)' \/ faults' > 0
    BY <2>2, <2>3 DEF Followed
  <2> QED
    BY <1>1, <2>1, <2>4 DEF Followed
<1>3. CASE ProcessAdd
  <2>1. PICK adds : Take("add") /\ AfterJob(adds, m_SetWAL)
    BY <1>3 DEF ProcessAdd
  <2>2. SeparatorAfter(0) => SeparatorAfter(0)'
    BY <2>1, QueueShrinks
  <2>3. /\ faults \in Nat /\ faults' \in Nat /\ faults' >= faults
        /\ \A a \in Artworks : m_SetWAL'[a] # None => faults' > 0 \/ m_SetWAL' = m_SetWAL
    BY <2>1, AfterJobWaits DEF TypeOK
  <2>4. \A a \in Artworks : m_SetWAL'[a] # None => SeparatorAfter(0)' \/ faults' > 0
    BY <2>2, <2>3 DEF Followed
  <2> QED
    BY <1>1, <2>1, <2>4 DEF Followed
<1>4. CASE ProcessWrite
  <2>1. PICK sets : Take("write") /\ AfterJob(m_AddWal, sets)
    BY <1>4 DEF ProcessWrite
  <2>2. SeparatorAfter(1) /\ SeparatorAfter(0)'
    BY <2>1, QueueShrinks DEF Followed
  <2> QED
    BY <1>1, <2>1, <2>2 DEF Followed
<1>5. CASE ProcessSeparator
  <2>1. Take("separator") /\ Sync(m_AddWal, m_SetWAL)
    BY <1>5 DEF ProcessSeparator
  <2> QED
    BY <1>1, <2>1, SyncEmpties DEF Followed
<1>6. CASE PassOver
  <2>1. Take("withdrawn") /\ m_SetWAL' = m_SetWAL /\ faults' = faults
    BY <1>6 DEF PassOver, cacheVars
  <2>2. SeparatorAfter(0) => SeparatorAfter(0)'
    BY <2>1, QueueShrinks
  <2> QED
    BY <1>1, <2>1, <2>2 DEF Followed
<1> QED
  BY <1>2, <1>3, <1>4, <1>5, <1>6 DEF Work

\* A step that neither starts the service's timer nor ends it.
LEMMA OtherFollowed ==
    ASSUME TypeOK, Followed, NEW a \in Artworks,
           \/ Tick \/ AddFile(a) \/ Edit(a) \/ ImportBackup(a) \/ Reimport(a) \/ Quit
           \/ \E artworks \in SUBSET Artworks : Destroy(artworks)
           \/ \E cancelled, ignored \in BOOLEAN : EndImport(a, cancelled, ignored)
           \/ \E overwrite \in BOOLEAN : Export(a, overwrite)
    PROVE  Followed'
<1>0. m_Queue \in Seq(Jobs) /\ DOMAIN m_Queue \subseteq Nat
  BY DEF TypeOK
<1>1. CASE Tick \/ Edit(a) \/ ImportBackup(a)
  BY <1>1 DEF Tick, Edit, ImportBackup, Followed, SeparatorAfter, cacheVars, bounds
<1>2. CASE Quit
  BY <1>2 DEF Quit, Followed, Empty
<1>3. CASE \E artworks \in SUBSET Artworks : Destroy(artworks)
  <2>0. PICK artworks \in SUBSET Artworks : Destroy(artworks)
    BY <1>3
  <2>1. DOMAIN m_Queue' = DOMAIN m_Queue /\ m_SetWAL' = m_SetWAL /\ faults' = faults
    BY <2>0 DEF Destroy
  <2>2. ASSUME NEW i \in DOMAIN m_Queue
        PROVE  /\ m_Queue'[i].job = m_Queue[i].job
               /\ m_Queue[i] = Separator => m_Queue'[i] = Separator
    <3>1. Separator.artwork \notin artworks
      BY EditSavingAssumption DEF Separator
    <3> QED
      BY <1>0, <2>0, <3>1 DEF Destroy, Jobs, Separator
  <2>3. ASSUME NEW i, SeparatorAfter(i) PROVE SeparatorAfter(i)'
    BY <2>1, <2>2, <2>3 DEF SeparatorAfter
  <2> QED
    BY <2>1, <2>2, <2>3 DEF Followed
<1>4. CASE \/ AddFile(a) \/ Reimport(a)
           \/ \E cancelled, ignored \in BOOLEAN : EndImport(a, cancelled, ignored)
  <2> DEFINE Added == {<<>>, <<Job("read", a), Separator>>, <<Job("add", a), Separator>>}
  <2>1. /\ m_SetWAL' = m_SetWAL /\ faults' = faults
        /\ \E kept \in {m_Queue, Withdrawn(a)}, more \in Added : m_Queue' = kept \o more
    <3>1. m_Queue = m_Queue \o <<>> /\ Withdrawn(a) = Withdrawn(a) \o <<>>
      BY <1>0, WithdrawnTypes
    <3>2. CASE AddFile(a) \/ Reimport(a)
      BY <3>2 DEF AddFile, Reimport, cacheVars, bounds
    <3>3. CASE \E cancelled, ignored \in BOOLEAN : EndImport(a, cancelled, ignored)
      <4>1. PICK cancelled \in BOOLEAN, ignored \in BOOLEAN : EndImport(a, cancelled, ignored)
        BY <3>3
      <4>2. PICK kept \in {m_Queue, Withdrawn(a)} :
              m_Queue' = IF cancelled THEN kept ELSE kept \o <<Job("add", a), Separator>>
        BY <4>1 DEF EndImport
      <4>3. m_SetWAL' = m_SetWAL /\ faults' = faults
        BY <4>1 DEF EndImport, bounds
      <4>4. kept = kept \o <<>>
        BY <3>1, <4>2
      <4> QED
        BY <4>2, <4>3, <4>4
    <3> QED
      BY <1>4, <3>2, <3>3
  <2>2. PICK kept \in {m_Queue, Withdrawn(a)}, more \in Added : m_Queue' = kept \o more
    BY <2>1
  <2>3. more \in Seq(Jobs) /\ \A k \in DOMAIN more : more[k].job # "write"
    <3>1. /\ Job("read", a) \in Jobs /\ Job("add", a) \in Jobs /\ Separator \in Jobs
          /\ Job("read", a).job # "write" /\ Job("add", a).job # "write"
          /\ Separator.job # "write"
      BY JobTypes DEF Job, Separator
    <3>2. CASE more = <<>>
      BY <3>2
    <3>3. CASE \E job \in {Job("read", a), Job("add", a)} : more = <<job, Separator>>
      BY <3>1, <3>3
    <3> QED
      BY <2>2, <3>2, <3>3
  <2>4. /\ kept \in Seq(Jobs) /\ DOMAIN kept = DOMAIN m_Queue
        /\ \A i \in DOMAIN m_Queue : \/ kept[i] = m_Queue[i]
                                     \/ m_Queue[i].job = "read" /\ kept[i].job = "withdrawn"
    BY <1>0, <2>2, WithdrawnTypes
  <2>5. \A i \in DOMAIN kept : i \in DOMAIN m_Queue' /\ m_Queue'[i] = kept[i]
    BY <2>2, <2>3, <2>4
  <2>6. \A i \in DOMAIN m_Queue' : \/ i \in DOMAIN kept /\ m_Queue'[i] = kept[i]
                                   \/ m_Queue'[i].job # "write"
    BY <2>2, <2>3, <2>4, JobsAdded
  <2>7. \A i \in Nat : SeparatorAfter(i) => SeparatorAfter(i)'
    BY <2>4, <2>5 DEF SeparatorAfter, Separator
  <2>8. ASSUME NEW i \in DOMAIN m_Queue', m_Queue'[i].job = "write"
        PROVE  SeparatorAfter(i)'
    BY <1>0, <2>4, <2>6, <2>7, <2>8 DEF Followed
  <2> QED
    BY <2>1, <2>7, <2>8 DEF Followed
<1>5. CASE \E overwrite \in BOOLEAN : Export(a, overwrite)
  <2> DEFINE more == <<Job("write", a), Separator>>
  <2>1. m_SetWAL' = m_SetWAL /\ faults' = faults /\ m_Queue' = m_Queue \o more
    BY <1>5 DEF Export, cacheVars
  <2>2. more \in Seq(Jobs)
    BY JobTypes
  <2>3. \A i \in Nat : SeparatorAfter(i) => SeparatorAfter(i)'
    BY <1>0, <2>1, <2>2, QueueGrows
  <2>4. /\ Len(m_Queue) \in Nat /\ Len(m_Queue) + 2 \in DOMAIN m_Queue'
        /\ m_Queue'[Len(m_Queue) + 2] = Separator
        /\ \A i \in DOMAIN m_Queue' : /\ i \in Nat
                                      /\ \/ i \in DOMAIN m_Queue /\ m_Queue'[i] = m_Queue[i]
                                         \/ i = Len(m_Queue) + 1
                                         \/ m_Queue'[i] = Separator
    <3> HIDE DEF Separator, Job
    <3> QED
      BY <1>0, <2>1, JobTypes
  <2>5. Separator.job # "write"
    BY DEF Separator
  <2>6. ASSUME NEW i \in DOMAIN m_Queue', m_Queue'[i].job = "write"
        PROVE  SeparatorAfter(i)'
    <3>1. CASE i \in DOMAIN m_Queue /\ m_Queue'[i] = m_Queue[i]
      BY <2>3, <2>4, <2>6, <3>1 DEF Followed
    <3>2. CASE i = Len(m_Queue) + 1
      BY <2>4, <3>2 DEF SeparatorAfter
    <3> QED
      BY <2>4, <2>5, <2>6, <3>1, <3>2
  <2> QED
    BY <2>1, <2>3, <2>6 DEF Followed
<1> QED
  BY <1>1, <1>2, <1>3, <1>4, <1>5

LEMMA InitFollowed == Init => NothingIsStranded
BY DEF Init, NothingIsStranded, Empty

LEMMA NextFollowed ==
    ASSUME IInv, NothingIsStranded, [Next]_vars
    PROVE  NothingIsStranded'
<1> USE EditSavingAssumption
<1> DEFINE Silent == ~Runs(syncTimer) /\ posted = 0
<1>0. TypeOK /\ TimersRun /\ (Silent => Followed)
  BY DEF IInv, NothingIsStranded, Followed
<1>00. DeleteAllItems \/ (\E a \in Artworks : Remove(a))
          => \E artworks \in SUBSET Artworks : Destroy(artworks)
  <2>1. \A a \in Artworks : {a} \in SUBSET Artworks
    OBVIOUS
  <2> QED
    BY <2>1 DEF DeleteAllItems, Remove
<1>1. Silent' => (Silent \/ SyncTimerFires \/ Quit)
  <2>1. CASE Tick
    BY <1>0, <2>1, TimerRuns DEF Tick, TypeOK, TimersRun
  <2>2. CASE CacheSyncRequest \/ \E a \in Artworks : EditingPaused(a)
    <3>1. Runs(syncTimer')
      BY <1>0, <2>2, TimerRuns DEF CacheSyncRequest, EditingPaused, TypeOK, TimersRun
    <3> QED
      BY <3>1 DEF Runs
  <2>3. CASE \E a \in Artworks : ThumbnailIsWritten(a)
    BY <1>0, <2>3 DEF ThumbnailIsWritten, TypeOK
  <2>4. CASE Work \/ DeleteAllItems \/ \E a \in Artworks :
               \/ AddFile(a) \/ Edit(a) \/ ImportBackup(a) \/ Reimport(a) \/ Remove(a)
               \/ \E cancelled, ignored \in BOOLEAN : EndImport(a, cancelled, ignored)
               \/ \E overwrite \in BOOLEAN : Export(a, overwrite)
    BY <2>4 DEF Work, AddFile, Edit, ImportBackup, Reimport, Remove, DeleteAllItems, Destroy,
              EndImport, Export, ProcessRead, ProcessWrite, ProcessAdd, ProcessSeparator,
              PassOver, Take, Runs
  <2>5. CASE UNCHANGED vars
    BY <2>5 DEF vars, Runs
  <2> QED
    BY <2>1, <2>2, <2>3, <2>4, <2>5 DEF Next, Events
<1>2. CASE SyncTimerFires
  <2>1. m_Queue \in Seq(Jobs) /\ m_Queue' = Append(m_Queue, Separator)
    BY <1>0, <1>2 DEF SyncTimerFires, TypeOK
  <2>2. /\ Len(m_Queue) + 1 \in DOMAIN m_Queue' /\ m_Queue'[Len(m_Queue) + 1] = Separator
        /\ \A i \in DOMAIN m_Queue' : i \in 1..Len(m_Queue) \/ i = Len(m_Queue) + 1
        /\ Len(m_Queue) \in Nat
    BY <2>1
  <2>3. Separator.job # "write"
    BY DEF Separator
  <2> HIDE DEF Separator
  <2>4. Followed'
    BY <2>2, <2>3 DEF Followed, SeparatorAfter
  <2> QED
    BY <2>4 DEF NothingIsStranded, Followed
<1>3. CASE Silent /\ ~SyncTimerFires
  <2>1. Followed
    BY <1>0, <1>3
  <2>2. CASE Work
    BY <1>0, <2>1, <2>2, WorkFollowed DEF NothingIsStranded, Followed
  <2>3. CASE \E a \in Artworks : EditingPaused(a) \/ ThumbnailIsWritten(a)
    <3>1. ~Silent'
      <4>1. CASE \E a \in Artworks : EditingPaused(a)
        <5>1. Runs(syncTimer')
          BY <1>0, <4>1, TimerRuns DEF EditingPaused, TypeOK, TimersRun
        <5> QED
          BY <5>1 DEF Runs
      <4>2. CASE \E a \in Artworks : ThumbnailIsWritten(a)
        BY <1>0, <4>2 DEF ThumbnailIsWritten, TypeOK
      <4> QED
        BY <2>3, <4>1, <4>2
    <3> QED
      BY <3>1 DEF NothingIsStranded, Runs
  <2>4. CASE CacheSyncRequest
    BY <1>0, <1>3, <2>4 DEF CacheSyncRequest, TypeOK
  <2>5. CASE UNCHANGED vars
    BY <2>1, <2>5 DEF vars, NothingIsStranded, Followed, SeparatorAfter, cacheVars, bounds
  <2>6. CASE \/ Tick \/ Quit \/ DeleteAllItems
             \/ \E a \in Artworks : \/ AddFile(a) \/ Edit(a) \/ Remove(a)
                                    \/ ImportBackup(a) \/ Reimport(a)
                                    \/ \E cancelled, ignored \in BOOLEAN :
                                          EndImport(a, cancelled, ignored)
                                    \/ \E overwrite \in BOOLEAN : Export(a, overwrite)
    <3>1. CASE Artworks = {}
      <4>1. \A i \in DOMAIN m_Queue : m_Queue[i].job # "write"
        BY <1>0, <3>1 DEF TypeOK, Jobs, Separator
      <4>2. \/ DOMAIN m_Queue' = {}
            \/ \A i \in DOMAIN m_Queue' :
                 i \in DOMAIN m_Queue /\ m_Queue'[i].job = m_Queue[i].job
        BY <1>0, <2>6, <3>1 DEF Tick, Quit, DeleteAllItems, Destroy, TypeOK, Jobs, Separator
      <4> QED
        BY <3>1, <4>1, <4>2 DEF NothingIsStranded
    <3>2. CASE Artworks # {}
      BY <1>0, <1>00, <2>1, <2>6, <3>2, OtherFollowed DEF NothingIsStranded, Followed
    <3> QED
      BY <3>1, <3>2
  <2> QED
    BY <1>3, <2>2, <2>3, <2>4, <2>5, <2>6 DEF Next, Events
<1>4. CASE ~Silent /\ Quit
  BY <1>4 DEF Quit, NothingIsStranded, Empty
<1>5. CASE ~Silent /\ ~SyncTimerFires /\ ~Quit
  BY <1>1, <1>5 DEF NothingIsStranded, Runs
<1> QED
  BY <1>2, <1>3, <1>4, <1>5

\* Whatever the order of edits, imports, thumbnails, failures and timers, a
\* queued or logged change has a sync ahead of it (metadataioservice.cpp).
THEOREM ChangesAreFollowed == Spec => []NothingIsStranded
<1>1. Init => IInv /\ NothingIsStranded
  BY InitTypes, InitTimers, InitFollowed DEF IInv
<1>2. IInv /\ NothingIsStranded /\ [Next]_vars => (IInv /\ NothingIsStranded)'
  BY NextTypes, NextTimers, NextFollowed DEF IInv
<1> QED
  BY <1>1, <1>2, PTL DEF Spec

-----------------------------------------------------------------------------
(* Saved edits are kept. *)

LEMMA InitWritten == Init => EditsAreWritten
BY EditSavingAssumption DEF Init, EditsAreWritten, Written, Guarded, Empty, NoTimer, Runs, Off

\* What a sync does to the entry of an artwork whose logged change is an edit.
LEMMA SyncKeeps ==
    ASSUME TypeOK, NEW adds \in Saved, NEW sets \in Saved, Sync(adds, sets),
           NEW a \in Artworks, sets[a] # 0
    PROVE  /\ m_SetWAL'[a] # 0
           /\ table[a] \in Contents \ {0} => table'[a] \in Contents \ {0}
<1>1. PICK failedAdds \in SUBSET Artworks, failedSets \in SUBSET Artworks :
        /\ table' = [b \in Artworks |->
                       LET added == IF b \in failedAdds THEN table[b]
                                    ELSE AddOrIgnore(table[b], adds[b])
                       IN  IF b \in failedSets THEN added ELSE SetOrKeep(added, sets[b])]
        /\ m_SetWAL' = [b \in Artworks |-> IF b \in failedSets THEN sets[b] ELSE None]
  BY DEF Sync, Logged
<1>2. None # 0 /\ None \notin Contents
  BY EditSavingAssumption DEF Contents, Versions
<1>3. m_SetWAL'[a] # 0
  BY <1>1, <1>2
<1>4. sets[a] \in Contents \cup {None}
  BY DEF Saved
<1> QED
  BY <1>1, <1>2, <1>3, <1>4 DEF AddOrIgnore, SetOrKeep

LEMMA AfterJobKeeps ==
    ASSUME TypeOK, NEW adds \in Saved, NEW sets \in Saved, AfterJob(adds, sets),
           NEW a \in Artworks, sets[a] # 0
    PROVE  /\ m_SetWAL'[a] # 0
           /\ table[a] \in Contents \ {0} => table'[a] \in Contents \ {0}
BY SyncKeeps DEF AfterJob

\* The worker writes edits, and keeps those it has written.
LEMMA WorkKeeps ==
    ASSUME TypeOK, EditsAreWritten, Work, NEW a \in Guarded
    PROVE  /\ m_SetWAL'[a] # 0
           /\ table[a] \in Contents \ {0} => table'[a] \in Contents \ {0}
<1> DEFINE b == Head(m_Queue).artwork
           held == Held(Head(m_Queue))
<1>1. m_AddWal \in Saved /\ m_SetWAL \in Saved /\ m_SetWAL[a] # 0
  BY DEF TypeOK, EditsAreWritten, Written
<1>6. a \in Artworks
  BY DEF Guarded
<1>2. CASE ProcessRead
  BY <1>1, <1>2, <1>6, AfterJobKeeps DEF ProcessRead
<1>3. CASE ProcessAdd
  <2>1. b \in Artworks /\ held \in Contents
    BY <1>3, TakeTypes DEF ProcessAdd
  <2>2. [m_AddWal EXCEPT ![b] = held] \in Saved
    BY <1>1, <2>1 DEF Saved
  <2> QED
    BY <1>1, <1>3, <1>6, <2>2, AfterJobKeeps DEF ProcessAdd
<1>4. CASE ProcessWrite
  <2> DEFINE sets == [m_SetWAL EXCEPT ![b] = held]
  <2>1. b \in Artworks /\ held \in Contents
    BY <1>4, TakeTypes DEF ProcessWrite
  <2>2. sets \in Saved
    BY <1>1, <2>1 DEF Saved
  <2>3. sets[a] # 0
    <3>1. CASE a # b
      BY <1>1, <2>1, <3>1 DEF Saved
    <3>2. CASE a = b
      <4>1. Take("write")
        BY <1>4 DEF ProcessWrite
      <4>2. 1 \in DOMAIN m_Queue /\ m_Queue[1] = Head(m_Queue) /\ m_Queue[1].job = "write"
        BY <4>1, QueueShrinks
      <4>3. held # 0
        BY <3>2, <4>2 DEF EditsAreWritten, Written, CarriesEdit, Held
      <4> QED
        BY <1>1, <2>1, <3>2, <4>3 DEF Saved
    <3> QED
      BY <3>1, <3>2
  <2>4. AfterJob(m_AddWal, sets)
    BY <1>4 DEF ProcessWrite
  <2> HIDE DEF sets
  <2> QED
    BY <1>1, <1>6, <2>2, <2>3, <2>4, AfterJobKeeps
<1>5. CASE ProcessSeparator
  BY <1>1, <1>5, <1>6, SyncKeeps DEF ProcessSeparator
<1>7. CASE PassOver
  BY <1>1, <1>7 DEF PassOver, cacheVars
<1> QED
  BY <1>2, <1>3, <1>4, <1>5, <1>7 DEF Work

\* No step queues a write of a guarded artwork that has nothing to save.
LEMMA NextWritten ==
    ASSUME IInv, EditsAreWritten, [Next]_vars
    PROVE  EditsAreWritten'
<1> USE EditSavingAssumption
<1> SUFFICES ASSUME NEW a \in Artworks, a \notin exposed'
             PROVE  Written(a)'
  BY DEF EditsAreWritten, Guarded
<1>0. /\ a \in Guarded
      /\ Runs(editTimer[a]) => state[a] = "ready" /\ content[a] # 0
      /\ m_SetWAL[a] # 0
      /\ \A i \in DOMAIN m_Queue : CarriesEdit(i, a)
  <2>1. exposed \subseteq exposed'
    BY DEF Next, Events, Work, Tick, AddFile, EndImport, ImportBackup, Reimport, Export, Edit,
           EditingPaused, CacheSyncRequest, SyncTimerFires, Remove, DeleteAllItems, Destroy,
           Quit, ThumbnailIsWritten, ProcessRead, ProcessWrite, ProcessAdd, ProcessSeparator,
           PassOver, Take, vars, bounds
  <2>2. a \in Guarded
    BY <2>1 DEF Guarded
  <2> QED
    BY <2>2 DEF EditsAreWritten, Written
<1>1. /\ TypeOK /\ TimersRun /\ m_Queue \in Seq(Jobs)
      /\ editTimer[a] \in Timer(EditInterval, MaxEditRestarts)
      /\ None # 0 /\ content[a] \in Contents
      /\ \A i \in DOMAIN m_Queue : m_Queue[i].value \in Contents \cup {None}
      /\ Merged # 0
  <2>1. Merged # 0 /\ None # 0
    BY DEF Versions
  <2> QED
    BY <2>1 DEF IInv, TypeOK, Jobs, Separator
<1>2. CASE Tick
  <2>1. Runs(editTimer'[a]) => Runs(editTimer[a])
    <3>1. editTimer'[a] = Elapse(editTimer[a])
      BY <1>2 DEF Tick
    <3>2. editTimer[a].restarts > 0 <=> Runs(editTimer[a])
      BY <1>1 DEF TimersRun
    <3>3. Runs(Elapse(editTimer[a])) <=> Runs(editTimer[a])
      <4> HIDE DEF Runs, Elapse, Timer
      <4> QED
        BY <1>1, <3>2, TimerRuns
    <3> QED
      BY <3>1, <3>3
  <2> QED
    BY <1>0, <1>2, <2>1 DEF Tick, Written, CarriesEdit, artworkVars, cacheVars, Runs
<1>3. ASSUME NEW b \in Artworks, AddFile(b) PROVE Written(a)'
  <2>1. state[b] # "ready" /\ m_Queue' = m_Queue \o <<Job("read", b), Separator>>
    BY <1>3 DEF AddFile
  <2>2. \A i \in DOMAIN m_Queue' : \/ i \in DOMAIN m_Queue /\ m_Queue'[i] = m_Queue[i]
                                   \/ m_Queue'[i].job # "write"
    <3>1. Job("read", b) \in Jobs /\ Job("read", b).job # "write"
      BY JobTypes DEF Job
    <3>2. Separator \in Jobs /\ Separator.job # "write"
      BY JobTypes DEF Separator
    <3> QED
      BY <1>1, <2>1, <3>1, <3>2, QueueGrows
  <2>3. state[a] = "ready" => state'[a] = "ready"
    BY <1>1, <1>3, <2>1 DEF AddFile, TypeOK
  <2> QED
    BY <1>0, <1>3, <2>2, <2>3 DEF AddFile, Written, CarriesEdit, cacheVars, Runs
<1>4. ASSUME NEW b \in Artworks, NEW cancelled \in BOOLEAN, NEW ignored \in BOOLEAN,
             EndImport(b, cancelled, ignored)
      PROVE  Written(a)'
  <2>1. PICK kept \in {m_Queue, Withdrawn(b)} :
          m_Queue' = IF cancelled THEN kept ELSE kept \o <<Job("add", b), Separator>>
    BY <1>4 DEF EndImport
  <2>2. /\ kept \in Seq(Jobs) /\ DOMAIN kept = DOMAIN m_Queue
        /\ \A i \in DOMAIN m_Queue : kept[i] = m_Queue[i] \/ kept[i].job # "write"
    BY <1>1, <2>1, WithdrawnTypes
  <2>3. \A i \in DOMAIN m_Queue' : \/ i \in DOMAIN m_Queue /\ m_Queue'[i] = m_Queue[i]
                                   \/ m_Queue'[i].job # "write"
    <3>1. Job("add", b) \in Jobs /\ Job("add", b).job # "write"
      BY JobTypes DEF Job
    <3>2. Separator \in Jobs /\ Separator.job # "write"
      BY JobTypes DEF Separator
    <3> DEFINE more == <<Job("add", b), Separator>>
    <3>3. more \in Seq(Jobs) /\ \A k \in DOMAIN more : more[k].job # "write"
      BY <3>1, <3>2
    <3> HIDE DEF more
    <3>4. CASE cancelled
      BY <2>1, <2>2, <3>4
    <3>5. CASE ~cancelled
      <4>1. m_Queue' = kept \o more
        BY <2>1, <3>5 DEF more
      <4> QED
        BY <2>2, <3>3, <4>1, JobsAdded
    <3> QED
      BY <3>4, <3>5
  <2>4. state[b] = "reading" /\ m_SetWAL' = m_SetWAL /\ editTimer' = editTimer
    BY <1>4 DEF EndImport
  <2>5. state[a] = "ready" => state'[a] = "ready" /\ content'[a] = content[a]
    BY <1>1, <1>4, <2>4 DEF EndImport, TypeOK
  <2> QED
    BY <1>0, <2>3, <2>4, <2>5 DEF Written, CarriesEdit, Runs
<1>16. ASSUME NEW b \in Artworks, ImportBackup(b) PROVE Written(a)'
  <2>1. /\ m_Queue' = m_Queue /\ m_SetWAL' = m_SetWAL /\ state' = state
        /\ a # b => content'[a] = content[a] /\ editTimer'[a] = editTimer[a]
    BY <1>1, <1>16 DEF ImportBackup, TypeOK
  <2>2. state[a] = "ready" => content'[a] = content[a] \/ content'[a] # 0
    BY <1>1, <1>16 DEF ImportBackup, TypeOK
  <2>3. Runs(editTimer'[a]) => state[a] = "ready" /\ content'[a] # 0
    <3>1. CASE editTimer' = editTimer
      BY <1>0, <2>2, <3>1
    <3>2. CASE a = b /\ editTimer' # editTimer
      BY <1>1, <1>16, <3>2 DEF ImportBackup, TypeOK
    <3>3. CASE a # b
      BY <1>0, <2>1, <3>3
    <3> QED
      BY <3>1, <3>2, <3>3
  <2> QED
    BY <1>0, <2>1, <2>2, <2>3 DEF Written, CarriesEdit, Runs
<1>17. ASSUME NEW b \in Artworks, Reimport(b) PROVE Written(a)'
  <2>1. /\ m_Queue' = m_Queue \o <<Job("add", b), Separator>>
        /\ m_SetWAL' = m_SetWAL /\ editTimer' = editTimer
        /\ a # b => content'[a] = content[a] /\ state'[a] = state[a]
        /\ a = b => ~Runs(editTimer[a]) /\ ~Waits(a)
    BY <1>1, <1>17 DEF Reimport, TypeOK, cacheVars
  <2>2. ASSUME NEW i \in DOMAIN m_Queue' PROVE CarriesEdit(i, a)'
    <3>1. \/ i \in DOMAIN m_Queue /\ m_Queue'[i] = m_Queue[i]
          \/ m_Queue'[i].job # "write"
      <4>1. Job("add", b) \in Jobs /\ Job("add", b).job # "write"
        BY JobTypes DEF Job
      <4>2. Separator \in Jobs /\ Separator.job # "write"
        BY JobTypes DEF Separator
      <4> QED
        BY <1>1, <2>1, <4>1, <4>2, QueueGrows
    <3>2. a = b => \A k \in DOMAIN m_Queue : ~(m_Queue[k].job = "write" /\ m_Queue[k].artwork = a)
      BY <1>0, <2>1 DEF Waits, CarriesEdit
    <3> QED
      BY <1>0, <2>1, <3>1, <3>2 DEF CarriesEdit
  <2> QED
    BY <1>0, <2>1, <2>2 DEF Written, Runs
<1>5. ASSUME NEW b \in Artworks, Edit(b) PROVE Written(a)'
  <2>1. /\ content'[b] # 0 /\ state[b] = "ready"
        /\ a # b => content'[a] = content[a] /\ editTimer'[a] = editTimer[a]
    <3>1. Later(content[b]) # 0
      <4>1. content[b] \in Contents
        BY <1>1 DEF TypeOK
      <4> QED
        BY <4>1 DEF Later, Contents, Versions
    <3> QED
      BY <1>1, <1>5, <3>1 DEF Edit, TypeOK
  <2> QED
    BY <1>0, <1>5, <2>1 DEF Edit, Written, CarriesEdit, cacheVars, Runs
<1>6. ASSUME NEW b \in Artworks, EditingPaused(b)
      PROVE  Written(a)'
  <2>1. /\ m_Queue' = Append(m_Queue, Job("write", b))
        /\ state' = state /\ content' = content /\ m_SetWAL' = m_SetWAL
        /\ Runs(editTimer[b])
        /\ Runs(editTimer'[a]) => Runs(editTimer[a])
    <3>1. Runs(editTimer[b]) /\ ~Runs(NoTimer)
      BY <1>6 DEF EditingPaused, Runs, Off, NoTimer
    <3> QED
      BY <1>1, <1>6, <3>1 DEF EditingPaused, artworkVars, cacheVars, Fired, TypeOK
  <2>2. ASSUME NEW i \in DOMAIN m_Queue' PROVE CarriesEdit(i, a)'
    <3>1. CASE i \in DOMAIN m_Queue /\ m_Queue'[i] = m_Queue[i]
      BY <1>0, <2>1, <3>1 DEF CarriesEdit
    <3>2. CASE m_Queue'[i] = Job("write", b)
      BY <1>0, <2>1, <3>2 DEF CarriesEdit, Job
    <3>3. Job("write", b) \in Jobs
      BY JobTypes
    <3> HIDE DEF Job
    <3> QED
      BY <1>1, <2>1, <3>1, <3>2, <3>3
  <2> QED
    BY <1>0, <2>1, <2>2 DEF Written, Runs
<1>7. ASSUME NEW artworks \in SUBSET Artworks, Destroy(artworks)
      PROVE  Written(a)'
  <2>1. /\ DOMAIN m_Queue' = DOMAIN m_Queue
        /\ \A i \in DOMAIN m_Queue :
             m_Queue'[i] = IF m_Queue[i].artwork \in artworks /\ m_Queue[i].value = None
                           THEN [m_Queue[i] EXCEPT !.value = 0] ELSE m_Queue[i]
    BY <1>7 DEF Destroy
  <2>2. m_SetWAL'[a] # 0
    BY <1>0, <1>7 DEF Destroy
  <2>3. CASE a \in artworks
    <3>1. ~Waits(a)
      BY <1>7, <2>3 DEF Destroy
    <3>2. ~Runs(editTimer'[a])
      BY <1>7, <2>3 DEF Destroy, Runs, NoTimer
    <3>3. ASSUME NEW i \in DOMAIN m_Queue
          PROVE  ~(m_Queue'[i].job = "write" /\ m_Queue'[i].artwork = a)
      <4>1. ~(m_Queue[i].job = "write" /\ m_Queue[i].artwork = a)
        BY <1>0, <3>1 DEF Waits, CarriesEdit
      <4>2. m_Queue[i] \in Jobs
        BY <1>1
      <4> QED
        BY <2>1, <4>1, <4>2 DEF Jobs, Separator
    <3> QED
      BY <2>1, <2>2, <3>2, <3>3 DEF Written, CarriesEdit, Runs
  <2>4. CASE a \notin artworks
    <3>1. state'[a] = state[a] /\ content'[a] = content[a] /\ editTimer'[a] = editTimer[a]
      BY <1>7, <2>4 DEF Destroy
    <3>2. ASSUME NEW i \in DOMAIN m_Queue PROVE CarriesEdit(i, a)'
      <4>1. m_Queue[i] \in Jobs
        BY <1>1
      <4>2. m_Queue'[i].artwork = a => m_Queue'[i] = m_Queue[i]
        BY <2>1, <2>4, <4>1 DEF Jobs, Separator
      <4> QED
        BY <1>0, <3>1, <4>2 DEF CarriesEdit
    <3> QED
      BY <1>0, <2>1, <2>2, <3>1, <3>2 DEF Written, Runs
  <2> QED
    BY <2>3, <2>4
<1>8. ASSUME NEW b \in Artworks, ThumbnailIsWritten(b)
      PROVE  Written(a)'
  <2>1. /\ m_Queue' = Append(m_Queue, Job("write", b))
        /\ state' = state /\ content' = content /\ editTimer' = editTimer
        /\ m_SetWAL' = m_SetWAL
        /\ a = b => state[a] = "ready" /\ content[a] # 0
    BY <1>1, <1>8 DEF ThumbnailIsWritten, cacheVars, IInv, TypeOK
  <2>2. Job("write", b) \in Jobs /\ Job("write", b).artwork = b /\ Job("write", b).value = None
    BY JobTypes DEF Job
  <2> HIDE DEF Job
  <2> QED
    BY <1>0, <1>1, <2>1, <2>2 DEF Written, CarriesEdit, Runs
<1>9. CASE Work
  <2>1. m_SetWAL'[a] # 0
    BY <1>0, <1>1, <1>9, WorkKeeps
  <2>2. state' = state /\ content' = content /\ editTimer' = editTimer
    BY <1>9 DEF Work, ProcessRead, ProcessWrite, ProcessAdd, ProcessSeparator, PassOver, Take,
              artworkVars
  <2>3. \A i \in DOMAIN m_Queue' : i + 1 \in DOMAIN m_Queue /\ m_Queue'[i] = m_Queue[i + 1]
    BY <1>1, <1>9, QueueShrinks
       DEF Work, ProcessRead, ProcessWrite, ProcessAdd, ProcessSeparator, PassOver
  <2> QED
    BY <1>0, <2>1, <2>2, <2>3 DEF Written, CarriesEdit, Runs
<1>10. CASE CacheSyncRequest \/ UNCHANGED vars
  BY <1>0, <1>10 DEF CacheSyncRequest, vars, Written, CarriesEdit, artworkVars, cacheVars, Runs
<1>11. CASE SyncTimerFires
  <2>1. /\ m_Queue' = Append(m_Queue, Separator) /\ Separator \in Jobs /\ Separator.job # "write"
        /\ state' = state /\ content' = content /\ editTimer' = editTimer /\ m_SetWAL' = m_SetWAL
    BY <1>11, JobTypes DEF SyncTimerFires, artworkVars, cacheVars, Separator
  <2> HIDE DEF Separator
  <2> QED
    BY <1>0, <1>1, <2>1 DEF Written, CarriesEdit, Runs
<1>12. CASE Quit
  BY <1>1, <1>12 DEF Quit, Empty, NoTimer, Runs, Written, CarriesEdit
<1>13. ASSUME NEW b \in Artworks, NEW overwrite \in BOOLEAN, Export(b, overwrite)
       PROVE  Written(a)'
  <2>1. /\ m_Queue' = m_Queue \o <<Job("write", b), Separator>>
        /\ state' = state /\ content' = content /\ editTimer' = editTimer
        /\ m_SetWAL' = m_SetWAL
        /\ a = b => state[a] = "ready" /\ content[a] # 0
    BY <1>13 DEF Export, artworkVars, cacheVars
  <2>2. ASSUME NEW i \in DOMAIN m_Queue' PROVE CarriesEdit(i, a)'
    <3>1. CASE i \in DOMAIN m_Queue /\ m_Queue'[i] = m_Queue[i]
      BY <1>0, <2>1, <3>1 DEF CarriesEdit
    <3>2. CASE m_Queue'[i] = Job("write", b)
      BY <1>1, <2>1, <3>2 DEF CarriesEdit, Job
    <3>3. CASE m_Queue'[i] = Separator
      BY <3>3 DEF CarriesEdit, Separator
    <3>4. Job("write", b) \in Jobs /\ Separator \in Jobs
      BY JobTypes
    <3> HIDE DEF Job, Separator
    <3> QED
      BY <1>1, <2>1, <3>1, <3>2, <3>3, <3>4, QueueGrows
  <2> QED
    BY <1>0, <2>1, <2>2 DEF Written, Runs
<1>14. ASSUME NEW b \in Artworks, Remove(b) PROVE Written(a)'
  <2>1. Destroy({b}) /\ {b} \in SUBSET Artworks
    BY <1>14 DEF Remove
  <2> QED
    BY <1>7, <2>1
<1>15. CASE DeleteAllItems
  BY <1>7, <1>15 DEF DeleteAllItems
<1> QED
  BY <1>2, <1>3, <1>4, <1>5, <1>6, <1>8, <1>9, <1>10, <1>11, <1>12, <1>13, <1>14, <1>15,
     <1>16, <1>17
     DEF Next, Events

\* Only the worker writes the table, and over an edit it writes no empty content.
LEMMA TableKeeps ==
    ASSUME IInv, EditsAreWritten, [Next]_vars
    PROVE  [ \A a \in Guarded :
               table[a] \in Contents \ {0} => table'[a] \in Contents \ {0} ]_table
<1>1. CASE Work
  BY <1>1, WorkKeeps DEF IInv
<1>2. CASE ~Work
  BY <1>2 DEF Next, Events, Tick, AddFile, EndImport, ImportBackup, Reimport, Export, Edit,
            EditingPaused, CacheSyncRequest, SyncTimerFires, Remove, DeleteAllItems, Destroy,
            Quit, ThumbnailIsWritten, vars, cacheVars
<1> QED
  BY <1>1, <1>2

\* What is saved of an artwork's edits is replaced by a later edit or by what an
\* import made of it and the file, never by a content with nothing of either,
\* whatever is imported, lost or ended in between (artworkmetadata.cpp: the two
\* initFrom functions).  Exceptions: an export was told to overwrite all, a video
\* was written by its thumbnail's thread without an edit or during its import, or
\* the artwork was reimported or destroyed while a write of it was due
\* (cachedartwork.cpp; artworkslistmodel.cpp: destroyArtwork).
THEOREM EditsStaySaved == Spec => SavedEditsAreKept
<1>1. Init => IInv /\ EditsAreWritten
  BY InitTypes, InitTimers, InitWritten DEF IInv
<1>2. IInv /\ EditsAreWritten /\ [Next]_vars => (IInv /\ EditsAreWritten)'
  BY NextTypes, NextTimers, NextWritten DEF IInv
<1>3. IInv /\ EditsAreWritten /\ [Next]_vars =>
        [ \A a \in Guarded :
            table[a] \in Contents \ {0} => table'[a] \in Contents \ {0} ]_table
  BY TableKeeps
<1> QED
  BY <1>1, <1>2, <1>3, PTL DEF Spec, SavedEditsAreKept

=============================================================================
