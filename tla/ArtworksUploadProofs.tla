-------------------------- MODULE ArtworksUploadProofs --------------------------
(***************************************************************************)
(* For any hosts, files and number of uploads: the state keeps its types,  *)
(* and the permits of the semaphore that are free or held add up to        *)
(* MaxParallel, however uploads overlap and are cancelled.                 *)
(***************************************************************************)
EXTENDS ArtworksUpload, FiniteSetTheorems, TLAPS

\* The threads of an upload are created when it starts.
UnusedInv == \A w \in Workers : w[1] > uploads => worker[w].pc = "none"

IInv == TypeOK /\ UnusedInv /\ PermitsAreKept

LEMMA HoldersAreFinite == IsFiniteSet(Holders) /\ Cardinality(Holders) \in Nat
<1>1. IsFiniteSet(1..MaxUploads)
  BY UploadAssumption, FS_Interval
<1>2. IsFiniteSet(Workers)
  BY <1>1, UploadAssumption, FS_Product DEF Workers
<1>3. IsFiniteSet(Holders)
  BY <1>2, FS_Subset DEF Holders
<1> QED
  BY <1>3, FS_CardinalityType

\* A signal is queued behind the others.
LEMMA SignalIsQueued ==
    ASSUME events \in Seq(Signals), NEW signal \in Signals, events' = Append(events, signal)
    PROVE  events' \in Seq(Signals)
<1> HIDE DEF Signals
<1> QED
  OBVIOUS

LEMMA FirstSignal ==
    ASSUME events \in Seq(Signals), events # <<>>
    PROVE  Head(events) \in Signals /\ Tail(events) \in Seq(Signals)
<1> HIDE DEF Signals
<1> QED
  OBVIOUS

-----------------------------------------------------------------------------
(* Types. *)

LEMMA InitTypes == Init => TypeOK
<1> SUFFICES ASSUME Init PROVE TypeOK
  OBVIOUS
<1>1. /\ uploadButtonEnabled \in BOOLEAN /\ m_IsInProgress \in BOOLEAN
      /\ m_HasErrors \in BOOLEAN /\ m_AnyFailed \in BOOLEAN /\ attended \in BOOLEAN
  BY Zenon DEF Init
<1>2. worker \in [Workers -> WorkerState]
  BY DEF Init, NoWorker, WorkerState
<1>3. events \in Seq(Signals)
  BY DEF Init
<1> QED
  BY <1>1, <1>2, <1>3, UploadAssumption DEF Init, TypeOK

LEMMA MainTypes ==
    ASSUME TypeOK,
           \/ \E artworks \in SUBSET Files : \E skip \in BOOLEAN : SetupUpload(artworks, skip)
           \/ \E hosts \in SUBSET Hosts : StartUpload(hosts)
           \/ AskToAbort \/ KeepUploading \/ CancelOperation \/ CloseDialog
           \/ \E f \in Files : FileLost(f)
    PROVE  TypeOK'
<1>1. ASSUME NEW artworks \in SUBSET Files, NEW skip \in BOOLEAN, SetupUpload(artworks, skip)
      PROVE  TypeOK'
  <2>1. /\ uploadButtonEnabled' \in BOOLEAN /\ m_IsInProgress' \in BOOLEAN
        /\ m_HasErrors' \in BOOLEAN /\ attended' \in BOOLEAN
    BY <1>1, Zenon DEF SetupUpload
  <2> QED
    BY <1>1, <2>1 DEF SetupUpload, TypeOK, coordinatorVars
<1>2. ASSUME NEW hosts \in SUBSET Hosts, StartUpload(hosts)
      PROVE  TypeOK'
  <2>1. /\ m_IsInProgress' \in BOOLEAN /\ m_HasErrors' \in BOOLEAN
        /\ m_AnyFailed' \in BOOLEAN /\ attended' \in BOOLEAN
    BY <1>2, Zenon DEF StartUpload, InitUpload
  <2>2. Cardinality(hosts) \in Nat
    BY UploadAssumption, FS_Subset, FS_CardinalityType
  <2>3. worker' \in [Workers -> WorkerState]
    BY <1>2 DEF StartUpload, TypeOK, NoWorker, WorkerState
  <2>4. uploads' \in 0..MaxUploads
    BY <1>2, UploadAssumption DEF StartUpload, TypeOK
  <2> QED
    BY <1>2, <2>1, <2>2, <2>3, <2>4 DEF StartUpload, InitUpload, TypeOK, dialogVars
<1>3. CASE AskToAbort \/ KeepUploading
  BY <1>3 DEF AskToAbort, KeepUploading, TypeOK, uploaderVars, coordinatorVars
<1>4. CASE CancelOperation
  <2>1. worker' \in [Workers -> WorkerState]
    <3>1. \A w \in Workers : worker[w] \in WorkerState
      BY DEF TypeOK
    <3>2. \A w \in Workers :
            (worker[w].cancelPosted \/ worker[w].pc \notin {"none", "released"}) \in BOOLEAN
      BY Zenon
    <3> QED
      BY <1>4, <3>1, <3>2 DEF CancelOperation, WorkerState
  <2>2. uploadButtonEnabled' \in BOOLEAN
    BY <1>4, Zenon DEF CancelOperation
  <2> QED
    BY <1>4, <2>1, <2>2 DEF CancelOperation, TypeOK, uploaderVars, coordinatorVars
<1>5. CASE CloseDialog
  <2>1. uploadButtonEnabled' \in BOOLEAN
    BY <1>5, Zenon DEF CloseDialog
  <2> QED
    BY <1>5, <2>1 DEF CloseDialog, TypeOK, coordinatorVars
<1>6. ASSUME NEW f \in Files, FileLost(f)
      PROVE  TypeOK'
  <2>1. uploadButtonEnabled' \in BOOLEAN /\ attended' \in BOOLEAN
    BY <1>6, Zenon DEF FileLost
  <2> QED
    BY <1>6, <2>1 DEF FileLost, TypeOK, coordinatorVars
<1> QED
  BY <1>1, <1>2, <1>3, <1>4, <1>5, <1>6

LEMMA EventTypes ==
    ASSUME TypeOK, HandleEvent
    PROVE  TypeOK'
<1>1. Head(events) \in Signals /\ events' \in Seq(Signals)
  BY FirstSignal DEF TypeOK, HandleEvent
<1>2. CASE WorkerFinished(Head(events).anyErrors) /\ Head(events).signal = "uploadFinished"
  <2>1. /\ m_AnyFailed' \in BOOLEAN /\ m_FinishedWorkersCount' \in Nat
    <3>1. m_AnyFailed' \in BOOLEAN
      BY <1>2, Zenon DEF WorkerFinished, AccumulateFailure
    <3> QED
      BY <1>2, <3>1 DEF WorkerFinished, TypeOK
  <2>2. m_HasErrors' \in BOOLEAN /\ m_IsInProgress' \in BOOLEAN
        /\ uploadButtonEnabled' \in BOOLEAN
    <3>1. (dialog # "closed") \in BOOLEAN
      BY Zenon
    <3> QED
      BY <1>2, <2>1, <3>1 DEF WorkerFinished, TypeOK
  <2> QED
    BY <1>1, <1>2, <2>1, <2>2 DEF HandleEvent, WorkerFinished, TypeOK
<1>3. CASE ReportUploadError(Head(events).failure) /\ Head(events).signal = "transferFailed"
  <2>1. Head(events).failure \in Failure
    BY <1>1, <1>3 DEF Signals
  <2> QED
    BY <1>1, <1>3, <2>1 DEF HandleEvent, ReportUploadError, TypeOK, coordinatorVars
<1> QED
  BY <1>2, <1>3 DEF HandleEvent

LEMMA WorkerTypes ==
    ASSUME TypeOK, NEW w \in Workers, WorkerStep(w)
    PROVE  TypeOK'
<1>1. /\ w[2] \in Hosts /\ worker[w] \in WorkerState
      /\ worker \in [Workers -> WorkerState] /\ events \in Seq(Signals)
  BY DEF TypeOK, Workers
<1>2. CASE Acquire(w)
  BY <1>1, <1>2 DEF Acquire, TypeOK, WorkerState, mainVars, dialogVars, uploaderVars,
     coordinatorVars
<1>3. ASSUME NEW f \in Files, TransferFile(w, f)
      PROVE  TypeOK'
  BY <1>1, <1>3 DEF TransferFile, TypeOK, WorkerState, mainVars, dialogVars,
     uploaderVars, coordinatorVars
<1>4. ASSUME NEW f \in Files, TransferFails(w, f)
      PROVE  TypeOK'
  <2>1. [signal |-> "transferFailed", failure |-> <<w[2], f>>] \in Signals
    BY <1>1 DEF Signals, Failure
  <2>2. events' \in Seq(Signals)
    BY <1>1, <1>4, <2>1, SignalIsQueued DEF TransferFails
  <2>3. worker' \in [Workers -> WorkerState]
    BY <1>1, <1>4 DEF TransferFails, WorkerState
  <2>4. failures' \subseteq Failure
    BY <1>1, <1>4 DEF TransferFails, TypeOK, Failure
  <2> QED
    BY <1>4, <2>2, <2>3, <2>4 DEF TransferFails, TypeOK, mainVars, dialogVars,
       uploaderVars, coordinatorVars
<1>5. CASE FinishBatch(w)
  <2>1. [signal |-> "uploadFinished", anyErrors |-> worker[w].anyErrors] \in Signals
    BY <1>1 DEF Signals, WorkerState
  <2>2. events' \in Seq(Signals)
    BY <1>1, <1>5, <2>1, SignalIsQueued DEF FinishBatch
  <2>3. worker' \in [Workers -> WorkerState]
    BY <1>1, <1>5 DEF FinishBatch, WorkerState
  <2> QED
    BY <1>5, <2>2, <2>3 DEF FinishBatch, TypeOK, mainVars, dialogVars, uploaderVars,
       coordinatorVars
<1>6. CASE ProcessEvents(w)
  BY <1>1, <1>6 DEF ProcessEvents, TypeOK, WorkerState, mainVars, dialogVars,
     uploaderVars, coordinatorVars
<1>7. CASE Release(w)
  <2>1. [NoWorker EXCEPT !.pc = "released"] \in WorkerState
    BY DEF NoWorker, WorkerState
  <2> QED
    BY <1>1, <1>7, <2>1 DEF Release, TypeOK, mainVars, dialogVars, uploaderVars,
       coordinatorVars
<1> QED
  BY <1>2, <1>3, <1>4, <1>5, <1>6, <1>7 DEF WorkerStep

LEMMA NextTypes ==
    ASSUME TypeOK, [Next]_vars
    PROVE  TypeOK'
<1>1. CASE Next
  BY <1>1, MainTypes, EventTypes, WorkerTypes DEF Next
<1>2. CASE UNCHANGED vars
  BY <1>2 DEF vars, TypeOK, dialogVars, uploaderVars, coordinatorVars
<1> QED
  BY <1>1, <1>2

\* The dialog, the coordinator, the workers and their signals hold what their
\* types say.
THEOREM TypeCorrect == Spec => []TypeOK
BY InitTypes, NextTypes, PTL DEF Spec

-----------------------------------------------------------------------------
(* The semaphore. *)

LEMMA InitPermits == Init => UnusedInv /\ PermitsAreKept
<1> SUFFICES ASSUME Init PROVE UnusedInv /\ PermitsAreKept
  OBVIOUS
<1>1. Holders = {}
  BY DEF Init, Holders, NoWorker
<1> QED
  BY <1>1, FS_EmptySet, UploadAssumption DEF Init, PermitsAreKept, UnusedInv, NoWorker

LEMMA NextUnused ==
    ASSUME TypeOK, UnusedInv, [Next]_vars
    PROVE  UnusedInv'
<1>0. /\ worker \in [Workers -> WorkerState] /\ uploads \in Nat
      /\ \A w \in Workers : w[1] \in Nat
  BY UploadAssumption DEF TypeOK, Workers
<1>1. ASSUME NEW hosts \in SUBSET Hosts, StartUpload(hosts)
      PROVE  UnusedInv'
  BY <1>0, <1>1 DEF StartUpload, UnusedInv
<1>2. CASE CancelOperation
  BY <1>0, <1>2 DEF CancelOperation, UnusedInv, WorkerState
<1>3. ASSUME NEW w \in Workers, WorkerStep(w)
      PROVE  UnusedInv'
  <2>1. /\ worker[w].pc # "none" /\ uploads' = uploads
        /\ \A v \in Workers : v # w => worker'[v] = worker[v]
    BY <1>0, <1>3 DEF WorkerStep, Acquire, FinishBatch, ProcessEvents, Release,
       TransferFile, TransferFails, mainVars
  <2> QED
    BY <2>1 DEF UnusedInv
<1> QED
  BY <1>1, <1>2, <1>3
  DEF UnusedInv, Next, SetupUpload, AskToAbort, KeepUploading, CloseDialog, FileLost,
      HandleEvent, vars

\* Acquiring and releasing are the only steps that move a permit.
LEMMA NextPermits ==
    ASSUME IInv, [Next]_vars
    PROVE  PermitsAreKept'
<1> DEFINE Holds(pc) == pc \in {"uploading", "finished", "delivered"}
<1>0. /\ m_UploadSemaphore \in Nat /\ MaxParallel \in Nat /\ PermitsAreKept /\ UnusedInv
      /\ worker \in [Workers -> WorkerState]
      /\ uploads \in Nat
  BY UploadAssumption DEF IInv, TypeOK
<1>1. ASSUME m_UploadSemaphore' = m_UploadSemaphore,
             \A w \in Workers : Holds(worker'[w].pc) <=> Holds(worker[w].pc)
      PROVE  PermitsAreKept'
  <2>1. Holders' = Holders
    BY <1>1 DEF Holders
  <2> QED
    BY <1>0, <1>1, <2>1 DEF PermitsAreKept
<1>2. ASSUME NEW w \in Workers, Acquire(w)
      PROVE  PermitsAreKept'
  <2>1. Holders' = Holders \cup {w} /\ w \notin Holders
    BY <1>0, <1>2 DEF Acquire, Holders, WorkerState
  <2>2. Cardinality(Holders') = Cardinality(Holders) + 1
    BY <2>1, HoldersAreFinite, FS_AddElement
  <2> QED
    BY <1>0, <1>2, <2>2, HoldersAreFinite DEF Acquire, PermitsAreKept
<1>3. ASSUME NEW w \in Workers, Release(w)
      PROVE  PermitsAreKept'
  <2>1. Holders' = Holders \ {w} /\ w \in Holders
    BY <1>0, <1>3 DEF Release, Holders, WorkerState, NoWorker
  <2>2. Cardinality(Holders') = Cardinality(Holders) - 1
    BY <2>1, HoldersAreFinite, FS_RemoveElement
  <2> QED
    BY <1>0, <1>3, <2>2, HoldersAreFinite DEF Release, PermitsAreKept
<1>4. ASSUME NEW w \in Workers,
             \/ FinishBatch(w) \/ ProcessEvents(w)
             \/ \E f \in Files : TransferFile(w, f) \/ TransferFails(w, f)
      PROVE  PermitsAreKept'
  <2>1. m_UploadSemaphore' = m_UploadSemaphore
    BY <1>4 DEF FinishBatch, ProcessEvents, TransferFile, TransferFails
  <2>2. Holds(worker[w].pc) /\ Holds(worker'[w].pc)
        /\ \A v \in Workers : v # w => worker'[v] = worker[v]
    <3>1. CASE FinishBatch(w)
      BY <1>0, <3>1 DEF FinishBatch, WorkerState
    <3>2. CASE ProcessEvents(w)
      BY <1>0, <3>2 DEF ProcessEvents, WorkerState
    <3>3. CASE \E f \in Files : TransferFile(w, f) \/ TransferFails(w, f)
      BY <1>0, <3>3 DEF TransferFile, TransferFails, WorkerState
    <3> QED
      BY <1>4, <3>1, <3>2, <3>3
  <2>3. \A v \in Workers : Holds(worker'[v].pc) <=> Holds(worker[v].pc)
    BY <2>2
  <2> QED
    BY <1>1, <2>1, <2>3
<1>5. ASSUME NEW hosts \in SUBSET Hosts, StartUpload(hosts)
      PROVE  PermitsAreKept'
  <2>1. \A w \in Workers : \/ worker'[w] = worker[w]
                           \/ worker[w].pc = "none" /\ worker'[w].pc = "waiting"
    <3> DEFINE new == [NoWorker EXCEPT !.pc = "waiting", !.left = m_ArtworksSnapshot]
    <3>1. new.pc = "waiting"
      BY DEF NoWorker
    <3>2. worker' = [w \in Workers |-> IF w[1] = uploads + 1 /\ w[2] \in hosts
                                     THEN new ELSE worker[w]]
      BY <1>5 DEF StartUpload
    <3> HIDE DEF new
    <3>3. \A w \in Workers : w[1] = uploads + 1 => worker[w].pc = "none"
      BY <1>0 DEF UnusedInv
    <3> QED
      BY <3>1, <3>2, <3>3
  <2>2. \A w \in Workers : Holds(worker'[w].pc) <=> Holds(worker[w].pc)
    BY <2>1
  <2> QED
    BY <1>1, <1>5, <2>2 DEF StartUpload
<1>6. CASE CancelOperation
  BY <1>0, <1>1, <1>6 DEF CancelOperation, WorkerState
<1>7. ASSUME m_UploadSemaphore' = m_UploadSemaphore, worker' = worker
      PROVE  PermitsAreKept'
  BY <1>1, <1>7
<1> QED
  BY <1>2, <1>3, <1>4, <1>5, <1>6, <1>7
  DEF Next, WorkerStep, SetupUpload, AskToAbort, KeepUploading, CloseDialog, FileLost,
      HandleEvent, vars

\* No permit is lost or made (ftpuploaderworker.cpp acquires and releases, what is
\* between may be cancelled), so that at most MaxParallel hosts transfer at a time.
THEOREM PermitsAddUp == Spec => []PermitsAreKept
<1>1. Init => IInv
  BY InitTypes, InitPermits DEF IInv
<1>2. IInv /\ [Next]_vars => IInv'
  BY NextTypes, NextUnused, NextPermits DEF IInv
<1>3. IInv => PermitsAreKept
  BY DEF IInv
<1> QED
  BY <1>1, <1>2, <1>3, PTL DEF Spec

-----------------------------------------------------------------------------
(* The report of the end. *)

\* The signals of one kind among those that are queued.
Ends(s) == {i \in DOMAIN s : s[i].signal = "uploadFinished"}
Failed(s) == {i \in DOMAIN s : s[i].signal = "transferFailed"}

\* The workers of the last upload, and those among them that announced their end.
Mine == {w \in Workers : w[1] = uploads /\ worker[w].pc # "none"}
Ended == {w \in Mine : worker[w].pc \notin {"waiting", "uploading"}}

\* What holds while an upload that has the uploader to itself is under way: it
\* alone transfers; the coordinator counted the ends that are not queued any
\* more; a failure is shown or queued, announced or about to be, and queued
\* before the end of its worker.
ActiveInv ==
    attended /\ m_IsInProgress =>
        /\ uploads \in 1..MaxUploads
        /\ \A w \in Uploading : w[1] = uploads
        /\ m_AllWorkersCount = Cardinality(Mine)
        /\ Cardinality(Ends(events)) + m_FinishedWorkersCount = Cardinality(Ended)
        /\ failures = m_FtpInfo \cup {events[i].failure : i \in Failed(events)}
        /\ failures # {} <=>
             \/ m_AnyFailed
             \/ \E i \in Ends(events) : events[i].anyErrors
             \/ \E w \in Uploading : worker[w].anyErrors
        /\ \A i \in Failed(events) :
             \/ \E j \in Ends(events) : i < j
             \/ worker[<<uploads, events[i].failure[1]>>].pc = "uploading"

LEMMA InFailure ==
    ASSUME TypeOK, NEW i \in Failed(events)
    PROVE  events[i].failure \in Failure /\ events[i].failure[1] \in Hosts
<1>1. i \in DOMAIN events /\ events[i].signal = "transferFailed"
  BY DEF Failed
<1>2. events[i] \in Signals
  <2> HIDE DEF Signals
  <2> QED
    BY <1>1 DEF TypeOK
<1>3. events[i].failure \in Failure
  BY <1>1, <1>2 DEF Signals
<1> QED
  BY <1>3 DEF Failure

\* A signal at the end of the queue.
LEMMA SignalsAppend ==
    ASSUME NEW s \in Seq(Signals), NEW e \in Signals
    PROVE  LET t == Append(s, e)
           IN  /\ Len(s) + 1 \notin DOMAIN s /\ \A i \in DOMAIN s : i < Len(s) + 1
               /\ t[Len(s) + 1] = e /\ \A i \in DOMAIN s : t[i] = s[i]
               /\ Ends(t) = IF e.signal = "uploadFinished"
                            THEN Ends(s) \cup {Len(s) + 1} ELSE Ends(s)
               /\ Failed(t) = IF e.signal = "transferFailed"
                              THEN Failed(s) \cup {Len(s) + 1} ELSE Failed(s)
<1> HIDE DEF Signals
<1> DEFINE t == Append(s, e)
<1>1. /\ DOMAIN s = 1..Len(s) /\ Len(s) \in Nat /\ DOMAIN t = 1..(Len(s) + 1)
      /\ t[Len(s) + 1] = e /\ \A i \in 1..Len(s) : t[i] = s[i]
  OBVIOUS
<1> HIDE DEF t
<1>2. DOMAIN t = DOMAIN s \cup {Len(s) + 1} /\ Len(s) + 1 \notin DOMAIN s
  BY <1>1
<1>3. Ends(t) = IF e.signal = "uploadFinished" THEN Ends(s) \cup {Len(s) + 1} ELSE Ends(s)
  BY <1>1, <1>2 DEF Ends
<1>4. Failed(t) = IF e.signal = "transferFailed" THEN Failed(s) \cup {Len(s) + 1} ELSE Failed(s)
  BY <1>1, <1>2 DEF Failed
<1> QED
  BY <1>1, <1>2, <1>3, <1>4 DEF t

\* The queue is finite, and so are the ends in it.
LEMMA EndsAreFinite ==
    ASSUME NEW s \in Seq(Signals)
    PROVE  IsFiniteSet(Ends(s)) /\ Cardinality(Ends(s)) \in Nat
<1>1. DOMAIN s = 1..Len(s) /\ Len(s) \in Nat
  <2> HIDE DEF Signals
  <2> QED
    OBVIOUS
<1>2. IsFiniteSet(1..Len(s))
  BY <1>1, FS_Interval
<1>3. Ends(s) \in SUBSET (1..Len(s))
  BY <1>1 DEF Ends
<1> QED
  BY <1>2, <1>3, FS_Subset, FS_CardinalityType

\* The first signal leaves the queue.
LEMMA SignalsTail ==
    ASSUME NEW s \in Seq(Signals), s # <<>>
    PROVE  LET t == Tail(s)
               behind(S) == {i \in DOMAIN t : i + 1 \in S}
           IN  /\ \A i \in DOMAIN t : i \in Nat /\ i + 1 \in DOMAIN s /\ t[i] = s[i + 1]
               /\ \A i \in DOMAIN s : i \in Nat /\ (i = 1 \/ i - 1 \in DOMAIN t)
               /\ s[1] = Head(s)
               /\ 1 \in DOMAIN s /\ 0 \notin DOMAIN t
               /\ Ends(t) = behind(Ends(s)) /\ Failed(t) = behind(Failed(s))
               /\ Cardinality(Ends(s)) =
                    Cardinality(Ends(t)) + IF Head(s).signal = "uploadFinished" THEN 1 ELSE 0
<1> HIDE DEF Signals
<1> DEFINE t == Tail(s)
           behind(S) == {i \in DOMAIN t : i + 1 \in S}
<1>1. /\ DOMAIN s = 1..Len(s) /\ Len(s) \in Nat /\ Len(s) # 0 /\ t \in Seq(Signals)
      /\ DOMAIN t = 1..(Len(s) - 1) /\ \A i \in 1..(Len(s) - 1) : t[i] = s[i + 1]
      /\ Head(s) = s[1]
  OBVIOUS
<1> HIDE DEF t
<1>2. /\ \A i \in DOMAIN t : i \in Nat /\ i + 1 \in DOMAIN s /\ t[i] = s[i + 1]
      /\ \A i \in DOMAIN s : i \in Nat /\ (i = 1 \/ i - 1 \in DOMAIN t)
      /\ 1 \in DOMAIN s /\ 0 \notin DOMAIN t
  BY <1>1
<1>3. Ends(t) = behind(Ends(s)) /\ Failed(t) = behind(Failed(s))
  BY <1>2 DEF Ends, Failed
<1>4. Ends(s) \ {1} = {i + 1 : i \in Ends(t)}
  <2>1. ASSUME NEW i \in Ends(s), i # 1 PROVE i - 1 \in Ends(t) /\ i = (i - 1) + 1
    BY <1>2, <2>1 DEF Ends
  <2>2. ASSUME NEW i \in Ends(t) PROVE i + 1 \in Ends(s) /\ i + 1 # 1
    BY <1>2, <2>2 DEF Ends
  <2> QED
    BY <2>1, <2>2
<1>5. Cardinality(Ends(s) \ {1}) = Cardinality(Ends(t))
  <2> DEFINE f == [i \in Ends(t) |-> i + 1]
  <2>1. Ends(t) \subseteq Nat
    BY <1>2 DEF Ends
  <2>2. f \in Bijection(Ends(t), Ends(s) \ {1})
    <3>1. f \in [Ends(t) -> Ends(s) \ {1}]
      BY <1>4
    <3>2. \A i, j \in Ends(t) : f[i] = f[j] => i = j
      BY <2>1
    <3>3. \A k \in Ends(s) \ {1} : \E i \in Ends(t) : f[i] = k
      BY <1>4
    <3> HIDE DEF f
    <3> QED
      BY <3>1, <3>2, <3>3 DEF Bijection, Injection, Surjection, IsInjective
  <2> QED
    BY <1>1, <2>2, EndsAreFinite, FS_Bijection DEF ExistsBijection
<1>6. 1 \in Ends(s) <=> Head(s).signal = "uploadFinished"
  BY <1>1, <1>2 DEF Ends
<1>7. Cardinality(Ends(s)) =
        Cardinality(Ends(t)) + IF Head(s).signal = "uploadFinished" THEN 1 ELSE 0
  <2>1. IsFiniteSet(Ends(s)) /\ Cardinality(Ends(s)) \in Nat /\ Cardinality(Ends(t)) \in Nat
    BY <1>1, EndsAreFinite
  <2>2. Cardinality(Ends(s) \ {1}) = IF 1 \in Ends(s) THEN Cardinality(Ends(s)) - 1
                                                      ELSE Cardinality(Ends(s))
    BY <2>1, FS_RemoveElement
  <2> QED
    BY <1>5, <1>6, <2>1, <2>2
<1> QED
  BY <1>1, <1>2, <1>3, <1>7 DEF t

LEMMA MineAreFinite ==
    /\ IsFiniteSet(Mine) /\ Cardinality(Mine) \in Nat
    /\ IsFiniteSet(Ended) /\ Cardinality(Ended) \in Nat
    /\ Cardinality(Ended) <= Cardinality(Mine)
    /\ Cardinality(Ended) = Cardinality(Mine) => Ended = Mine
<1>1. IsFiniteSet(Workers)
  <2>1. IsFiniteSet(1..MaxUploads)
    BY UploadAssumption, FS_Interval
  <2> QED
    BY <2>1, UploadAssumption, FS_Product DEF Workers
<1>2. Mine \in SUBSET Workers /\ Ended \in SUBSET Mine
  BY DEF Mine, Ended
<1>3. IsFiniteSet(Mine) /\ IsFiniteSet(Ended)
  BY <1>1, <1>2, FS_Subset
<1> QED
  BY <1>2, <1>3, FS_Subset, FS_CardinalityType

-----------------------------------------------------------------------------
(* The steps. *)

InHand(pc) == pc \in {"waiting", "uploading"}

\* Steps that tell the coordinator nothing and end no worker.
LEMMA ActiveFrame ==
    ASSUME TypeOK, ActiveInv,
           UNCHANGED <<events, failures, m_FtpInfo, coordinatorVars, uploads>>,
           attended' /\ m_IsInProgress' => attended /\ m_IsInProgress,
           \A w \in Workers :
              /\ worker'[w].pc = "none" <=> worker[w].pc = "none"
              /\ InHand(worker'[w].pc) <=> InHand(worker[w].pc)
              /\ worker[w].pc = "uploading" => worker'[w].pc = "uploading"
              /\ InHand(worker[w].pc) => worker'[w].anyErrors = worker[w].anyErrors
    PROVE  ActiveInv'
<1> SUFFICES ASSUME attended', m_IsInProgress' PROVE ActiveInv'
  BY DEF ActiveInv
<1>1. Mine' = Mine /\ Ended' = Ended /\ Uploading' = Uploading
  BY DEF Mine, Ended, Uploading, InHand
<1>2. \A w \in Uploading : worker'[w].anyErrors = worker[w].anyErrors
  BY DEF Uploading, InHand
<1>3. Ends(events)' = Ends(events) /\ Failed(events)' = Failed(events)
  BY DEF Ends, Failed
<1>4. \A i \in Failed(events) :
        worker[<<uploads, events[i].failure[1]>>].pc = "uploading"
          => worker'[<<uploads, events[i].failure[1]>>].pc = "uploading"
  <2> SUFFICES ASSUME NEW i \in Failed(events)
               PROVE  <<uploads, events[i].failure[1]>> \in Workers
    OBVIOUS
  <2> QED
    BY InFailure DEF ActiveInv, Workers
<1> QED
  BY <1>1, <1>2, <1>3, <1>4 DEF ActiveInv, coordinatorVars

LEMMA StartActive ==
    ASSUME TypeOK, UnusedInv, NEW hosts \in SUBSET Hosts, StartUpload(hosts)
    PROVE  ActiveInv'
<1> SUFFICES ASSUME attended' PROVE ActiveInv'
  BY DEF ActiveInv
<1> DEFINE new == [NoWorker EXCEPT !.pc = "waiting", !.left = m_ArtworksSnapshot]
<1>0. new.pc = "waiting" /\ new.anyErrors = FALSE
  BY DEF NoWorker
<1>1. /\ Uploading = {} /\ events' = <<>> /\ uploads' = uploads + 1
      /\ m_AllWorkersCount' = Cardinality(hosts) /\ m_FinishedWorkersCount' = 0
      /\ m_AnyFailed' = FALSE /\ failures' = {} /\ m_FtpInfo' = {}
      /\ uploads' \in 1..MaxUploads
      /\ worker' = [w \in Workers |->
                      IF w[1] = uploads + 1 /\ w[2] \in hosts THEN new ELSE worker[w]]
  BY UploadAssumption DEF StartUpload, InitUpload, TypeOK
<1> HIDE DEF new
<1>2. \A w \in Workers : w[1] = uploads + 1 => worker[w].pc = "none"
  BY UploadAssumption DEF UnusedInv, TypeOK, Workers
<1>3. Mine' = {uploads + 1} \X hosts
  BY <1>0, <1>1, <1>2 DEF Mine, Workers
<1>4. Ended' = {} /\ Uploading' = {uploads + 1} \X hosts
  BY <1>0, <1>1, <1>2, <1>3 DEF Ended, Uploading, Workers
<1>5. Ends(events)' = {} /\ Failed(events)' = {}
  BY <1>1 DEF Ends, Failed
<1>6. Cardinality(Mine') = Cardinality(hosts)
  <2> DEFINE f == [h \in hosts |-> <<uploads + 1, h>>]
  <2>1. f \in Bijection(hosts, {uploads + 1} \X hosts)
    <3>1. f \in [hosts -> {uploads + 1} \X hosts]
      OBVIOUS
    <3>2. \A g, h \in hosts : f[g] = f[h] => g = h
      OBVIOUS
    <3>3. \A w \in {uploads + 1} \X hosts : \E h \in hosts : f[h] = w
      OBVIOUS
    <3> HIDE DEF f
    <3> QED
      BY <3>1, <3>2, <3>3 DEF Bijection, Injection, Surjection, IsInjective
  <2>2. IsFiniteSet(hosts)
    BY UploadAssumption, FS_Subset
  <2> QED
    BY <1>3, <2>1, <2>2, FS_Bijection DEF ExistsBijection
<1>7. /\ \A w \in Uploading' : w[1] = uploads' /\ worker'[w].anyErrors = FALSE
  BY <1>0, <1>1, <1>4 DEF Workers, Uploading
<1>8. Cardinality(Ends(events)') + m_FinishedWorkersCount' = Cardinality(Ended')
  <2>1. Cardinality(Ends(events)') = 0 /\ Cardinality(Ended') = 0
    BY <1>4, <1>5, FS_EmptySet
  <2> QED
    BY <1>1, <2>1
<1> QED
  BY <1>1, <1>5, <1>6, <1>7, <1>8 DEF ActiveInv

LEMMA FailsActive ==
    ASSUME TypeOK, ActiveInv, NEW w \in Workers, NEW f \in Files, TransferFails(w, f)
    PROVE  ActiveInv'
<1> SUFFICES ASSUME attended', m_IsInProgress' PROVE ActiveInv'
  BY DEF ActiveInv
<1> DEFINE e == [signal |-> "transferFailed", failure |-> <<w[2], f>>]
<1>0. /\ attended /\ m_IsInProgress
      /\ UNCHANGED <<m_FtpInfo, coordinatorVars, uploads>>
      /\ worker[w].pc = "uploading" /\ events' = Append(events, e)
      /\ worker' = [worker EXCEPT ![w].left = @ \ {f}, ![w].anyErrors = TRUE]
      /\ failures' = IF w[1] = uploads THEN failures \cup {<<w[2], f>>} ELSE failures
  BY DEF TransferFails, mainVars, uploaderVars
<1>1. w \in Uploading /\ w[1] = uploads /\ w = <<uploads, w[2]>> /\ w[2] \in Hosts
  BY <1>0 DEF Uploading, ActiveInv, Workers
<1>2. e \in Signals /\ e.signal = "transferFailed" /\ e.failure = <<w[2], f>>
  BY <1>1 DEF Signals, Failure
<1> HIDE DEF e
<1>3. /\ Ends(events)' = Ends(events)
      /\ Failed(events)' = Failed(events) \cup {Len(events) + 1}
      /\ events'[Len(events) + 1] = e /\ \A i \in DOMAIN events : events'[i] = events[i]
      /\ Len(events) + 1 \notin DOMAIN events
  <2> events \in Seq(Signals)
    BY DEF TypeOK
  <2> QED
    BY <1>0, <1>2, SignalsAppend DEF Ends, Failed
<1>4. /\ worker'[w].pc = "uploading" /\ worker'[w].anyErrors = TRUE
      /\ \A v \in Workers : v # w => worker'[v] = worker[v]
  BY <1>0 DEF TypeOK, WorkerState
<1>5. Mine' = Mine /\ Ended' = Ended /\ Uploading' = Uploading
  BY <1>0, <1>4 DEF Mine, Ended, Uploading
<1>6. failures' = m_FtpInfo' \cup {events'[i].failure : i \in Failed(events)'}
  <2>1. failures' = failures \cup {<<w[2], f>>}
    BY <1>0, <1>1
  <2>2. {events'[i].failure : i \in Failed(events)'}
          = {events[i].failure : i \in Failed(events)} \cup {<<w[2], f>>}
    <3>1. \A i \in Failed(events) : events'[i] = events[i]
      BY <1>3 DEF Failed
    <3>2. events'[Len(events) + 1].failure = <<w[2], f>>
      BY <1>2, <1>3
    <3> QED
      BY <1>3, <3>1, <3>2
  <2> QED
    BY <1>0, <2>1, <2>2 DEF ActiveInv
<1>7. failures' # {} /\ \E v \in Uploading' : worker'[v].anyErrors
  BY <1>0, <1>1, <1>4, <1>5
<1>8. \A i \in Failed(events)' :
        \/ \E j \in Ends(events)' : i < j
        \/ worker'[<<uploads', events'[i].failure[1]>>].pc = "uploading"
  <2>1. CASE TRUE
    <3> SUFFICES ASSUME NEW i \in Failed(events)'
                 PROVE  \/ \E j \in Ends(events)' : i < j
                        \/ worker'[<<uploads', events'[i].failure[1]>>].pc = "uploading"
      OBVIOUS
    <3>1. CASE i = Len(events) + 1
      <4>1. events'[i].failure[1] = w[2]
        BY <1>2, <1>3, <3>1
      <4> QED
        BY <1>0, <1>1, <1>4, <4>1
    <3>2. CASE i \in Failed(events)
      <4>1. events'[i] = events[i]
        BY <1>3, <3>2 DEF Failed
      <4>2. <<uploads, events[i].failure[1]>> \in Workers
        BY <1>0, <3>2, InFailure DEF ActiveInv, Workers
      <4>3. \/ \E j \in Ends(events) : i < j
            \/ worker[<<uploads, events[i].failure[1]>>].pc = "uploading"
        BY <1>0, <3>2 DEF ActiveInv
      <4> QED
        BY <1>0, <1>3, <1>4, <4>1, <4>2, <4>3
    <3> QED
      BY <1>3, <3>1, <3>2
  <2> QED
    BY <2>1
<1> QED
  BY <1>0, <1>3, <1>5, <1>6, <1>7, <1>8 DEF ActiveInv, coordinatorVars

LEMMA FinishActive ==
    ASSUME TypeOK, ActiveInv, NEW w \in Workers, FinishBatch(w)
    PROVE  ActiveInv'
<1> SUFFICES ASSUME attended', m_IsInProgress' PROVE ActiveInv'
  BY DEF ActiveInv
<1> DEFINE e == [signal |-> "uploadFinished", anyErrors |-> worker[w].anyErrors]
<1>0. /\ attended /\ m_IsInProgress
      /\ UNCHANGED <<m_FtpInfo, coordinatorVars, uploads, failures>>
      /\ worker[w].pc = "uploading" /\ events' = Append(events, e)
      /\ worker' = [worker EXCEPT ![w].pc = "finished"]
  BY DEF FinishBatch, mainVars, uploaderVars
<1>1. w \in Uploading /\ w[1] = uploads
  BY <1>0 DEF Uploading, ActiveInv, Workers
<1>2. e \in Signals /\ e.signal = "uploadFinished" /\ e.anyErrors = worker[w].anyErrors
  BY DEF Signals, TypeOK, WorkerState
<1> HIDE DEF e
<1>3. /\ Ends(events)' = Ends(events) \cup {Len(events) + 1}
      /\ Failed(events)' = Failed(events)
      /\ events'[Len(events) + 1] = e /\ \A i \in DOMAIN events : events'[i] = events[i]
      /\ Len(events) + 1 \notin Ends(events)
      /\ \A i \in Failed(events) : i < Len(events) + 1
      /\ IsFiniteSet(Ends(events)) /\ Cardinality(Ends(events)) \in Nat
  <2> events \in Seq(Signals)
    BY DEF TypeOK
  <2> QED
    BY <1>0, <1>2, SignalsAppend, EndsAreFinite DEF Ends, Failed
<1>4. /\ worker'[w].pc = "finished"
      /\ \A v \in Workers : v # w => worker'[v] = worker[v]
  BY <1>0 DEF TypeOK, WorkerState
<1>5. /\ Mine' = Mine /\ Ended' = Ended \cup {w} /\ w \notin Ended
      /\ Uploading' = Uploading \ {w}
  BY <1>0, <1>1, <1>4 DEF Mine, Ended, Uploading
<1>6. failures' = m_FtpInfo' \cup {events'[i].failure : i \in Failed(events)'}
  <2>1. {events'[i].failure : i \in Failed(events)'} = {events[i].failure : i \in Failed(events)}
    BY <1>3 DEF Failed
  <2> QED
    BY <1>0, <2>1 DEF ActiveInv
<1>7. Cardinality(Ends(events)') + m_FinishedWorkersCount' = Cardinality(Ended')
  <2>1. Cardinality(Ended') = Cardinality(Ended) + 1
    BY <1>5, MineAreFinite, FS_AddElement
  <2>2. Cardinality(Ends(events)') = Cardinality(Ends(events)) + 1
    BY <1>3, FS_AddElement
  <2>3. /\ m_FinishedWorkersCount' = m_FinishedWorkersCount /\ m_FinishedWorkersCount \in Nat
        /\ Cardinality(Ends(events)) + m_FinishedWorkersCount = Cardinality(Ended)
    BY <1>0 DEF ActiveInv, TypeOK, coordinatorVars
  <2> QED
    BY <1>3, <2>1, <2>2, <2>3
<1>8. failures' # {} <=>
        \/ m_AnyFailed'
        \/ \E i \in Ends(events)' : events'[i].anyErrors
        \/ \E v \in Uploading' : worker'[v].anyErrors
  <2>1. failures # {} <=>
          \/ m_AnyFailed
          \/ \E i \in Ends(events) : events[i].anyErrors
          \/ \E v \in Uploading : worker[v].anyErrors
    BY <1>0 DEF ActiveInv
  <2>2. (\E v \in Uploading : worker[v].anyErrors)
          <=> worker[w].anyErrors \/ \E v \in Uploading' : worker'[v].anyErrors
    BY <1>1, <1>4, <1>5 DEF Uploading
  <2>3. (\E i \in Ends(events)' : events'[i].anyErrors)
          <=> worker[w].anyErrors \/ \E i \in Ends(events) : events[i].anyErrors
    BY <1>2, <1>3 DEF Ends
  <2> QED
    BY <1>0, <2>1, <2>2, <2>3 DEF coordinatorVars
<1>9. \A i \in Failed(events)' : \E j \in Ends(events)' : i < j
  BY <1>3
<1>10. \A v \in Uploading' : v[1] = uploads'
  BY <1>0, <1>5 DEF ActiveInv
<1> QED
  BY <1>0, <1>5, <1>6, <1>7, <1>8, <1>9, <1>10 DEF ActiveInv, coordinatorVars

LEMMA HandleActive ==
    ASSUME TypeOK, ActiveInv, HandleEvent
    PROVE  ActiveInv'
<1> SUFFICES ASSUME attended', m_IsInProgress' PROVE ActiveInv'
  BY DEF ActiveInv
<1>0. /\ events \in Seq(Signals) /\ events # <<>> /\ events' = Tail(events)
      /\ UNCHANGED <<m_AllWorkersCount, worker, uploads, failures>>
      /\ attended
  BY DEF HandleEvent, TypeOK
<1>1. m_IsInProgress
  BY DEF HandleEvent, WorkerFinished, ReportUploadError
<1>2. Mine' = Mine /\ Ended' = Ended /\ Uploading' = Uploading
  BY <1>0 DEF Mine, Ended, Uploading
<1>3. /\ \A i \in DOMAIN events' : i \in Nat /\ i + 1 \in DOMAIN events /\ events'[i] = events[i + 1]
      /\ \A i \in DOMAIN events : i \in Nat /\ (i = 1 \/ i - 1 \in DOMAIN events')
      /\ events[1] = Head(events) /\ 1 \in DOMAIN events /\ 0 \notin DOMAIN events'
      /\ Ends(events)' = {i \in DOMAIN events' : i + 1 \in Ends(events)}
      /\ Failed(events)' = {i \in DOMAIN events' : i + 1 \in Failed(events)}
      /\ Cardinality(Ends(events)) = Cardinality(Ends(events)')
           + IF Head(events).signal = "uploadFinished" THEN 1 ELSE 0
  <2>1. Ends(events)' = Ends(events') /\ Failed(events)' = Failed(events')
    BY DEF Ends, Failed
  <2> QED
    BY <1>0, <2>1, SignalsTail
<1>4. \A i \in Failed(events)' :
        \/ \E j \in Ends(events)' : i < j
        \/ worker'[<<uploads', events'[i].failure[1]>>].pc = "uploading"
  <2> SUFFICES ASSUME NEW i \in Failed(events)'
               PROVE  \/ \E j \in Ends(events)' : i < j
                      \/ worker'[<<uploads', events'[i].failure[1]>>].pc = "uploading"
    OBVIOUS
  <2>1. i + 1 \in Failed(events) /\ events'[i] = events[i + 1] /\ i \in Nat
    BY <1>3
  <2>2. \/ \E j \in Ends(events) : i + 1 < j
        \/ worker[<<uploads, events[i + 1].failure[1]>>].pc = "uploading"
    BY <1>0, <1>1, <2>1 DEF ActiveInv
  <2>3. ASSUME NEW j \in Ends(events), i + 1 < j PROVE j - 1 \in Ends(events)' /\ i < j - 1
    <3>1. j \in DOMAIN events /\ j \in Nat
      BY <1>3 DEF Ends
    <3>2. j - 1 \in DOMAIN events' /\ (j - 1) + 1 = j
      BY <1>3, <2>1, <2>3, <3>1
    <3> QED
      BY <1>3, <2>1, <2>3, <3>1, <3>2
  <2> QED
    BY <1>0, <2>1, <2>2, <2>3
<1>5. CASE Head(events).signal = "uploadFinished"
  <2>1. WorkerFinished(Head(events).anyErrors)
    BY <1>5 DEF HandleEvent
  <2>2. /\ m_AnyFailed' = (m_AnyFailed \/ Head(events).anyErrors)
        /\ m_FinishedWorkersCount' = m_FinishedWorkersCount + 1 /\ m_FtpInfo' = m_FtpInfo
    BY <2>1 DEF WorkerFinished, AccumulateFailure
  <2>3. Cardinality(Ends(events)') + m_FinishedWorkersCount' = Cardinality(Ended')
    <3>1. Cardinality(Ends(events)') \in Nat
      <4>1. events' \in Seq(Signals)
        BY <1>0, FirstSignal
      <4> QED
        BY <4>1, EndsAreFinite DEF Ends
    <3>2. /\ Cardinality(Ends(events)) + m_FinishedWorkersCount = Cardinality(Ended)
          /\ m_FinishedWorkersCount \in Nat
      BY <1>0, <1>1 DEF ActiveInv, TypeOK
    <3> QED
      BY <1>2, <1>3, <1>5, <2>2, <3>1, <3>2
  <2>4. 1 \notin Failed(events) /\ 1 \in Ends(events)
    BY <1>3, <1>5 DEF Failed, Ends
  <2>5. {events'[i].failure : i \in Failed(events)'} = {events[i].failure : i \in Failed(events)}
    <3>1. \A i \in Failed(events)' : i + 1 \in Failed(events) /\ events'[i] = events[i + 1]
      BY <1>3
    <3>2. \A i \in Failed(events) : i - 1 \in Failed(events)' /\ events'[i - 1] = events[i]
      <4> SUFFICES ASSUME NEW i \in Failed(events)
                   PROVE  i - 1 \in Failed(events)' /\ events'[i - 1] = events[i]
        OBVIOUS
      <4>1. i \in DOMAIN events /\ i # 1
        BY <2>4 DEF Failed
      <4>2. i \in Nat /\ i - 1 \in DOMAIN events' /\ (i - 1) + 1 = i
        BY <1>3, <4>1
      <4> QED
        BY <1>3, <4>2
    <3> QED
      BY <3>1, <3>2
  <2>6. (\E i \in Ends(events) : events[i].anyErrors)
          <=> Head(events).anyErrors \/ \E i \in Ends(events)' : events'[i].anyErrors
    <3>1. \A i \in Ends(events)' : i + 1 \in Ends(events) /\ events'[i] = events[i + 1]
      BY <1>3
    <3>2. \A i \in Ends(events) : i = 1 \/ (i - 1 \in Ends(events)' /\ events'[i - 1] = events[i])
      <4> SUFFICES ASSUME NEW i \in Ends(events), i # 1
                   PROVE  i - 1 \in Ends(events)' /\ events'[i - 1] = events[i]
        OBVIOUS
      <4>1. i \in DOMAIN events
        BY DEF Ends
      <4>2. i \in Nat /\ i - 1 \in DOMAIN events' /\ (i - 1) + 1 = i
        BY <1>3, <4>1
      <4> QED
        BY <1>3, <4>2
    <3> QED
      BY <1>3, <2>4, <3>1, <3>2
  <2>7. /\ uploads \in 1..MaxUploads
        /\ \A w \in Uploading : w[1] = uploads
        /\ m_AllWorkersCount = Cardinality(Mine)
        /\ failures = m_FtpInfo \cup {events[i].failure : i \in Failed(events)}
        /\ failures # {} <=>
             \/ m_AnyFailed
             \/ \E i \in Ends(events) : events[i].anyErrors
             \/ \E w \in Uploading : worker[w].anyErrors
    BY <1>0, <1>1 DEF ActiveInv
  <2>8. failures' # {} <=>
             \/ m_AnyFailed'
             \/ \E i \in Ends(events)' : events'[i].anyErrors
             \/ \E w \in Uploading' : worker'[w].anyErrors
    BY <1>0, <1>2, <2>2, <2>6, <2>7
  <2> QED
    BY <1>0, <1>2, <1>4, <2>2, <2>3, <2>5, <2>7, <2>8 DEF ActiveInv
<1>6. CASE Head(events).signal = "transferFailed"
  <2>1. ReportUploadError(Head(events).failure)
    BY <1>6 DEF HandleEvent
  <2>2. /\ m_FtpInfo' = m_FtpInfo \cup {Head(events).failure}
        /\ m_AnyFailed' = m_AnyFailed /\ m_FinishedWorkersCount' = m_FinishedWorkersCount
    BY <2>1 DEF ReportUploadError, coordinatorVars
  <2>3. Cardinality(Ends(events)') = Cardinality(Ends(events))
    <3>1. Cardinality(Ends(events)') \in Nat
      <4>1. events' \in Seq(Signals)
        BY <1>0, FirstSignal
      <4> QED
        BY <4>1, EndsAreFinite DEF Ends
    <3> QED
      BY <1>3, <1>6, <3>1
  <2>4. 1 \in Failed(events) /\ 1 \notin Ends(events)
    BY <1>3, <1>6 DEF Failed, Ends
  <2>5. {Head(events).failure} \cup {events'[i].failure : i \in Failed(events)'}
          = {events[i].failure : i \in Failed(events)}
    <3>1. \A i \in Failed(events)' : i + 1 \in Failed(events) /\ events'[i] = events[i + 1]
      BY <1>3
    <3>2. \A i \in Failed(events) :
            i = 1 \/ (i - 1 \in Failed(events)' /\ events'[i - 1] = events[i])
      <4> SUFFICES ASSUME NEW i \in Failed(events), i # 1
                   PROVE  i - 1 \in Failed(events)' /\ events'[i - 1] = events[i]
        OBVIOUS
      <4>1. i \in DOMAIN events
        BY DEF Failed
      <4>2. i \in Nat /\ i - 1 \in DOMAIN events' /\ (i - 1) + 1 = i
        BY <1>3, <4>1
      <4> QED
        BY <1>3, <4>2
    <3> QED
      BY <1>3, <2>4, <3>1, <3>2
  <2>6. (\E i \in Ends(events) : events[i].anyErrors)
          <=> \E i \in Ends(events)' : events'[i].anyErrors
    <3>1. \A i \in Ends(events)' : i + 1 \in Ends(events) /\ events'[i] = events[i + 1]
      BY <1>3
    <3>2. \A i \in Ends(events) : i - 1 \in Ends(events)' /\ events'[i - 1] = events[i]
      <4> SUFFICES ASSUME NEW i \in Ends(events)
                   PROVE  i - 1 \in Ends(events)' /\ events'[i - 1] = events[i]
        OBVIOUS
      <4>1. i \in DOMAIN events /\ i # 1
        BY <2>4 DEF Ends
      <4>2. i \in Nat /\ i - 1 \in DOMAIN events' /\ (i - 1) + 1 = i
        BY <1>3, <4>1
      <4> QED
        BY <1>3, <4>2
    <3> QED
      BY <3>1, <3>2
  <2>7. /\ uploads \in 1..MaxUploads
        /\ \A w \in Uploading : w[1] = uploads
        /\ m_AllWorkersCount = Cardinality(Mine)
        /\ Cardinality(Ends(events)) + m_FinishedWorkersCount = Cardinality(Ended)
        /\ failures = m_FtpInfo \cup {events[i].failure : i \in Failed(events)}
        /\ failures # {} <=>
             \/ m_AnyFailed
             \/ \E i \in Ends(events) : events[i].anyErrors
             \/ \E w \in Uploading : worker[w].anyErrors
    BY <1>0, <1>1 DEF ActiveInv
  <2>8. failures' = m_FtpInfo' \cup {events'[i].failure : i \in Failed(events)'}
    BY <1>0, <2>2, <2>5, <2>7
  <2>9. failures' # {} <=>
             \/ m_AnyFailed'
             \/ \E i \in Ends(events)' : events'[i].anyErrors
             \/ \E w \in Uploading' : worker'[w].anyErrors
    BY <1>0, <1>2, <2>2, <2>6, <2>7
  <2> QED
    BY <1>0, <1>2, <1>4, <2>2, <2>3, <2>7, <2>8, <2>9 DEF ActiveInv
<1> QED
  BY <1>5, <1>6 DEF HandleEvent

LEMMA ActiveStep ==
    ASSUME TypeOK, UnusedInv, ActiveInv, [Next]_vars
    PROVE  ActiveInv'
<1>0. worker \in [Workers -> WorkerState]
  BY DEF TypeOK
<1>1. ASSUME \E hosts \in SUBSET Hosts : StartUpload(hosts) PROVE ActiveInv'
  BY <1>1, StartActive
<1>2. CASE HandleEvent
  BY <1>2, HandleActive
<1>3. CASE CancelOperation
  <2>1. \A w \in Workers : worker'[w].pc = worker[w].pc
                           /\ worker'[w].anyErrors = worker[w].anyErrors
    BY <1>0, <1>3 DEF CancelOperation, WorkerState
  <2> QED
    BY <1>3, <2>1, ActiveFrame DEF CancelOperation, uploaderVars
<1>4. ASSUME worker' = worker, UNCHANGED <<events, failures, m_FtpInfo, coordinatorVars, uploads>>,
             attended' /\ m_IsInProgress' => attended /\ m_IsInProgress
      PROVE  ActiveInv'
  BY <1>4, ActiveFrame
<1>5. ASSUME ~m_IsInProgress' PROVE ActiveInv'
  BY <1>5 DEF ActiveInv
<1>6. ASSUME NEW f \in Files, FileLost(f) PROVE ActiveInv'
  <2>1. CASE attended' /\ m_IsInProgress'
    BY <1>4, <1>6, <2>1 DEF FileLost
  <2>2. CASE ~(attended' /\ m_IsInProgress')
    BY <2>2 DEF ActiveInv
  <2> QED
    BY <2>1, <2>2
<1>7. ASSUME NEW w \in Workers,
             \/ Acquire(w) \/ ProcessEvents(w) \/ Release(w)
             \/ \E f \in Files : TransferFile(w, f)
      PROVE  ActiveInv'
  <2>1. UNCHANGED <<events, failures, m_FtpInfo, coordinatorVars, uploads, attended, m_IsInProgress>>
    BY <1>7 DEF Acquire, ProcessEvents, Release, TransferFile, mainVars, uploaderVars
  <2>2. /\ worker'[w].pc # "none" /\ worker[w].pc # "none"
        /\ InHand(worker'[w].pc) <=> InHand(worker[w].pc)
        /\ worker[w].pc = "uploading" => worker'[w].pc = "uploading"
        /\ InHand(worker[w].pc) => worker'[w].anyErrors = worker[w].anyErrors
        /\ \A v \in Workers : v # w => worker'[v] = worker[v]
    <3>1. CASE Acquire(w)
      BY <1>0, <3>1 DEF Acquire, WorkerState, InHand
    <3>2. CASE ProcessEvents(w)
      BY <1>0, <3>2 DEF ProcessEvents, WorkerState, InHand
    <3>3. CASE Release(w)
      BY <1>0, <3>3 DEF Release, WorkerState, InHand, NoWorker
    <3>4. CASE \E f \in Files : TransferFile(w, f)
      BY <1>0, <3>4 DEF TransferFile, WorkerState, InHand
    <3> QED
      BY <1>7, <3>1, <3>2, <3>3, <3>4
  <2> QED
    BY <2>1, <2>2, ActiveFrame
<1>8. ASSUME NEW w \in Workers, FinishBatch(w) \/ \E f \in Files : TransferFails(w, f)
      PROVE  ActiveInv'
  BY <1>8, FinishActive, FailsActive
<1>9. ASSUME NEW artworks, NEW skip, SetupUpload(artworks, skip) PROVE ActiveInv'
  BY <1>5, <1>9 DEF SetupUpload
<1>10. CASE CloseDialog
  BY <1>5, <1>10 DEF CloseDialog
<1>11. CASE AskToAbort \/ KeepUploading \/ UNCHANGED vars
  BY <1>4, <1>11 DEF AskToAbort, KeepUploading, vars, uploaderVars
<1> QED
  BY <1>1, <1>2, <1>3, <1>6, <1>7, <1>8, <1>9, <1>10, <1>11 DEF Next, WorkerStep

\* The report of the end is the last worker's: nothing of the upload is under way
\* or queued behind it.
LEMMA EndIsTold ==
    ASSUME TypeOK, ActiveInv, Next, ReportsEnd, attended
    PROVE  /\ \A h \in Hosts : worker[<<uploads, h>>].pc \notin {"waiting", "uploading"}
           /\ m_HasErrors' = (failures # {})
           /\ m_FtpInfo = failures
<1>1. HandleEvent
  BY DEF Next, ReportsEnd, SetupUpload, StartUpload, AskToAbort, KeepUploading, CancelOperation,
     CloseDialog, FileLost, WorkerStep, Acquire, TransferFile, TransferFails, FinishBatch,
     ProcessEvents, Release, mainVars, uploaderVars
<1>2. /\ Head(events).signal = "uploadFinished"
      /\ m_FinishedWorkersCount + 1 = m_AllWorkersCount
      /\ m_HasErrors' = (m_AnyFailed \/ Head(events).anyErrors)
  BY <1>1 DEF HandleEvent, WorkerFinished, AccumulateFailure, ReportUploadError, ReportsEnd
<1>3. events \in Seq(Signals) /\ events # <<>> /\ m_IsInProgress
  BY <1>1 DEF HandleEvent, TypeOK, ReportsEnd
<1>4. /\ 1 \in DOMAIN events /\ events[1] = Head(events)
      /\ \A i \in DOMAIN events : i \in Nat /\ i >= 1
  <2>1. \A i \in DOMAIN events : i \in Nat /\ i # 0
    <3> HIDE DEF Signals
    <3> QED
      BY <1>3
  <2> QED
    BY <1>3, <2>1, SignalsTail
<1>5. 1 \in Ends(events) /\ IsFiniteSet(Ends(events)) /\ Cardinality(Ends(events)) \in Nat
  BY <1>2, <1>3, <1>4, EndsAreFinite DEF Ends
<1>6. /\ m_AllWorkersCount = Cardinality(Mine) /\ m_FinishedWorkersCount \in Nat
      /\ Cardinality(Ends(events)) + m_FinishedWorkersCount = Cardinality(Ended)
      /\ \A w \in Uploading : w[1] = uploads
      /\ uploads \in 1..MaxUploads
  BY <1>3 DEF ActiveInv, TypeOK
<1>7. Cardinality(Ends(events)) >= 1
  BY <1>5, FS_EmptySet
<1>8. Cardinality(Ends(events)) = 1 /\ Ended = Mine
  <2>1. Cardinality(Ended) = Cardinality(Mine)
    BY <1>2, <1>5, <1>6, <1>7, MineAreFinite
  <2> QED
    BY <1>2, <1>5, <1>6, <2>1, MineAreFinite
<1>9. Ends(events) = {1}
  <2>1. PICK x : Ends(events) = {x}
    BY <1>5, <1>8, FS_Singleton
  <2> QED
    BY <1>5, <2>1
<1>10. Uploading = {}
  BY <1>6, <1>8 DEF Ended, Mine, Uploading
<1>11. Failed(events) = {}
  <2> SUFFICES ASSUME NEW i \in Failed(events) PROVE FALSE
    OBVIOUS
  <2>1. i \in Nat /\ i >= 1
    BY <1>4 DEF Failed
  <2>2. <<uploads, events[i].failure[1]>> \in Workers
    BY <1>6, InFailure DEF Workers
  <2>3. \/ \E j \in Ends(events) : i < j
        \/ worker[<<uploads, events[i].failure[1]>>].pc = "uploading"
    BY <1>3 DEF ActiveInv
  <2> QED
    BY <1>9, <1>10, <2>1, <2>2, <2>3 DEF Uploading
<1>12. m_FtpInfo = failures
  BY <1>3, <1>11 DEF ActiveInv
<1>13. m_HasErrors' = (failures # {})
  <2>1. failures # {} <=> m_AnyFailed \/ Head(events).anyErrors
    BY <1>3, <1>4, <1>9, <1>10 DEF ActiveInv
  <2> QED
    BY <1>2, <2>1
<1>14. ASSUME NEW h \in Hosts PROVE worker[<<uploads, h>>].pc \notin {"waiting", "uploading"}
  <2>1. <<uploads, h>> \in Workers
    BY <1>6 DEF Workers
  <2> QED
    BY <1>10, <2>1 DEF Uploading
<1> QED
  BY <1>12, <1>13, <1>14

\* The end of an upload is reported once everything about it is known
\* (FinishTellsAll): the coordinator's count, the failures queued before the end of
\* their worker and the flag that accumulates them fit together for any number of
\* hosts and files.
THEOREM FinishIsTold == Spec => FinishTellsAll
<1>1. Init => ActiveInv
  BY DEF Init, ActiveInv
<1>2. Init => UnusedInv
  BY InitPermits
<1>3. TypeOK /\ UnusedInv /\ ActiveInv /\ [Next]_vars => (UnusedInv /\ ActiveInv)'
  BY NextUnused, ActiveStep
<1>4. TypeOK /\ ActiveInv /\ [Next]_vars =>
        [ReportsEnd /\ attended =>
           /\ \A h \in Hosts : worker[<<uploads, h>>].pc \notin {"waiting", "uploading"}
           /\ m_HasErrors' = (failures # {})
           /\ m_FtpInfo = failures]_vars
  BY EndIsTold
<1> QED
  BY <1>1, <1>2, <1>3, <1>4, TypeCorrect, PTL DEF Spec, FinishTellsAll

=============================================================================
