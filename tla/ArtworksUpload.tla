---------------------------- MODULE ArtworksUpload ----------------------------
(***************************************************************************)
(* Uploading: the dialog (UploadArtworks.qml), the model behind it         *)
(* (ArtworksUploader, UploadWatcher), the coordinator in the main thread   *)
(* (FtpCoordinator) and one thread per host (FtpUploaderWorker with its    *)
(* CurlFtpUploader), of which a semaphore lets a few transfer at a time.   *)
(*                                                                         *)
(* Signals of the workers are queued to the main thread in the order in    *)
(* which they are emitted; cancelAll is queued to the worker threads, that *)
(* look at their queue only after the transfers.  A transfer with its      *)
(* retries is one step; progress, credentials and archives are left out.   *)
(***************************************************************************)
EXTENDS Integers, Sequences, FiniteSets

CONSTANTS
    Hosts,           \* the upload infos
    Files,           \* the artworks
    MaxParallel,     \* SettingsModel::getMaxParallelUploads
    MaxUploads       \* bound: how many uploads are started

ASSUME UploadAssumption ==
    /\ IsFiniteSet(Hosts) /\ IsFiniteSet(Files)
    /\ MaxParallel \in Nat \ {0}
    /\ MaxUploads \in Nat \ {0}

VARIABLES
    dialog,                    \* closed, open, abort (asks whether to abort)
    uploadButtonEnabled,
    m_ArtworksSnapshot, m_IsInProgress, m_HasErrors,
    m_FtpInfo,                 \* the failed transfers the watcher shows
    m_AllWorkersCount, m_FinishedWorkersCount, m_AnyFailed,
    m_UploadSemaphore,         \* permits that are free
    worker,                    \* the worker of each upload and host
    events,                    \* signals queued to the main thread
    uploads,                   \* uploads started so far
    lost,                      \* files that are gone
    failures,                  \* history: transfers of the last upload that failed
    attended                   \* history: the last upload is the only one, and
                               \* its dialog stayed open

uploaderVars == <<m_ArtworksSnapshot, m_IsInProgress, m_HasErrors, m_FtpInfo>>
coordinatorVars == <<m_AllWorkersCount, m_FinishedWorkersCount, m_AnyFailed>>
dialogVars == <<dialog, uploadButtonEnabled>>
vars == <<dialogVars, uploaderVars, coordinatorVars, m_UploadSemaphore, worker,
          events, uploads, lost, failures, attended>>

Workers == (1..MaxUploads) \X Hosts
Failure == Hosts \X Files

WorkerState ==
    [pc : {"none", "waiting", "uploading", "finished", "delivered", "released"},
     left : SUBSET Files, anyErrors : BOOLEAN, cancelPosted : BOOLEAN, m_Cancel : BOOLEAN]

Signals == [signal : {"uploadFinished"}, anyErrors : BOOLEAN]
             \cup [signal : {"transferFailed"}, failure : Failure]

NoWorker == [pc |-> "none", left |-> {}, anyErrors |-> FALSE,
             cancelPosted |-> FALSE, m_Cancel |-> FALSE]

Uploading == {w \in Workers : worker[w].pc \in {"waiting", "uploading"}}

Init ==
    /\ dialog = "closed" /\ uploadButtonEnabled = FALSE
    /\ m_ArtworksSnapshot = {} /\ m_FtpInfo = {}
    /\ m_IsInProgress = FALSE /\ m_HasErrors = FALSE
    /\ m_AllWorkersCount = 0 /\ m_FinishedWorkersCount = 0 /\ m_AnyFailed = FALSE
    /\ m_UploadSemaphore = MaxParallel
    /\ worker = [w \in Workers |-> NoWorker]
    /\ events = <<>> /\ uploads = 0
    /\ lost = {} /\ failures = {} /\ attended = TRUE

-----------------------------------------------------------------------------
(* The main thread. *)

\* SetupUploadCommand: clearModel, and the selected artworks unless the dialog
\* is opened for the hosts only.  Nothing asks whether an upload is running.
SetupUpload(artworks, skipUploadItems) ==
    /\ dialog = "closed"
    /\ dialog' = "open"
    /\ uploadButtonEnabled' = ~skipUploadItems
    /\ m_IsInProgress' = FALSE /\ m_HasErrors' = FALSE /\ m_FtpInfo' = {}
    /\ m_ArtworksSnapshot' = IF skipUploadItems THEN m_ArtworksSnapshot ELSE artworks
    /\ attended' = (attended /\ ~m_IsInProgress)
    /\ UNCHANGED <<coordinatorVars, m_UploadSemaphore, worker, events, uploads,
                   lost, failures>>

InitUpload(count) ==
    /\ m_AnyFailed' = FALSE
    /\ m_AllWorkersCount' = count
    /\ m_FinishedWorkersCount' = 0

\* doStartUpload and uploadArtworks: resets what is shown, starts a thread per
\* selected host, and reports the start.
StartUpload(hosts) ==
    /\ dialog = "open" /\ uploadButtonEnabled /\ ~m_IsInProgress
    /\ uploads < MaxUploads
    /\ m_ArtworksSnapshot # {} /\ hosts # {}
    /\ InitUpload(Cardinality(hosts))
    /\ m_HasErrors' = FALSE /\ m_IsInProgress' = TRUE /\ m_FtpInfo' = {}
    /\ uploads' = uploads + 1
    /\ worker' = [w \in Workers |->
                    IF w[1] = uploads + 1 /\ w[2] \in hosts
                    THEN [NoWorker EXCEPT !.pc = "waiting", !.left = m_ArtworksSnapshot]
                    ELSE worker[w]]
    /\ failures' = {}
    /\ attended' = (Uploading = {} /\ events = <<>>)
    /\ UNCHANGED <<dialogVars, m_ArtworksSnapshot, m_UploadSemaphore, events, lost>>

\* The Stop button asks first; the upload goes on and may end meanwhile.
AskToAbort ==
    /\ dialog = "open" /\ uploadButtonEnabled /\ m_IsInProgress
    /\ dialog' = "abort"
    /\ UNCHANGED <<uploadButtonEnabled, uploaderVars, coordinatorVars, m_UploadSemaphore,
                   worker, events, uploads, lost, failures, attended>>

KeepUploading ==
    /\ dialog = "abort"
    /\ dialog' = "open"
    /\ UNCHANGED <<uploadButtonEnabled, uploaderVars, coordinatorVars, m_UploadSemaphore,
                   worker, events, uploads, lost, failures, attended>>

\* Yes: cancelAll is queued to the threads that are still there.
CancelOperation ==
    /\ dialog = "abort"
    /\ dialog' = "open" /\ uploadButtonEnabled' = FALSE
    /\ worker' = [w \in Workers |->
                    [worker[w] EXCEPT !.cancelPosted = @ \/ worker[w].pc \notin {"none", "released"}]]
    /\ UNCHANGED <<uploaderVars, coordinatorVars, m_UploadSemaphore,
                   events, uploads, lost, failures, attended>>

\* closePopup.
CloseDialog ==
    /\ dialog = "open" /\ ~m_IsInProgress
    /\ dialog' = "closed" /\ uploadButtonEnabled' = FALSE
    /\ m_FtpInfo' = {}
    /\ UNCHANGED <<m_ArtworksSnapshot, m_IsInProgress, m_HasErrors, coordinatorVars,
                   m_UploadSemaphore, worker, events, uploads, lost, failures, attended>>

\* A file disappears and the user acknowledges it: removeUnavailableItems, and
\* the dialog closes when nothing is left, whatever is under way.
FileLost(f) ==
    LET available == m_ArtworksSnapshot \ {f}
        emptied == f \in m_ArtworksSnapshot /\ available = {} /\ dialog # "closed"
    IN  /\ f \notin lost
        /\ lost' = lost \cup {f}
        /\ m_ArtworksSnapshot' = available
        /\ dialog' = IF emptied THEN "closed" ELSE dialog
        /\ uploadButtonEnabled' = (uploadButtonEnabled /\ ~emptied)
        /\ m_FtpInfo' = IF emptied THEN {} ELSE m_FtpInfo
        /\ attended' = (attended /\ ~(emptied /\ m_IsInProgress))
        /\ UNCHANGED <<m_IsInProgress, m_HasErrors, coordinatorVars, m_UploadSemaphore,
                       worker, events, uploads, failures>>

LastFailureWins(anyErrors) == m_AnyFailed' = anyErrors

AccumulateFailure(anyErrors) == m_AnyFailed' = (m_AnyFailed \/ anyErrors)

\* workerFinished and, when it was the last one, allFinished.
WorkerFinished(anyErrors) ==
    /\ AccumulateFailure(anyErrors)
    /\ m_FinishedWorkersCount' = m_FinishedWorkersCount + 1
    /\ IF m_FinishedWorkersCount' = m_AllWorkersCount
       THEN /\ m_HasErrors' = m_AnyFailed'
            /\ m_IsInProgress' = FALSE
            /\ uploadButtonEnabled' = (dialog # "closed")
       ELSE UNCHANGED <<m_HasErrors, m_IsInProgress, uploadButtonEnabled>>
    /\ UNCHANGED m_FtpInfo

\* transferFailed, passed on to the watcher.
ReportUploadError(failure) ==
    /\ m_FtpInfo' = m_FtpInfo \cup {failure}
    /\ UNCHANGED <<coordinatorVars, m_HasErrors, m_IsInProgress, uploadButtonEnabled>>

HandleEvent ==
    /\ events # <<>>
    /\ events' = Tail(events)
    /\ LET e == Head(events)
       IN  \/ e.signal = "uploadFinished" /\ WorkerFinished(e.anyErrors)
           \/ e.signal = "transferFailed" /\ ReportUploadError(e.failure)
    /\ UNCHANGED <<dialog, m_ArtworksSnapshot, m_AllWorkersCount, m_UploadSemaphore,
                   worker, uploads, lost, failures, attended>>

-----------------------------------------------------------------------------
(* The threads of the workers. *)

mainVars == <<dialogVars, uploaderVars, coordinatorVars, uploads, lost, attended>>

\* process, up to the transfers; the uploader it creates is not cancelled.
Acquire(w) ==
    /\ worker[w].pc = "waiting"
    /\ m_UploadSemaphore > 0
    /\ m_UploadSemaphore' = m_UploadSemaphore - 1
    /\ worker' = [worker EXCEPT ![w].pc = "uploading"]
    /\ UNCHANGED <<mainVars, events, failures>>

\* uploadFile succeeded; one that is gone cannot be opened.
TransferFile(w, f) ==
    /\ worker[w].pc = "uploading" /\ ~worker[w].m_Cancel
    /\ f \in worker[w].left \ lost
    /\ worker' = [worker EXCEPT ![w].left = @ \ {f}]
    /\ UNCHANGED <<mainVars, m_UploadSemaphore, events, failures>>

TransferFails(w, f) ==
    /\ worker[w].pc = "uploading" /\ ~worker[w].m_Cancel
    /\ f \in worker[w].left
    /\ worker' = [worker EXCEPT ![w].left = @ \ {f}, ![w].anyErrors = TRUE]
    /\ events' = Append(events, [signal |-> "transferFailed", failure |-> <<w[2], f>>])
    /\ failures' = IF w[1] = uploads THEN failures \cup {<<w[2], f>>} ELSE failures
    /\ UNCHANGED <<mainVars, m_UploadSemaphore>>

FinishBatch(w) ==
    /\ worker[w].pc = "uploading"
    /\ worker[w].left = {} \/ worker[w].m_Cancel
    /\ worker' = [worker EXCEPT ![w].pc = "finished"]
    /\ events' = Append(events, [signal |-> "uploadFinished", anyErrors |-> worker[w].anyErrors])
    /\ UNCHANGED <<mainVars, m_UploadSemaphore, failures>>

\* processEvents after the transfers is the first to deliver a cancellation.
ProcessEvents(w) ==
    /\ worker[w].pc = "finished"
    /\ worker' = [worker EXCEPT ![w].pc = "delivered", ![w].m_Cancel = worker[w].cancelPosted]
    /\ UNCHANGED <<mainVars, m_UploadSemaphore, events, failures>>

ReleaseForgotten(w) ==
    /\ worker[w].pc = "delivered"
    /\ worker' = [worker EXCEPT ![w] = [NoWorker EXCEPT !.pc = "released"]]
    /\ UNCHANGED <<mainVars, m_UploadSemaphore, events, failures>>

\* release, and the end of the thread.
Release(w) ==
    /\ worker[w].pc = "delivered"
    /\ worker' = [worker EXCEPT ![w] = [NoWorker EXCEPT !.pc = "released"]]
    /\ m_UploadSemaphore' = m_UploadSemaphore + 1
    /\ UNCHANGED <<mainVars, events, failures>>

WorkerStep(w) ==
    \/ Acquire(w) \/ FinishBatch(w) \/ ProcessEvents(w) \/ Release(w)
    \/ \E f \in Files : TransferFile(w, f) \/ TransferFails(w, f)

Next ==
    \/ \E artworks \in (SUBSET (Files \ lost)) \ {{}} : SetupUpload(artworks, FALSE)
    \/ SetupUpload({}, TRUE)
    \/ \E hosts \in SUBSET Hosts : StartUpload(hosts)
    \/ AskToAbort \/ KeepUploading \/ CancelOperation \/ CloseDialog \/ HandleEvent
    \/ \E f \in Files : FileLost(f)
    \/ \E w \in Workers : WorkerStep(w)

Spec == Init /\ [][Next]_vars

\* Every transfer ends (curl has time-outs and three attempts), threads run and
\* the event loop delivers.
Fairness ==
    /\ WF_vars(HandleEvent)
    /\ \A w \in Workers : WF_vars(WorkerStep(w))

FairSpec == Spec /\ Fairness

-----------------------------------------------------------------------------
\* The types of the state.
TypeOK ==
    /\ dialog \in {"closed", "open", "abort"}
    /\ uploadButtonEnabled \in BOOLEAN
    /\ m_ArtworksSnapshot \subseteq Files
    /\ m_FtpInfo \subseteq Failure
    /\ m_IsInProgress \in BOOLEAN /\ m_HasErrors \in BOOLEAN
    /\ m_AnyFailed \in BOOLEAN /\ attended \in BOOLEAN
    /\ m_AllWorkersCount \in Nat /\ m_FinishedWorkersCount \in Nat
    /\ m_UploadSemaphore \in Nat
    /\ worker \in [Workers -> WorkerState]
    /\ events \in Seq(Signals)
    /\ uploads \in 0..MaxUploads
    /\ lost \subseteq Files
    /\ failures \subseteq Failure

\* Permits are neither lost nor made, although workers are created, cancelled and
\* forgotten while they hold one: no more hosts transfer at a time than the
\* setting "max parallel uploads" says, and those that wait get their turn.
Holders == {w \in Workers : worker[w].pc \in {"uploading", "finished", "delivered"}}

PermitsAreKept == m_UploadSemaphore + Cardinality(Holders) = MaxParallel

\* An event reports the end of the upload.
ReportsEnd == m_IsInProgress /\ ~m_IsInProgress' /\ events' # events

\* allFinished: when an upload that had the uploader to itself is reported as
\* finished, every host is done with every file, errors are announced exactly
\* if a transfer failed, and the watcher already shows each of them.
FinishTellsAll ==
    [][ReportsEnd /\ attended =>
         /\ \A h \in Hosts : worker[<<uploads, h>>].pc \notin {"waiting", "uploading"}
         /\ m_HasErrors' = (failures # {})
         /\ m_FtpInfo = failures]_vars

\* An upload ends, cancelled or not, with more hosts than the semaphore admits,
\* with transfers that fail, and even under another one.
UploadEnds == m_IsInProgress ~> ~m_IsInProgress

=============================================================================
