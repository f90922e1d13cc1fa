----------------------------- MODULE VideoExport -----------------------------
(***************************************************************************)
(* Export of metadata with exiftool while the video caching worker takes   *)
(* thumbnails of the same files.                                           *)
(*                                                                         *)
(* MetadataIOCoordinator::writeMetadataExifTool marks every artwork as     *)
(* locked for IO, then waits for the worker to be idle, then starts a      *)
(* thread that runs exiftool.  The worker clears its idle event before it  *)
(* looks at the mark; a marked video goes to the end of its queue again.   *)
(* The report of the writing coordinator removes the marks.                *)
(*                                                                         *)
(* The worker queue is that of ItemProcessingWorker without stop and       *)
(* cancellation; what an image looks like and where it is stored are left  *)
(* out.  The user interface is modal during an export.                     *)
(***************************************************************************)
EXTENDS AsyncCoordinator, FiniteSets

CONSTANTS
    Videos,
    Main, Writer,         \* the main thread and the thread of the export
    GoodQualityAllowed,   \* the setting of the thumbnails' quality
    ExiftoolMayHang,      \* exiftool may outlast the time it is given
    MaxExports,           \* bound: exports
    MaxRequests           \* bound: thumbnails asked for

ASSUME ExportAssumption ==
    /\ Main # Writer
    /\ GoodQualityAllowed \in BOOLEAN /\ ExiftoolMayHang \in BOOLEAN
    /\ MaxExports \in Nat \ {0} /\ MaxRequests \in Nat

VARIABLES
    main,             \* where the main thread is in writeMetadataExifTool
    snapshot,         \* the videos being exported
    lockedIO,         \* the videos marked as locked
    exports, requests,\* exports begun, thumbnails asked for
    writer,           \* the export's thread
    orphan,           \* videos a timed out exiftool may still be writing
    queue,            \* the worker's queue of requests
    idle,             \* its idle event
    worker,           \* its thread: [pc, request]
    cached            \* none, fresh, stale: the thumbnail of each video

mainVars == <<main, snapshot, lockedIO, exports, requests>>
writerVars == <<writer, orphan>>
workerVars == <<queue, idle, worker, cached>>
vars == <<m_OpCount, m_StatusReported, m_Timer, lastEnded, emitted,
          main, snapshot, lockedIO, exports, requests, writer, orphan,
          queue, idle, worker, cached>>

Request == [video : Videos, recache : BOOLEAN, quick : BOOLEAN,
            goodAllowed : BOOLEAN, repeated : BOOLEAN]

\* The constructor of VideoCacheRequest, with its parameters in their order.
NewRequest(video, recache, quickThumbnail, withDelay, allowGoodQuality) ==
    [video |-> video, recache |-> recache, quick |-> quickThumbnail,
     goodAllowed |-> allowGoodQuality, repeated |-> FALSE]

Init ==
    /\ CoordinatorInit
    /\ main = "free" /\ snapshot = {} /\ lockedIO = {}
    /\ exports = 0 /\ requests = 0
    /\ writer = "none" /\ orphan = {}
    /\ queue = <<>> /\ idle = FALSE
    /\ worker = [pc |-> "created", request |-> <<>>]
    /\ cached \in [Videos -> {"none", "stale"}]

-----------------------------------------------------------------------------
(* The main thread. *)

\* generateThumbnails: the setting is passed as withDelay and allowGoodQuality
\* is left to its default, false.
GenerateThumbnail(v) ==
    /\ main = "free"
    /\ requests < MaxRequests
    /\ requests' = requests + 1
    /\ queue' = Append(queue, NewRequest(v, FALSE, TRUE, GoodQualityAllowed, FALSE))
    /\ UNCHANGED <<coordinatorVars, main, snapshot, lockedIO, exports, writerVars,
                   idle, worker, cached>>

Export(videos) ==
    /\ main = "free"
    /\ exports < MaxExports
    /\ exports' = exports + 1
    /\ Reset
    /\ main' = "locking"
    /\ snapshot' = videos
    /\ writer' = "none"
    /\ UNCHANGED <<lockedIO, requests, orphan, workerVars>>

\* lockForIO, one artwork after the other.
LockForIO(v) ==
    /\ main = "locking"
    /\ v \in snapshot \ lockedIO
    /\ lockedIO' = lockedIO \cup {v}
    /\ UNCHANGED <<coordinatorVars, main, snapshot, exports, requests, writerVars, workerVars>>

GoOnUnlocked ==
    /\ main = "locking"
    /\ idle
    /\ main' = "idle"
    /\ UNCHANGED <<coordinatorVars, snapshot, lockedIO, exports, requests, writerVars,
                   workerVars>>

\* waitWorkerIdle returns.
WaitWorkerIdle ==
    /\ main = "locking"
    /\ snapshot \subseteq lockedIO
    /\ idle
    /\ main' = "idle"
    /\ UNCHANGED <<coordinatorVars, snapshot, lockedIO, exports, requests, writerVars,
                   workerVars>>

StartUnannounced ==
    /\ main = "idle"
    /\ main' = "begun"
    /\ writer' = "started"
    /\ UNCHANGED <<coordinatorVars, snapshot, lockedIO, exports, requests, orphan, workerVars>>

\* startWriting: AsyncCoordinatorLocker, then the thread.
StartWriting ==
    /\ main = "idle"
    /\ AboutToBegin
    /\ main' = "begun"
    /\ writer' = "started"
    /\ UNCHANGED <<snapshot, lockedIO, exports, requests, orphan, workerVars>>

\* startMetadataWiping begins nothing.
StartMetadataWiping ==
    /\ main = "idle"
    /\ main' = "begun"
    /\ UNCHANGED <<coordinatorVars, snapshot, lockedIO, exports, requests, writerVars,
                   workerVars>>

\* ~AsyncCoordinatorStarter, without a timeout.
AllHaveBegun ==
    /\ main = "begun"
    /\ AllBegun(Main, FALSE)
    /\ main' = "exporting"
    /\ UNCHANGED <<snapshot, lockedIO, exports, requests, writerVars, workerVars>>

UnlockNothing ==
    /\ main = "exporting" /\ Main \notin lastEnded
    /\ emitted # <<>>
    /\ main' = "free"
    /\ UNCHANGED <<coordinatorVars, snapshot, lockedIO, exports, requests, writerVars,
                   workerVars>>

\* writingWorkersFinished, onMetadataWritingFinished: unlockAllForIO.
WritingFinished ==
    /\ main = "exporting" /\ Main \notin lastEnded
    /\ emitted # <<>>
    /\ main' = "free"
    /\ lockedIO' = {}
    /\ UNCHANGED <<coordinatorVars, snapshot, exports, requests, writerVars, workerVars>>

-----------------------------------------------------------------------------
(* The thread of the export. *)

\* process() runs exiftool; the file of arguments may fail to open.
StartExiftool(opened) ==
    /\ writer = "started"
    /\ writer' = IF opened THEN "writing" ELSE "written"
    /\ UNCHANGED <<coordinatorVars, mainVars, orphan, workerVars>>

Rewritten(videos) ==
    [v \in Videos |-> IF v \in videos /\ cached[v] = "fresh" THEN "stale" ELSE cached[v]]

\* waitForFinished: exiftool has ended, successfully or not, and rewritten some
\* of the files.
ExiftoolEnds(videos) ==
    /\ writer = "writing"
    /\ writer' = "written"
    /\ cached' = Rewritten(videos)
    /\ UNCHANGED <<coordinatorVars, mainVars, orphan, queue, idle, worker>>

\* waitForFinished: the time is over and exiftool is still running.
ExiftoolTimesOut ==
    /\ ExiftoolMayHang
    /\ writer = "writing"
    /\ writer' = "written"
    /\ orphan' = orphan \cup snapshot
    /\ UNCHANGED <<coordinatorVars, mainVars, workerVars>>

\* ~AsyncCoordinatorUnlocker at the end of process().
LeaveProcess ==
    /\ writer = "written"
    /\ JustEnded(Writer)
    /\ writer' = "ended"
    /\ UNCHANGED <<mainVars, orphan, workerVars>>

\* The thread's event loop deletes the worker and with it the QProcess, whose
\* destructor kills a process that still runs.
KillExiftool ==
    /\ orphan # {}
    /\ writer # "written" /\ Writer \notin lastEnded
    /\ orphan' = {}
    /\ cached' = Rewritten(orphan)
    /\ UNCHANGED <<coordinatorVars, mainVars, writer, queue, idle, worker>>

FinishCall(p) ==
    /\ ReportAllDone(p)
    /\ UNCHANGED <<mainVars, writerVars, workerVars>>

-----------------------------------------------------------------------------
(* The video caching worker. *)

At(pc) == worker.pc = pc
Goto(pc) == worker' = [worker EXCEPT !.pc = pc]
InHand == worker.request

LoopStarts ==
    /\ At("created")
    /\ Goto("loop")
    /\ idle' = TRUE
    /\ UNCHANGED <<coordinatorVars, mainVars, writerVars, queue, cached>>

Take ==
    /\ At("loop")
    /\ queue # <<>>
    /\ queue' = Tail(queue)
    /\ worker' = [pc |-> "taken", request |-> Head(queue)]
    /\ UNCHANGED <<coordinatorVars, mainVars, writerVars, idle, cached>>

ResetIdleMissing ==
    /\ At("taken")
    /\ Goto("checking")
    /\ UNCHANGED <<coordinatorVars, mainVars, writerVars, queue, idle, cached>>

ResetIdle ==
    /\ At("taken")
    /\ idle' = FALSE
    /\ Goto("checking")
    /\ UNCHANGED <<coordinatorVars, mainVars, writerVars, queue, cached>>

\* checkLockedIO: a marked video is submitted again.
CheckLockedIO ==
    /\ At("checking")
    /\ IF InHand.video \in lockedIO
         THEN queue' = Append(queue, InHand) /\ Goto("done")
         ELSE Goto("unlocked") /\ UNCHANGED queue
    /\ UNCHANGED <<coordinatorVars, mainVars, writerVars, idle, cached>>

\* checkProcessed
CheckProcessed ==
    /\ At("unlocked")
    /\ Goto(IF ~InHand.recache /\ ~InHand.repeated /\ cached[InHand.video] = "fresh"
              THEN "done" ELSE "creating")
    /\ UNCHANGED <<coordinatorVars, mainVars, writerVars, queue, idle, cached>>

Resubmitted(request) == queue' = Append(queue, request)

\* createThumbnail and saveThumbnail succeed; a good one may be asked for next.
ThumbnailCreated ==
    /\ At("creating")
    /\ cached' = [cached EXCEPT ![InHand.video] = "fresh"]
    /\ IF InHand.quick /\ InHand.goodAllowed
         THEN Resubmitted([InHand EXCEPT !.quick = FALSE])
         ELSE UNCHANGED queue
    /\ Goto("done")
    /\ UNCHANGED <<coordinatorVars, mainVars, writerVars, idle>>

RepeatForever ==
    /\ At("creating")
    /\ Resubmitted(InHand)
    /\ Goto("done")
    /\ UNCHANGED <<coordinatorVars, mainVars, writerVars, idle, cached>>

\* One of them fails: a request is repeated once.
ThumbnailFailed ==
    /\ At("creating")
    /\ IF InHand.repeated
         THEN UNCHANGED queue
         ELSE Resubmitted([InHand EXCEPT !.repeated = TRUE])
    /\ Goto("done")
    /\ UNCHANGED <<coordinatorVars, mainVars, writerVars, idle, cached>>

SetIdle ==
    /\ At("done")
    /\ worker' = [pc |-> "loop", request |-> <<>>]
    /\ idle' = TRUE
    /\ UNCHANGED <<coordinatorVars, mainVars, writerVars, queue, cached>>

WorkerStep ==
    \/ LoopStarts \/ Take \/ ResetIdle \/ CheckLockedIO \/ CheckProcessed
    \/ ThumbnailCreated \/ ThumbnailFailed \/ SetIdle

-----------------------------------------------------------------------------
WriterStep ==
    \/ \E opened \in BOOLEAN : StartExiftool(opened)
    \/ \E videos \in SUBSET snapshot : ExiftoolEnds(videos)
    \/ ExiftoolTimesOut \/ LeaveProcess

MainStep ==
    \/ \E v \in Videos : LockForIO(v)
    \/ StartWriting \/ StartMetadataWiping \/ AllHaveBegun \/ WritingFinished

Next ==
    \/ \E v \in Videos : GenerateThumbnail(v)
    \/ \E videos \in (SUBSET Videos) \ {{}} : Export(videos)
    \/ MainStep \/ WaitWorkerIdle
    \/ WriterStep \/ KillExiftool
    \/ WorkerStep
    \/ \E p \in {Main, Writer} : FinishCall(p)

Spec == Init /\ [][Next]_vars

\* Every thread runs on; exiftool ends or its time is over.  waitIdle is a
\* condition variable on a flag that goes up and down while locked requests are
\* submitted again and again: the waiter must see it up some time.
Fairness ==
    /\ WF_vars(MainStep) /\ WF_vars(WriterStep) /\ WF_vars(WorkerStep)
    /\ WF_vars(KillExiftool)
    /\ \A p \in {Main, Writer} : WF_vars(FinishCall(p))
    /\ SF_vars(WaitWorkerIdle)

FairSpec == Spec /\ Fairness

-----------------------------------------------------------------------------
\* The types of the state.
TypeOK ==
    /\ m_OpCount \in Int /\ m_StatusReported \in {0, 1} /\ m_Timer \in BOOLEAN
    /\ lastEnded \subseteq {Main, Writer} /\ emitted \in Seq(Statuses)
    /\ main \in {"free", "locking", "idle", "begun", "exporting"}
    /\ snapshot \subseteq Videos /\ lockedIO \subseteq Videos /\ orphan \subseteq Videos
    /\ exports \in 0..MaxExports /\ requests \in 0..MaxRequests
    /\ writer \in {"none", "started", "writing", "written", "ended"}
    /\ queue \in Seq(Request)
    /\ idle \in BOOLEAN
    /\ worker \in [pc : {"created", "loop", "taken", "checking", "unlocked", "creating", "done"},
                   request : Request \cup {<<>>}]
    /\ cached \in [Videos -> {"none", "fresh", "stale"}]

\* The videos the thread of the export is having rewritten.
BeingWritten == IF writer = "writing" THEN snapshot ELSE {}

\* "this should prevent a race between video thumbnails and exiftool"
\* (writeMetadataExifTool): no thumbnail is taken of a file while the export
\* waits for the exiftool that rewrites it.  The videos of `orphan` are not
\* included: when its time is over the export ends, whatever exiftool does.
NoRace == At("creating") => InHand.video \notin BeingWritten

\* A request for a thumbnail is not lost in an export: it is served or given up
\* in the end, even if its video was locked when the worker came to it.
IsAskedFor(v) ==
    \/ \E i \in DOMAIN queue : queue[i].video = v
    \/ worker.request # <<>> /\ InHand.video = v
ThumbnailsSettle == \A v \in Videos : IsAskedFor(v) ~> ~IsAskedFor(v)

\* Every export ends and gives back the videos it locked.
ExportEnds == main # "free" ~> main = "free" /\ lockedIO = {}

\* The export uses its coordinator by its protocol, so that each export is
\* reported as finished once, after its thread ended.
Rounds == INSTANCE CoordinatorRounds WITH
    Operations <- {Writer},
    Owner <- Main,
    MaxRounds <- MaxExports,
    interruptible <- FALSE,
    owner <- IF exports = 0 \/ main \in {"locking", "idle", "begun"} THEN "open"
             ELSE IF main = "exporting" THEN "closed" ELSE "idle",
    operation <- [o \in {Writer} |->
                    CASE writer = "none" -> "none"
                      [] writer = "ended" -> "ended"
                      [] OTHER -> "running"],
    rounds <- IF exports = 0 THEN 1 ELSE exports

FollowsRounds == Rounds!Spec

=============================================================================
