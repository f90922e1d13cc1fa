--------------------------- MODULE VideoExportProofs ---------------------------
(***************************************************************************)
(* For any videos, exports and requests: no thumbnail is taken of a video  *)
(* while an export waits for its exiftool, and the export uses its         *)
(* coordinator by the protocol of CoordinatorRounds.  The argument needs   *)
(* both: an export reported too early would unlock the videos under        *)
(* exiftool, and a lock set too late would miss a request in hand.         *)
(***************************************************************************)
EXTENDS VideoExport, SequenceTheorems, TLAPS

OwnersShare == IF exports = 0 \/ main \in {"locking", "idle", "begun"} THEN 1 ELSE 0
WritersShare == IF writer \in {"started", "writing", "written"} THEN 1 ELSE 0

\* The coordinator counts the main thread and the thread of the export; what it
\* reports, it reports after both.
CoordinatorInv ==
    /\ m_OpCount = OwnersShare + WritersShare
    /\ m_StatusReported = 0 <=> emitted = <<>>
    /\ lastEnded # {} => m_OpCount = 0 /\ emitted = <<>>
    /\ emitted # <<>> => m_OpCount = 0
    /\ \A p, q \in lastEnded : p = q
    /\ main = "free" /\ exports > 0 => emitted # <<>>

\* Where the export is: it has locked all its videos once it went on.
ExportInv ==
    /\ exports = 0 => main = "free" /\ writer = "none"
    /\ main \in {"locking", "idle"} => writer = "none"
    /\ main \in {"idle", "begun", "exporting"} => snapshot \subseteq lockedIO

\* Where the worker is: what it found unlocked before the export saw it idle is
\* done with, and what it comes to later is locked.
WorkerInv ==
    /\ idle => worker.pc \in {"loop", "taken"}
    /\ worker.pc \notin {"created", "loop"} => worker.request \in Request
    /\ worker.pc \in {"unlocked", "creating"} /\ main \in {"idle", "begun", "exporting"} =>
         InHand.video \notin snapshot

IInv == TypeOK /\ CoordinatorInv /\ ExportInv /\ WorkerInv

-----------------------------------------------------------------------------
(* The initial state. *)

LEMMA InitHolds == Init => IInv
<1> SUFFICES ASSUME Init PROVE IInv
  OBVIOUS
<1> USE ExportAssumption
<1>1. emitted = <<>> /\ emitted \in Seq(Statuses) /\ queue \in Seq(Request)
  BY DEF Init, CoordinatorInit
<1>2. m_OpCount = 1 /\ m_StatusReported = 0 /\ lastEnded = {}
  BY DEF Init, CoordinatorInit
<1>3. m_Timer \in BOOLEAN /\ idle \in BOOLEAN /\ ~idle
  BY Zenon DEF Init, CoordinatorInit
<1>4. worker = [pc |-> "created", request |-> <<>>]
  BY DEF Init
<1>5. /\ main = "free" /\ snapshot = {} /\ lockedIO = {} /\ orphan = {}
      /\ exports = 0 /\ requests = 0 /\ writer = "none"
      /\ cached \in [Videos -> {"none", "fresh", "stale"}]
  BY DEF Init
<1>6. TypeOK
  BY <1>1, <1>2, <1>3, <1>4, <1>5 DEF TypeOK
<1>7. CoordinatorInv
  BY <1>1, <1>2, <1>5 DEF CoordinatorInv, OwnersShare, WritersShare
<1>8. ExportInv /\ WorkerInv
  BY <1>3, <1>4, <1>5 DEF ExportInv, WorkerInv
<1> QED
  BY <1>6, <1>7, <1>8 DEF IInv

-----------------------------------------------------------------------------
(* Types. *)

\* What the worker submits is a request.
LEMMA Requests ==
    /\ \A v \in Videos : NewRequest(v, FALSE, TRUE, GoodQualityAllowed, FALSE) \in Request
    /\ \A r \in Request : /\ [r EXCEPT !.quick = FALSE] \in Request
                          /\ [r EXCEPT !.repeated = TRUE] \in Request
                          /\ r.video \in Videos
BY DEF Request, NewRequest

\* Submitting a request leaves a queue of requests.
LEMMA Submitted ==
    ASSUME queue \in Seq(Request), NEW request \in Request, queue' = Append(queue, request)
    PROVE  queue' \in Seq(Request)
OBVIOUS

LEMMA MainTypes ==
    ASSUME IInv,
           \/ \E v \in Videos : GenerateThumbnail(v)
           \/ \E videos \in (SUBSET Videos) \ {{}} : Export(videos)
           \/ MainStep \/ WaitWorkerIdle
    PROVE  TypeOK'
<1> USE ExportAssumption DEF IInv, TypeOK
<1>1. CASE \E v \in Videos : GenerateThumbnail(v)
  <2>1. PICK v \in Videos : GenerateThumbnail(v)
    BY <1>1
  <2>0. NewRequest(v, FALSE, TRUE, GoodQualityAllowed, FALSE) \in Request
    BY Requests
  <2>2. queue' \in Seq(Request)
    <3>1. queue' = Append(queue, NewRequest(v, FALSE, TRUE, GoodQualityAllowed, FALSE))
      BY <2>1 DEF GenerateThumbnail
    <3>2. queue \in Seq(Request)
      OBVIOUS
    <3> HIDE DEF IInv, TypeOK
    <3> QED
      BY <2>0, <3>1, <3>2, Submitted
  <2>3. requests' \in 0..MaxRequests
    BY <2>1 DEF GenerateThumbnail
  <2> QED
    BY <2>1, <2>2, <2>3 DEF GenerateThumbnail, coordinatorVars, writerVars
<1>2. CASE \E videos \in (SUBSET Videos) \ {{}} : Export(videos)
  BY <1>2 DEF Export, Reset, workerVars
<1>3. CASE \E v \in Videos : LockForIO(v)
  BY <1>3 DEF LockForIO, coordinatorVars, writerVars, workerVars
<1>4. CASE StartWriting
  BY <1>4 DEF StartWriting, AboutToBegin, workerVars
<1>5. CASE StartMetadataWiping \/ WaitWorkerIdle \/ WritingFinished
  BY <1>5 DEF StartMetadataWiping, WaitWorkerIdle, WritingFinished, coordinatorVars,
              writerVars, workerVars
<1>6. CASE AllHaveBegun
  <2>1. m_Timer' \in BOOLEAN
    BY <1>6 DEF AllHaveBegun, AllBegun
  <2>2. m_OpCount' \in Int /\ lastEnded' \subseteq {Main, Writer}
    BY <1>6 DEF AllHaveBegun, AllBegun, CountDown
  <2> QED
    BY <1>6, <2>1, <2>2 DEF AllHaveBegun, AllBegun, writerVars, workerVars
<1> QED
  BY <1>1, <1>2, <1>3, <1>4, <1>5, <1>6 DEF MainStep

LEMMA WriterTypes ==
    ASSUME IInv,
           WriterStep \/ KillExiftool \/ \E p \in {Main, Writer} : FinishCall(p)
    PROVE  TypeOK'
<1> USE ExportAssumption DEF IInv, TypeOK
<1>0. \A videos : Rewritten(videos) \in [Videos -> {"none", "fresh", "stale"}]
  BY DEF Rewritten
<1>1. CASE \E opened \in BOOLEAN : StartExiftool(opened)
  BY <1>1 DEF StartExiftool, coordinatorVars, mainVars, workerVars
<1>2. CASE \E videos \in SUBSET snapshot : ExiftoolEnds(videos)
  BY <1>0, <1>2 DEF ExiftoolEnds, coordinatorVars, mainVars
<1>3. CASE ExiftoolTimesOut
  BY <1>3 DEF ExiftoolTimesOut, coordinatorVars, mainVars, workerVars
<1>4. CASE LeaveProcess
  <2>1. m_OpCount' \in Int /\ lastEnded' \subseteq {Main, Writer}
    BY <1>4 DEF LeaveProcess, JustEnded, CountDown
  <2> QED
    BY <1>4, <2>1 DEF LeaveProcess, JustEnded, mainVars, workerVars
<1>5. CASE KillExiftool
  BY <1>0, <1>5 DEF KillExiftool, coordinatorVars, mainVars
<1>6. CASE \E p \in {Main, Writer} : FinishCall(p)
  <2>1. emitted' \in Seq(Statuses) /\ m_StatusReported' \in {0, 1}
    BY <1>6 DEF FinishCall, ReportAllDone, ReportStatus, Statuses
  <2> QED
    BY <1>6, <2>1 DEF FinishCall, ReportAllDone, mainVars, writerVars, workerVars
<1> QED
  BY <1>1, <1>2, <1>3, <1>4, <1>5, <1>6 DEF WriterStep

LEMMA WorkerTypes ==
    ASSUME IInv, WorkerStep
    PROVE  TypeOK'
<1> USE ExportAssumption DEF IInv, TypeOK
<1>0. worker.pc \notin {"created", "loop"} => InHand \in Request
  BY DEF WorkerInv, InHand
<1>1. UNCHANGED <<coordinatorVars, mainVars, writerVars>>
  BY DEF WorkerStep, LoopStarts, Take, ResetIdle, CheckLockedIO, CheckProcessed,
         ThumbnailCreated, ThumbnailFailed, SetIdle
<1>2. queue' \in Seq(Request)
  <2>1. CASE Take
    BY <2>1 DEF Take
  <2>2. CASE CheckLockedIO
    BY <1>0, <2>2 DEF CheckLockedIO, At
  <2>3. CASE ThumbnailCreated
    <3>1. InHand \in Request /\ [InHand EXCEPT !.quick = FALSE] \in Request
      BY <1>0, <2>3, Requests DEF ThumbnailCreated, At
    <3>2. queue' = queue \/ queue' = Append(queue, [InHand EXCEPT !.quick = FALSE])
      BY <2>3 DEF ThumbnailCreated, Resubmitted
    <3>3. queue \in Seq(Request)
      OBVIOUS
    <3> HIDE DEF IInv, TypeOK
    <3> QED
      BY <3>1, <3>2, <3>3, Submitted
  <2>4. CASE ThumbnailFailed
    <3>1. InHand \in Request /\ [InHand EXCEPT !.repeated = TRUE] \in Request
      BY <1>0, <2>4, Requests DEF ThumbnailFailed, At
    <3>2. queue' = queue \/ queue' = Append(queue, [InHand EXCEPT !.repeated = TRUE])
      BY <2>4 DEF ThumbnailFailed, Resubmitted
    <3>3. queue \in Seq(Request)
      OBVIOUS
    <3> HIDE DEF IInv, TypeOK
    <3> QED
      BY <3>1, <3>2, <3>3, Submitted
  <2>5. CASE LoopStarts \/ ResetIdle \/ CheckProcessed \/ SetIdle
    BY <2>5 DEF LoopStarts, ResetIdle, CheckProcessed, SetIdle
  <2> QED
    BY <2>1, <2>2, <2>3, <2>4, <2>5 DEF WorkerStep
<1>3. worker' \in [pc : {"created", "loop", "taken", "checking", "unlocked", "creating", "done"},
                  request : Request \cup {<<>>}]
  <2>1. CASE Take
    <3>1. Head(queue) \in Request
      BY <2>1 DEF Take
    <3> QED
      BY <2>1, <3>1 DEF Take
  <2>2. CASE ~Take
    BY <2>2 DEF WorkerStep, LoopStarts, ResetIdle, CheckLockedIO, CheckProcessed,
                ThumbnailCreated, ThumbnailFailed, SetIdle, Goto
  <2> QED
    BY <2>1, <2>2
<1>4. idle' \in BOOLEAN
  BY Zenon DEF WorkerStep, LoopStarts, Take, ResetIdle, CheckLockedIO, CheckProcessed,
         ThumbnailCreated, ThumbnailFailed, SetIdle
<1>5. cached' \in [Videos -> {"none", "fresh", "stale"}]
  BY DEF WorkerStep, LoopStarts, Take, ResetIdle, CheckLockedIO, CheckProcessed,
         ThumbnailCreated, ThumbnailFailed, SetIdle
<1> QED
  BY <1>1, <1>2, <1>3, <1>4, <1>5 DEF coordinatorVars, mainVars, writerVars

-----------------------------------------------------------------------------
(* The coordinator and the export. *)

LEMMA CoordinatorHolds ==
    ASSUME IInv, [Next]_vars
    PROVE  CoordinatorInv' /\ ExportInv'
<1> USE ExportAssumption
<1>0. /\ TypeOK /\ CoordinatorInv /\ ExportInv
      /\ exports \in Nat
  BY DEF IInv, TypeOK
<1> USE DEF CoordinatorInv, ExportInv, OwnersShare, WritersShare
<1>1. ASSUME NEW videos, Export(videos) PROVE CoordinatorInv' /\ ExportInv'
  BY <1>0, <1>1 DEF Export, Reset
<1>2. CASE WaitWorkerIdle
  BY <1>0, <1>2 DEF WaitWorkerIdle, coordinatorVars, writerVars
<1>3. CASE StartWriting
  BY <1>0, <1>3 DEF StartWriting, AboutToBegin
<1>4. CASE StartMetadataWiping
  BY <1>0, <1>4 DEF StartMetadataWiping, coordinatorVars, writerVars
<1>5. CASE AllHaveBegun
  <2>1. /\ main = "begun" /\ main' = "exporting" /\ m_OpCount = 1 + WritersShare
        /\ m_OpCount' = m_OpCount - 1 /\ emitted' = emitted /\ m_StatusReported' = m_StatusReported
        /\ lastEnded' = IF m_OpCount = 1 THEN lastEnded \cup {Main} ELSE lastEnded
        /\ UNCHANGED <<exports, writer, snapshot, lockedIO>>
    BY <1>0, <1>5 DEF AllHaveBegun, AllBegun, CountDown, writerVars
  <2>2. lastEnded = {} /\ emitted = <<>> /\ exports # 0
    BY <1>0, <2>1
  <2> QED
    BY <1>0, <2>1, <2>2
<1>6. CASE LeaveProcess
  <2>1. /\ writer = "written" /\ writer' = "ended" /\ m_OpCount = OwnersShare + 1
        /\ m_OpCount' = m_OpCount - 1 /\ emitted' = emitted /\ m_StatusReported' = m_StatusReported
        /\ lastEnded' = IF m_OpCount = 1 THEN lastEnded \cup {Writer} ELSE lastEnded
        /\ UNCHANGED <<exports, main, snapshot, lockedIO>>
    BY <1>0, <1>6 DEF LeaveProcess, JustEnded, CountDown, mainVars
  <2>2. lastEnded = {} /\ emitted = <<>> /\ exports # 0
    BY <1>0, <2>1
  <2> QED
    BY <1>0, <2>1, <2>2
<1>7. ASSUME NEW p \in {Main, Writer}, FinishCall(p) PROVE CoordinatorInv' /\ ExportInv'
  <2>1. /\ lastEnded = {p} /\ lastEnded' = {} /\ emitted = <<>> /\ m_OpCount = 0
        /\ m_StatusReported = 0
    BY <1>0, <1>7 DEF FinishCall, ReportAllDone
  <2>2. emitted' # <<>> /\ m_StatusReported' = 1 /\ m_OpCount' = m_OpCount
    BY <1>7, <2>1 DEF FinishCall, ReportAllDone, ReportStatus
  <2> QED
    BY <1>0, <1>7, <2>1, <2>2 DEF FinishCall, mainVars, writerVars
<1>8. CASE WritingFinished
  BY <1>0, <1>8 DEF WritingFinished, coordinatorVars, writerVars
<1>9. CASE \E opened \in BOOLEAN : StartExiftool(opened)
  BY <1>0, <1>9 DEF StartExiftool, coordinatorVars, mainVars
<1>10. CASE ExiftoolTimesOut \/ \E videos \in SUBSET snapshot : ExiftoolEnds(videos)
  BY <1>0, <1>10 DEF ExiftoolTimesOut, ExiftoolEnds, coordinatorVars, mainVars
<1>11. CASE \E v \in Videos : LockForIO(v)
  BY <1>0, <1>11 DEF LockForIO, coordinatorVars, writerVars
<1>12. CASE WorkerStep \/ KillExiftool \/ \E v \in Videos : GenerateThumbnail(v)
  <2>1. UNCHANGED <<coordinatorVars, main, snapshot, lockedIO, exports, writer>>
    BY <1>12 DEF WorkerStep, LoopStarts, Take, ResetIdle, CheckLockedIO, CheckProcessed,
         ThumbnailCreated, ThumbnailFailed, SetIdle, KillExiftool, GenerateThumbnail,
         mainVars, writerVars
  <2> QED
    BY <1>0, <2>1 DEF coordinatorVars
<1>13. CASE UNCHANGED vars
  BY <1>0, <1>13 DEF vars
<1> QED
  BY <1>1, <1>2, <1>3, <1>4, <1>5, <1>6, <1>7, <1>8, <1>9, <1>10, <1>11, <1>12, <1>13
     DEF Next, MainStep, WriterStep

-----------------------------------------------------------------------------
(* The worker. *)

LEMMA WorkerHolds ==
    ASSUME IInv, [Next]_vars
    PROVE  WorkerInv'
<1> USE ExportAssumption DEF WorkerInv, InHand
<1>0. TypeOK /\ WorkerInv /\ ExportInv
  BY DEF IInv
<1>1. CASE WorkerStep
  <2>1. main' = main /\ snapshot' = snapshot /\ lockedIO' = lockedIO
    BY <1>1 DEF WorkerStep, LoopStarts, Take, ResetIdle, CheckLockedIO, CheckProcessed,
         ThumbnailCreated, ThumbnailFailed, SetIdle, mainVars
  <2>2. CASE LoopStarts \/ SetIdle \/ ResetIdle
    BY <1>0, <2>1, <2>2 DEF LoopStarts, SetIdle, ResetIdle, At, Goto, TypeOK
  <2>3. CASE Take
    <3>1. Head(queue) \in Request
      BY <1>0, <2>3 DEF Take, TypeOK
    <3> QED
      BY <1>0, <2>1, <2>3, <3>1 DEF Take, At
  <2>4. CASE CheckLockedIO
    <3>1. /\ worker.pc = "checking" /\ worker'.request = worker.request
          /\ worker'.pc = IF worker.request.video \in lockedIO THEN "done" ELSE "unlocked"
          /\ idle' = idle
      BY <1>0, <2>4 DEF CheckLockedIO, At, Goto, TypeOK
    <3> QED
      BY <1>0, <2>1, <3>1 DEF ExportInv
  <2>5. CASE CheckProcessed
    <3>1. /\ worker.pc = "unlocked" /\ worker'.request = worker.request
          /\ worker'.pc \in {"done", "creating"} /\ idle' = idle
      BY <1>0, <2>5 DEF CheckProcessed, At, Goto, TypeOK
    <3> QED
      BY <1>0, <2>1, <3>1
  <2>6. CASE ThumbnailCreated \/ ThumbnailFailed
    <3>1. /\ worker.pc = "creating" /\ worker'.request = worker.request
          /\ worker'.pc = "done" /\ idle' = idle
      BY <1>0, <2>6 DEF ThumbnailCreated, ThumbnailFailed, At, Goto, TypeOK
    <3> QED
      BY <1>0, <2>1, <3>1
  <2> QED
    BY <1>1, <2>2, <2>3, <2>4, <2>5, <2>6 DEF WorkerStep
<1>2. CASE WaitWorkerIdle
  BY <1>0, <1>2 DEF WaitWorkerIdle, workerVars
<1>3. ASSUME NEW videos, Export(videos) PROVE WorkerInv'
  BY <1>0, <1>3 DEF Export, workerVars
<1>4. CASE StartWriting \/ StartMetadataWiping \/ AllHaveBegun \/ WritingFinished
           \/ \E v \in Videos : LockForIO(v)
  <2>1. /\ snapshot' = snapshot /\ worker' = worker /\ idle' = idle
        /\ \/ main' = "free" \/ main' = main \/ main \in {"idle", "begun"}
    BY <1>4 DEF StartWriting, StartMetadataWiping, AllHaveBegun, WritingFinished,
                LockForIO, workerVars
  <2> QED
    BY <1>0, <2>1
<1>5. CASE WriterStep \/ KillExiftool \/ \E p \in {Main, Writer} : FinishCall(p)
  <2>1. main' = main /\ snapshot' = snapshot /\ worker' = worker /\ idle' = idle
    BY <1>5 DEF WriterStep, StartExiftool, ExiftoolEnds, ExiftoolTimesOut, LeaveProcess,
                KillExiftool, FinishCall, mainVars, workerVars
  <2> QED
    BY <1>0, <2>1
<1>6. CASE UNCHANGED vars \/ \E v \in Videos : GenerateThumbnail(v)
  <2>1. main' = main /\ snapshot' = snapshot /\ worker' = worker /\ idle' = idle
    BY <1>6 DEF vars, GenerateThumbnail
  <2> QED
    BY <1>0, <2>1
<1> QED
  BY <1>1, <1>2, <1>3, <1>4, <1>5, <1>6 DEF Next, MainStep

LEMMA StepHolds == IInv /\ [Next]_vars => IInv'
<1> SUFFICES ASSUME IInv, [Next]_vars PROVE IInv'
  OBVIOUS
<1>1. CASE UNCHANGED vars
  BY <1>1 DEF IInv, TypeOK, CoordinatorInv, ExportInv, WorkerInv, OwnersShare, WritersShare,
              InHand, vars
<1>2. CASE Next
  <2>1. TypeOK'
    BY <1>2, MainTypes, WriterTypes, WorkerTypes DEF Next
  <2> QED
    BY <2>1, CoordinatorHolds, WorkerHolds DEF IInv
<1> QED
  BY <1>1, <1>2

-----------------------------------------------------------------------------
(* Results. *)

\* The locks, the queue, the threads and the coordinator keep their types.
THEOREM TypeCorrect == Spec => []TypeOK
<1>1. IInv => TypeOK
  BY DEF IInv
<1> QED
  BY <1>1, InitHolds, StepHolds, PTL DEF Spec

\* "this should prevent a race between video thumbnails and exiftool"
\* (writeMetadataExifTool): it does, as long as exiftool ends in its time.
THEOREM ExportDoesNotRace == Spec => []NoRace
<1>1. IInv => NoRace
  <2> SUFFICES ASSUME IInv, writer = "writing", worker.pc = "creating"
               PROVE  InHand.video \notin snapshot
    BY DEF NoRace, At, BeingWritten
  <2>1. main \in {"idle", "begun", "exporting"}
    BY DEF IInv, TypeOK, CoordinatorInv, ExportInv, OwnersShare, WritersShare
  <2> QED
    BY <2>1 DEF IInv, WorkerInv
<1> QED
  BY <1>1, InitHolds, StepHolds, PTL DEF Spec

-----------------------------------------------------------------------------
(* The protocol of the coordinator. *)

\* Where the main thread and the thread of the export are in a round.
RoundOwner == IF exports = 0 \/ main \in {"locking", "idle", "begun"} THEN "open"
              ELSE IF main = "exporting" THEN "closed" ELSE "idle"
RoundOperation == [o \in {Writer} |-> CASE writer = "none" -> "none"
                                        [] writer = "ended" -> "ended"
                                        [] OTHER -> "running"]
RoundCount == IF exports = 0 THEN 1 ELSE exports

\* A step that leaves the coordinator alone and changes no place in the round.
LEMMA RoundStutters ==
    ASSUME UNCHANGED <<coordinatorVars, RoundOwner, RoundOperation, RoundCount>>
    PROVE  UNCHANGED Rounds!vars
BY DEF Rounds!vars, coordinatorVars, RoundOwner, RoundOperation, RoundCount

LEMMA InitRound == Init => Rounds!Init
BY Zenon DEF Init, Rounds!Init, CoordinatorInit, Rounds!CoordinatorInit

LEMMA NextRound ==
    ASSUME IInv, [Next]_vars
    PROVE  Rounds!Next \/ UNCHANGED Rounds!vars
<1> USE ExportAssumption
<1>0. /\ TypeOK /\ CoordinatorInv /\ ExportInv /\ exports \in Nat /\ MaxExports \in Nat
      /\ exports <= MaxExports
  BY DEF IInv, TypeOK
<1>1. ASSUME NEW videos, Export(videos) PROVE Rounds!Next \/ UNCHANGED Rounds!vars
  <2>1. /\ main = "free" /\ exports < MaxExports /\ exports' = exports + 1 /\ Reset
        /\ main' = "locking" /\ writer' = "none"
    BY <1>1 DEF Export
  <2>2. CASE exports = 0
    <3>1. writer = "none" /\ m_OpCount = 1 /\ emitted = <<>> /\ m_StatusReported = 0
      BY <1>0, <2>2 DEF CoordinatorInv, ExportInv, OwnersShare, WritersShare
    <3>2. UNCHANGED coordinatorVars
      BY <2>1, <3>1 DEF Reset, coordinatorVars
    <3>3. UNCHANGED <<RoundOwner, RoundOperation, RoundCount>>
      BY <2>1, <2>2, <3>1 DEF RoundOwner, RoundOperation, RoundCount
    <3> QED
      BY <3>2, <3>3, RoundStutters
  <2>3. CASE exports # 0
    <3>1. RoundOwner = "idle" /\ RoundOwner' = "open" /\ RoundCount = exports
      BY <1>0, <2>1, <2>3 DEF RoundOwner, RoundCount
    <3>2. RoundCount' = RoundCount + 1
      BY <1>0, <2>1, <3>1 DEF RoundCount
    <3>3. RoundOperation' = [o \in {Writer} |-> "none"]
      BY <2>1 DEF RoundOperation
    <3>4. Rounds!OpenRound
      BY <2>1, <3>1, <3>2, <3>3
         DEF Rounds!OpenRound, Rounds!Reset, Reset, RoundOwner, RoundOperation, RoundCount
    <3> QED
      BY <3>4 DEF Rounds!Next
  <2> QED
    BY <2>2, <2>3
<1>2. CASE StartWriting
  <2>1. /\ main = "idle" /\ AboutToBegin /\ main' = "begun" /\ writer' = "started"
        /\ exports' = exports
    BY <1>2 DEF StartWriting
  <2>2. writer = "none" /\ exports # 0
    BY <1>0, <2>1 DEF ExportInv
  <2>3. RoundOwner = "open" /\ RoundOwner' = "open" /\ RoundCount' = RoundCount
    BY <2>1 DEF RoundOwner, RoundCount
  <2>4. /\ RoundOperation = [o \in {Writer} |-> "none"]
        /\ RoundOperation' = [o \in {Writer} |-> "running"]
    BY <2>1, <2>2 DEF RoundOperation
  <2>5. RoundOperation' = [RoundOperation EXCEPT ![Writer] = "running"]
    BY <2>4
  <2>6. Rounds!BeginOperation(Writer)
    BY <2>1, <2>3, <2>4, <2>5
       DEF Rounds!BeginOperation, Rounds!AboutToBegin, AboutToBegin, RoundOwner,
           RoundOperation, RoundCount
  <2> QED
    BY <2>6 DEF Rounds!Next
<1>3. CASE AllHaveBegun
  <2>1. /\ main = "begun" /\ AllBegun(Main, FALSE) /\ main' = "exporting"
        /\ exports' = exports /\ writer' = writer
    BY <1>3 DEF AllHaveBegun, writerVars
  <2>2. exports # 0
    BY <1>0, <2>1 DEF ExportInv
  <2>3. /\ RoundOwner = "open" /\ RoundOwner' = "closed"
        /\ RoundOperation' = RoundOperation /\ RoundCount' = RoundCount
    BY <2>1, <2>2 DEF RoundOwner, RoundOperation, RoundCount
  <2>4. Rounds!CloseRound
    BY <2>1, <2>3
       DEF Rounds!CloseRound, Rounds!AllBegun, Rounds!CountDown, AllBegun, CountDown,
           RoundOwner, RoundOperation, RoundCount
  <2> QED
    BY <2>4 DEF Rounds!Next
<1>4. CASE LeaveProcess
  <2>1. /\ writer = "written" /\ JustEnded(Writer) /\ writer' = "ended"
        /\ main' = main /\ exports' = exports
    BY <1>4 DEF LeaveProcess, mainVars
  <2>2. RoundOwner' = RoundOwner /\ RoundCount' = RoundCount
    BY <2>1 DEF RoundOwner, RoundCount
  <2>3. /\ RoundOperation = [o \in {Writer} |-> "running"]
        /\ RoundOperation' = [o \in {Writer} |-> "ended"]
    BY <2>1 DEF RoundOperation
  <2>4. RoundOperation' = [RoundOperation EXCEPT ![Writer] = "ended"]
    BY <2>3
  <2>5. Rounds!EndOperation(Writer)
    BY <2>1, <2>2, <2>3, <2>4
       DEF Rounds!EndOperation, Rounds!JustEnded, Rounds!CountDown, JustEnded, CountDown,
           RoundOwner, RoundOperation, RoundCount
  <2> QED
    BY <2>5 DEF Rounds!Next
<1>5. ASSUME NEW p \in {Main, Writer}, FinishCall(p) PROVE Rounds!Next \/ UNCHANGED Rounds!vars
  <2>1. ReportAllDone(p) /\ main' = main /\ exports' = exports /\ writer' = writer
    BY <1>5 DEF FinishCall, mainVars, writerVars
  <2>2. /\ RoundOwner' = RoundOwner /\ RoundOperation' = RoundOperation
        /\ RoundCount' = RoundCount
    BY <2>1 DEF RoundOwner, RoundOperation, RoundCount
  <2>3. Rounds!FinishCall(p)
    BY <2>1, <2>2
       DEF Rounds!FinishCall, Rounds!ReportAllDone, Rounds!ReportStatus, ReportAllDone,
           ReportStatus, Rounds!roundVars, RoundOwner, RoundOperation, RoundCount
  <2> QED
    BY <2>3 DEF Rounds!Next
<1>6. CASE WritingFinished
  <2>1. /\ main = "exporting" /\ Main \notin lastEnded /\ emitted # <<>> /\ main' = "free"
        /\ UNCHANGED coordinatorVars /\ exports' = exports /\ writer' = writer
    BY <1>6 DEF WritingFinished, writerVars
  <2>2. exports # 0
    BY <1>0, <2>1 DEF ExportInv
  <2>3. /\ RoundOwner = "closed" /\ RoundOwner' = "idle"
        /\ RoundOperation' = RoundOperation /\ RoundCount' = RoundCount
    BY <2>1, <2>2 DEF RoundOwner, RoundOperation, RoundCount
  <2>4. Rounds!HandleReport
    BY <2>1, <2>3
       DEF Rounds!HandleReport, Rounds!InsideCall, Rounds!coordinatorVars, coordinatorVars,
           RoundOwner, RoundOperation, RoundCount
  <2> QED
    BY <2>4 DEF Rounds!Next
<1>7. CASE \/ WaitWorkerIdle \/ StartMetadataWiping \/ \E v \in Videos : LockForIO(v)
           \/ \E opened \in BOOLEAN : StartExiftool(opened)
           \/ ExiftoolTimesOut \/ \E videos \in SUBSET snapshot : ExiftoolEnds(videos)
  <2>1. /\ UNCHANGED coordinatorVars /\ exports' = exports
        /\ \/ main' = main
           \/ main \in {"locking", "idle"} /\ main' \in {"idle", "begun"}
        /\ \/ writer' = writer
           \/ writer \in {"started", "writing"} /\ writer' \in {"writing", "written"}
    BY <1>7 DEF WaitWorkerIdle, StartMetadataWiping, LockForIO, StartExiftool,
                ExiftoolTimesOut, ExiftoolEnds, mainVars, writerVars
  <2>2. UNCHANGED <<RoundOwner, RoundOperation, RoundCount>>
    BY <2>1 DEF RoundOwner, RoundOperation, RoundCount
  <2> QED
    BY <2>1, <2>2, RoundStutters
<1>8. CASE WorkerStep \/ KillExiftool \/ UNCHANGED vars \/ \E v \in Videos : GenerateThumbnail(v)
  <2>1. UNCHANGED <<coordinatorVars, main, exports, writer>>
    BY <1>8 DEF WorkerStep, LoopStarts, Take, ResetIdle, CheckLockedIO, CheckProcessed,
         ThumbnailCreated, ThumbnailFailed, SetIdle, KillExiftool, GenerateThumbnail,
         mainVars, writerVars, vars, coordinatorVars
  <2>2. UNCHANGED <<RoundOwner, RoundOperation, RoundCount>>
    BY <2>1 DEF RoundOwner, RoundOperation, RoundCount
  <2> QED
    BY <2>1, <2>2, RoundStutters
<1> QED
  BY <1>1, <1>2, <1>3, <1>4, <1>5, <1>6, <1>7, <1>8 DEF Next, MainStep, WriterStep

\* Exports follow the protocol of the coordinator whatever they race with, so
\* what AsyncCoordinatorProofs proves of rounds holds of them: one report each,
\* after the thread of the export has ended, and none left over for the next.
THEOREM ExportsAreRounds == Spec => FollowsRounds
<1>1. Init => Rounds!Init
  BY InitRound
<1>2. IInv /\ [Next]_vars => [Rounds!Next]_Rounds!vars
  BY NextRound
<1> QED
  BY <1>1, <1>2, InitHolds, StepHolds, PTL DEF Spec, FollowsRounds, Rounds!Spec

================================================================================
