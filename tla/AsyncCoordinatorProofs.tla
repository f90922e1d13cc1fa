----------------------- MODULE AsyncCoordinatorProofs -----------------------
(***************************************************************************)
(* The two protocols on a coordinator.                                     *)
(*                                                                         *)
(* What CoordinatorRounds checks, for every set of operations and any      *)
(* number of rounds.  The count of the coordinator equals the operations   *)
(* that run plus one while the round is open (CountInv); hence only one    *)
(* caller of justEnded takes it to zero, after everything ended (LastInv). *)
(*                                                                         *)
(* What Startup checks: the coordinator of the start-up is never reset.    *)
(***************************************************************************)
EXTENDS CoordinatorRounds, Startup, FiniteSetTheorems, SequenceTheorems, TLAPS

\* The owner counts for one while it may still begin operations.
OwnersShare == IF owner = "open" THEN 1 ELSE 0

CountInv == m_OpCount = Cardinality(Running) + OwnersShare

\* Only one thread reports, when nothing is left to end.
LastInv ==
    /\ lastEnded # {} => owner # "open" /\ Running = {}
    /\ \A p, q \in lastEnded : p = q

\* What has been emitted, and that an uninterrupted round reports only its end.
EmittedInv ==
    /\ m_StatusReported = Len(emitted)
    /\ emitted = <<"AllDone">> => owner # "open" /\ Running = {}
    /\ ~interruptible /\ emitted # <<>> => emitted = <<"AllDone">> /\ lastEnded = {}
    /\ ~interruptible => ~m_Timer

\* The owner's place in the round.
OwnerInv ==
    /\ owner = "open" => emitted = <<>>
    /\ owner = "idle" => emitted # <<>>

IInv == TypeOK /\ CountInv /\ LastInv /\ EmittedInv /\ OwnerInv

-----------------------------------------------------------------------------
(* Changes of the set of running operations. *)

LEMMA RunningIsFinite ==
    IsFiniteSet(Running) /\ Cardinality(Running) \in Nat
<1>1. IsFiniteSet(Running)
  BY RoundsAssumption, FS_Subset DEF Running
<1> QED BY <1>1, FS_CardinalityType

LEMMA BeginCounts ==
    ASSUME TypeOK, NEW o \in Operations, operation[o] = "none",
           operation' = [operation EXCEPT ![o] = "running"]
    PROVE  Running' = Running \cup {o} /\ Cardinality(Running') = Cardinality(Running) + 1
<1>1. Running' = Running \cup {o} /\ o \notin Running
  BY DEF Running, TypeOK
<1> QED BY <1>1, RunningIsFinite, FS_AddElement

LEMMA EndCounts ==
    ASSUME TypeOK, NEW o \in Operations, operation[o] = "running",
           operation' = [operation EXCEPT ![o] = "ended"]
    PROVE  /\ Running' = Running \ {o}
           /\ o \in Running
           /\ Cardinality(Running') = Cardinality(Running) - 1
<1>1. Running' = Running \ {o} /\ o \in Running
  BY DEF Running, TypeOK
<1> QED BY <1>1, RunningIsFinite, FS_RemoveElement

LEMMA NoneLeft ==
    /\ Cardinality(Running) = 0 <=> Running = {}
    /\ \A o \in Running : Cardinality(Running) >= 1
<1>1. Cardinality(Running) = 0 <=> Running = {}
  BY RunningIsFinite, FS_EmptySet
<1>2. \A o \in Running : Cardinality(Running) # 0
  BY <1>1
<1> QED BY <1>1, <1>2, RunningIsFinite

-----------------------------------------------------------------------------
(* The invariant. *)

LEMMA InitHolds == Init => IInv
<1> SUFFICES ASSUME Init PROVE IInv
  OBVIOUS
<1>0. <<>> \in Seq(Statuses) /\ Len(<<>>) = 0
  BY EmptySeq
<1>1. TypeOK /\ Running = {}
  <2>1. Running = {}
    BY DEF Init, Running
  <2>2. operation \in [Operations -> {"none", "running", "ended"}]
    BY DEF Init
  <2>3. rounds \in 1..MaxRounds /\ interruptible \in BOOLEAN
    BY RoundsAssumption DEF Init
  <2>4. emitted \in Seq(Statuses)
    BY <1>0 DEF Init, CoordinatorInit
  <2>5. m_OpCount \in Int /\ m_StatusReported \in {0, 1}
    BY DEF Init, CoordinatorInit
  <2>6. m_Timer \in BOOLEAN
    BY DEF Init, CoordinatorInit
  <2>7. lastEnded \in SUBSET (Operations \cup {Owner}) /\ owner \in {"idle", "open", "closed"}
    BY DEF Init, CoordinatorInit
  <2> QED BY <2>1, <2>2, <2>3, <2>4, <2>5, <2>6, <2>7 DEF TypeOK
<1>2. Cardinality(Running) = 0
  BY <1>1, FS_EmptySet
<1> QED BY <1>0, <1>1, <1>2 DEF Init, CoordinatorInit, IInv, CountInv, LastInv, EmittedInv, OwnerInv,
           OwnersShare

\* reportStatus, by whoever calls it.
LEMMA ReportFacts ==
    ASSUME TypeOK, EmittedInv, NEW status \in Statuses, ReportStatus(status)
    PROVE  /\ m_StatusReported' \in {0, 1} /\ emitted' \in Seq(Statuses)
           /\ m_StatusReported' = Len(emitted') /\ emitted' # <<>>
           /\ emitted # <<>> => emitted' = emitted
           /\ emitted = <<>> => emitted' = <<status>>
<1>1. CASE m_StatusReported = 0
  <2>1. emitted = <<>>
    BY <1>1, EmptySeq DEF TypeOK, EmittedInv
  <2>2. emitted' = <<status>>
    BY <1>1, <2>1 DEF ReportStatus
  <2> QED BY <2>1, <2>2 DEF ReportStatus
<1>2. CASE m_StatusReported = 1
  <2>1. Len(emitted) = 1 /\ Len(<<>>) = 0
    BY <1>2, EmptySeq DEF EmittedInv
  <2>2. emitted # <<>>
    BY <2>1
  <2>3. emitted' = emitted /\ m_StatusReported' = 1
    BY <1>2 DEF ReportStatus
  <2> QED BY <2>1, <2>2, <2>3 DEF TypeOK
<1> QED BY <1>1, <1>2 DEF TypeOK

LEMMA StepHolds == IInv /\ [Next]_vars => IInv'
<1> SUFFICES ASSUME IInv, [Next]_vars PROVE IInv'
  OBVIOUS
<1> USE DEF IInv
<1>1. CASE OpenRound
  <2>1. ~interruptible
    BY <1>1, RoundsAssumption DEF OpenRound, TypeOK
  <2>2. Running' = {} /\ Cardinality(Running') = 0
    BY <1>1, FS_EmptySet DEF OpenRound, Running
  <2>3. lastEnded = {}
    BY <1>1, <2>1 DEF OpenRound, OwnerInv, EmittedInv
  <2>4. TypeOK'
    <3>1. <<>> \in Seq(Statuses) /\ operation' \in [Operations -> {"none", "running", "ended"}]
      BY <1>1, EmptySeq DEF OpenRound
    <3> QED BY <1>1, <3>1, RoundsAssumption DEF OpenRound, Reset, TypeOK
  <2> QED BY <1>1, <2>1, <2>2, <2>3, <2>4
          DEF OpenRound, Reset, CountInv, LastInv, EmittedInv, OwnerInv, OwnersShare
<1>2. ASSUME NEW o \in Operations, BeginOperation(o) PROVE IInv'
  <2>1. Running' = Running \cup {o} /\ Cardinality(Running') = Cardinality(Running) + 1
    BY <1>2, BeginCounts DEF BeginOperation
  <2>2. TypeOK'
    BY <1>2 DEF BeginOperation, AboutToBegin, TypeOK
  <2>3. CountInv'
    BY <1>2, <2>1, RunningIsFinite DEF BeginOperation, AboutToBegin, CountInv, OwnersShare
  <2> QED BY <1>2, <2>2, <2>3
          DEF BeginOperation, AboutToBegin, LastInv, EmittedInv, OwnerInv
<1>3. CASE CloseRound
  <2>1. Running' = Running
    BY <1>3 DEF CloseRound, Running
  <2>2. TypeOK'
    BY <1>3, RoundsAssumption DEF CloseRound, AllBegun, CountDown, TypeOK
  <2>3. CountInv'
    BY <1>3, <2>1, RunningIsFinite DEF CloseRound, AllBegun, CountDown, CountInv, OwnersShare
  <2>4. lastEnded = {} /\ lastEnded' = (IF Running = {} THEN {Owner} ELSE {})
    <3>1. lastEnded = {}
      BY <1>3 DEF CloseRound, LastInv
    <3>2. m_OpCount = Cardinality(Running) + 1
      BY <1>3 DEF CloseRound, CountInv, OwnersShare
    <3>3. m_OpCount = 1 <=> Running = {}
      BY <3>2, RunningIsFinite, NoneLeft
    <3>4. lastEnded' = (IF m_OpCount = 1 THEN {Owner} ELSE {})
      BY <1>3, <3>1 DEF CloseRound, AllBegun, CountDown
    <3> QED BY <3>1, <3>3, <3>4
  <2>5. LastInv'
    BY <1>3, <2>1, <2>4 DEF CloseRound, LastInv
  <2> QED BY <1>3, <2>1, <2>2, <2>3, <2>5
          DEF CloseRound, AllBegun, EmittedInv, OwnerInv, TypeOK
<1>4. ASSUME NEW o \in Operations, EndOperation(o) PROVE IInv'
  <2>1. /\ Running' = Running \ {o} /\ o \in Running
        /\ Cardinality(Running') = Cardinality(Running) - 1
    BY <1>4, EndCounts DEF EndOperation
  <2>2. TypeOK'
    BY <1>4 DEF EndOperation, JustEnded, CountDown, TypeOK
  <2>3. CountInv'
    BY <1>4, <2>1, RunningIsFinite
       DEF EndOperation, JustEnded, CountDown, CountInv, OwnersShare
  <2>4. lastEnded = {} /\ lastEnded' \subseteq {o}
    BY <1>4, <2>1 DEF EndOperation, JustEnded, CountDown, LastInv
  <2>5. lastEnded' # {} => owner' # "open" /\ Running' = {}
    <3>1. ASSUME lastEnded' # {} PROVE m_OpCount = 1
      BY <1>4, <2>4, <3>1 DEF EndOperation, JustEnded, CountDown
    <3>2. ASSUME m_OpCount = 1 PROVE owner # "open" /\ Cardinality(Running') = 0
      BY <2>1, <3>2, RunningIsFinite, NoneLeft DEF CountInv, OwnersShare
    <3>3. Cardinality(Running') = 0 => Running' = {}
      <4>1. IsFiniteSet(Running')
        BY <2>1, RunningIsFinite, FS_Subset
      <4> QED BY <4>1, FS_EmptySet
    <3> QED BY <1>4, <3>1, <3>2, <3>3 DEF EndOperation
  <2>6. emitted # <<"AllDone">>
    BY <2>1 DEF EmittedInv
  <2>7. EmittedInv'
    BY <1>4, <2>6 DEF EndOperation, JustEnded, EmittedInv
  <2> QED BY <1>4, <2>2, <2>3, <2>4, <2>5, <2>7 DEF EndOperation, JustEnded, LastInv, OwnerInv
<1>5. ASSUME NEW p \in Operations \cup {Owner}, FinishCall(p) PROVE IInv'
  <2>1. p \in lastEnded /\ lastEnded' = {} /\ Running' = Running /\ ReportStatus("AllDone")
    BY <1>5 DEF FinishCall, ReportAllDone, roundVars, Running, LastInv
  <2>2. "AllDone" \in Statuses
    BY DEF Statuses
  <2>3. /\ m_StatusReported' \in {0, 1} /\ emitted' \in Seq(Statuses)
        /\ m_StatusReported' = Len(emitted') /\ emitted' # <<>>
        /\ emitted # <<>> => emitted' = emitted
        /\ emitted = <<>> => emitted' = <<"AllDone">>
    BY <2>1, <2>2, ReportFacts
  <2>4. TypeOK'
    BY <1>5, <2>1, <2>3 DEF FinishCall, ReportAllDone, roundVars, TypeOK
  <2>5. CountInv'
    BY <1>5, <2>1 DEF FinishCall, ReportAllDone, roundVars, CountInv, OwnersShare
  <2>6. owner' # "open" /\ Running' = {}
    BY <1>5, <2>1 DEF LastInv, FinishCall, roundVars
  <2>7. EmittedInv'
    <3>1. m_Timer' = m_Timer /\ interruptible' = interruptible
      BY <1>5 DEF FinishCall, ReportAllDone, roundVars
    <3> QED BY <2>1, <2>3, <2>6, <3>1 DEF EmittedInv
  <2> QED BY <1>5, <2>1, <2>3, <2>4, <2>5, <2>6, <2>7
          DEF FinishCall, roundVars, LastInv, OwnerInv
<1>6. ASSUME CancelRound \/ TimerFires PROVE IInv'
  <2>1. /\ interruptible /\ owner = "closed"
        /\ UNCHANGED <<owner, operation, rounds, interruptible, m_OpCount, lastEnded>>
    BY <1>6 DEF CancelRound, TimerFires, Cancel, OnTimeout, roundVars, EmittedInv
  <2>2. Running' = Running
    BY <2>1 DEF Running
  <2>3. PICK status \in Statuses \ {"AllDone"} : ReportStatus(status)
    BY <1>6 DEF CancelRound, TimerFires, Cancel, OnTimeout, Statuses
  <2>4. /\ m_StatusReported' \in {0, 1} /\ emitted' \in Seq(Statuses)
        /\ m_StatusReported' = Len(emitted') /\ emitted' # <<>>
        /\ emitted # <<>> => emitted' = emitted
        /\ emitted = <<>> => emitted' = <<status>>
    BY <2>3, ReportFacts
  <2>5. <<status>> # <<"AllDone">>
    BY <2>3
  <2>6. m_Timer' \in BOOLEAN
    BY <1>6 DEF CancelRound, TimerFires, Cancel, OnTimeout, TypeOK
  <2>7. TypeOK'
    BY <2>1, <2>4, <2>6 DEF TypeOK
  <2>8. EmittedInv'
    BY <2>1, <2>2, <2>4, <2>5 DEF EmittedInv
  <2> QED BY <2>1, <2>2, <2>4, <2>7, <2>8 DEF CountInv, OwnersShare, LastInv, OwnerInv
<1>7. CASE HandleReport
  <2>1. Running' = Running
    BY <1>7 DEF HandleReport, Running
  <2> QED BY <1>7, <2>1 DEF HandleReport, coordinatorVars, TypeOK, CountInv, OwnersShare,
             LastInv, EmittedInv, OwnerInv
<1>8. CASE UNCHANGED vars
  BY <1>8 DEF vars, TypeOK, CountInv, OwnersShare, LastInv, EmittedInv, OwnerInv, Running
<1> QED BY <1>1, <1>2, <1>3, <1>4, <1>5, <1>6, <1>7, <1>8 DEF Next

LEMMA InvariantHolds == Spec => []IInv
  BY InitHolds, StepHolds, PTL DEF Spec

-----------------------------------------------------------------------------
(* The theorems. *)

\* The state keeps its types.
THEOREM RoundsTypeCorrect == Spec => []TypeOK
<1>1. IInv => TypeOK
  BY DEF IInv
<1> QED BY <1>1, InvariantHolds, PTL

\* reportStatus: one statusReported between two resets, whoever races.
THEOREM ReportsOnce == Spec => []OneReport
<1>1. IInv => OneReport
  BY DEF IInv, TypeOK, EmittedInv, OneReport
<1> QED BY <1>1, InvariantHolds, PTL

\* justEnded: AllDone only when all has begun and ended.
THEOREM AllDoneIsTrue == Spec => []AllDoneMeansDone
<1>1. IInv => AllDoneMeansDone
  BY DEF IInv, EmittedInv, AllDoneMeansDone
<1> QED BY <1>1, InvariantHolds, PTL

\* reset: a new round starts without a report under way.
THEOREM RoundsAreSeparate == Spec => []NoStaleReport
<1>1. IInv => NoStaleReport
  BY DEF IInv, LastInv, OwnerInv, EmittedInv, NoStaleReport
<1> QED BY <1>1, InvariantHolds, PTL

-----------------------------------------------------------------------------
(* The start-up: what its coordinator has emitted is counted by             *)
(* m_StatusReported, and the slot runs once for what was emitted.           *)

\* Every way to a report goes through the exchange of m_StatusReported.
ReportInv == m_StatusReported = Len(emitted) /\ m_ServicesInitialized <= Len(emitted)

StartupInv == StartupTypeOK /\ ReportInv

\* reportStatus: the first of its callers emits, the others do not.
LEMMA ReportCounts ==
    ASSUME m_StatusReported \in {0, 1}, emitted \in Seq(Statuses),
           m_StatusReported = Len(emitted), NEW status \in Statuses, ReportStatus(status)
    PROVE  /\ m_StatusReported' \in {0, 1} /\ emitted' \in Seq(Statuses)
           /\ m_StatusReported' = Len(emitted') /\ Len(emitted) <= Len(emitted')
           /\ \A n \in Nat : n <= Len(emitted) => n <= Len(emitted')
BY DEF ReportStatus

\* The statements of start() and where the main thread may be in them.
LEMMA ProgramLength ==
    /\ Len(Program) = 10
    /\ \A s \in 1..Len(Program) : s < 10 => s + 1 \in 1..Len(Program)
    /\ Program[10] = "eventLoop"
BY DEF Program

LEMMA StartupInitHolds == StartupInit => StartupInv
<1> SUFFICES ASSUME StartupInit PROVE StartupInv
  OBVIOUS
<1>1. 1 \in 1..Len(Program) /\ emitted \in Seq(Statuses) /\ Len(emitted) = 0
  BY ProgramLength DEF StartupInit, CoordinatorInit
<1>2. service \in [Services -> {"off", "starting", "ready"}]
  BY DEF StartupInit
<1>3. m_OpCount = 1 /\ m_StatusReported = 0 /\ lastEnded = {} /\ m_ServicesInitialized = 0
  BY DEF StartupInit, CoordinatorInit
<1>4. m_Timer \in BOOLEAN /\ sync \in BOOLEAN /\ started \in BOOLEAN /\ step = 1
  BY Zenon DEF StartupInit, CoordinatorInit
<1>5. StartupTypeOK
  BY <1>1, <1>2, <1>3, <1>4 DEF StartupTypeOK
<1> QED
  BY <1>1, <1>3, <1>5 DEF StartupInv, ReportInv

LEMMA Advances ==
    ASSUME step \in 1..Len(Program), Program[step] # "eventLoop", Advance
    PROVE  step' \in 1..Len(Program)
BY ProgramLength DEF Advance

LEMMA StartupStepHolds == StartupInv /\ [StartupNext]_allVars => StartupInv'
<1> SUFFICES ASSUME StartupInv, [StartupNext]_allVars PROVE StartupInv'
  OBVIOUS
<1> USE DEF StartupInv, StartupTypeOK, ReportInv
<1>1. ASSUME NEW s \in Services, StartService(s) PROVE StartupInv'
  <2>1. Program[step] # "eventLoop"
    BY <1>1 DEF StartService, At, Services
  <2> QED
    BY <1>1, <2>1, Advances DEF StartService, AboutToBegin, coordinatorVars
<1>2. ASSUME NEW s \in Synchronous, EnterSynchronous(s) PROVE StartupInv'
  BY <1>2 DEF EnterSynchronous, AboutToBegin
<1>3. ASSUME NEW s \in Synchronous, LeaveSynchronous(s) PROVE StartupInv'
  <2>1. Program[step] # "eventLoop"
    BY <1>3 DEF LeaveSynchronous, At, Synchronous
  <2>2. step' \in 1..Len(Program) /\ JustEnded(Main)
    BY <1>3, <2>1, Advances DEF LeaveSynchronous
  <2>3. m_OpCount' \in Int /\ lastEnded' \subseteq Services \cup {Main}
    BY <2>2 DEF JustEnded, CountDown
  <2> QED
    BY <1>3, <2>2, <2>3 DEF LeaveSynchronous, JustEnded
<1>4. CASE AllHaveBegun
  <2>1. Program[step] # "eventLoop"
    BY <1>4 DEF AllHaveBegun, At
  <2> QED
    BY <1>4, <2>1, Advances DEF AllHaveBegun, AllBegun, CountDown
<1>5. CASE NoEventsToProcess
  <2>1. Program[step] # "eventLoop"
    BY <1>5 DEF NoEventsToProcess, At
  <2> QED
    BY <1>5, <2>1, Advances DEF NoEventsToProcess, coordinatorVars
<1>6. CASE StartupTimerFires
  <2>1. ReportStatus("Timeout") /\ "Timeout" \in Statuses
    BY <1>6 DEF StartupTimerFires, OnTimeout, Statuses
  <2>2. /\ m_StatusReported' \in {0, 1} /\ emitted' \in Seq(Statuses)
        /\ m_StatusReported' = Len(emitted') /\ m_ServicesInitialized <= Len(emitted')
    BY <2>1, ReportCounts
  <2> QED
    BY <1>6, <2>2 DEF StartupTimerFires, OnTimeout, startupVars
<1>7. CASE ServicesInitialized
  BY <1>7 DEF ServicesInitialized, coordinatorVars
<1>8. ASSUME NEW s \in Services, Initialized(s) PROVE StartupInv'
  BY <1>8 DEF Initialized, JustEnded, CountDown
<1>9. ASSUME NEW p \in Services \cup {Main}, FinishServiceCall(p) PROVE StartupInv'
  <2>1. ReportStatus("AllDone") /\ "AllDone" \in Statuses
    BY <1>9 DEF FinishServiceCall, ReportAllDone, Statuses
  <2> QED
    BY <1>9, <2>1, ReportCounts DEF FinishServiceCall, ReportAllDone, startupVars
<1>10. CASE UNCHANGED allVars
  BY <1>10 DEF allVars
<1> QED
  BY <1>1, <1>2, <1>3, <1>4, <1>5, <1>6, <1>7, <1>8, <1>9, <1>10 DEF StartupNext, MainThread

\* The state of the start-up keeps its types.
THEOREM StartupTypeCorrect == StartupSpec => []StartupTypeOK
<1>1. StartupInv => StartupTypeOK
  BY DEF StartupInv
<1> QED
  BY <1>1, StartupInitHolds, StartupStepHolds, PTL DEF StartupSpec

\* "Q_ASSERT(m_ServicesInitialized.load() == 0)" never fails: servicesInitialized
\* runs at most once, whichever of the timer and the services reports.
THEOREM StartsOnce == StartupSpec => []InitializedOnce
<1>1. StartupInv => InitializedOnce
  BY DEF StartupInv, StartupTypeOK, ReportInv, InitializedOnce
<1> QED
  BY <1>1, StartupInitHolds, StartupStepHolds, PTL DEF StartupSpec

=============================================================================
