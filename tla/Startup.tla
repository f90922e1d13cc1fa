------------------------------- MODULE Startup -------------------------------
(***************************************************************************)
(* XpiksApp::start: the main thread starts the services one by one; those  *)
(* that take the start-up coordinator end their part on a thread of their  *)
(* own, and servicesInitialized, the slot of statusReported, lets the      *)
(* application go on (plugins, session restore, update check).             *)
(*                                                                         *)
(* A service that announces itself does so (AsyncCoordinatorLocker) before *)
(* it starts its thread; image caching and auto-completion end an          *)
(* operation (AsyncCoordinatorUnlocker) that no one announced.  Services   *)
(* that do not take the coordinator are left out.                          *)
(***************************************************************************)
EXTENDS AsyncCoordinator, FiniteSets

CONSTANTS
    Main,             \* the main thread
    ServiceMayHang    \* a service may never finish its initialisation

ASSUME ServiceMayHang \in BOOLEAN

VARIABLES
    step,             \* the statement of start() the main thread is at
    service,          \* off, starting, ready, for each service
    sync,             \* inside a call that announces and ends an operation itself
    m_ServicesInitialized,
    started           \* afterServicesStarted has run

startupVars == <<step, service, sync, m_ServicesInitialized, started>>
allVars == <<m_OpCount, m_StatusReported, m_Timer, lastEnded, emitted,
             step, service, sync, m_ServicesInitialized, started>>

\* The statements of start() that concern the coordinator, in their order.
Program == <<"imageCaching", "spellCheck", "autoComplete", "translation", "processEvents",
             "stocksList", "dictionaries", "exportPlans", "allBegun", "eventLoop">>
Services == {"imageCaching", "spellCheck", "autoComplete", "translation", "dictionaries"}
Announced == {"spellCheck", "translation", "dictionaries"}
Synchronous == {"stocksList", "exportPlans"}

At(s) == Program[step] = s
Advance == step' = step + 1
MainIsFree == Main \notin lastEnded

StartupInit ==
    /\ CoordinatorInit
    /\ step = 1
    /\ service = [s \in Services |-> "off"]
    /\ sync = FALSE
    /\ m_ServicesInitialized = 0
    /\ started = FALSE

-----------------------------------------------------------------------------
(* The main thread. *)

StartService(s) ==
    /\ At(s) /\ MainIsFree
    /\ service' = [service EXCEPT ![s] = "starting"]
    /\ IF s \in Announced THEN AboutToBegin ELSE UNCHANGED coordinatorVars
    /\ Advance
    /\ UNCHANGED <<sync, m_ServicesInitialized, started>>

\* initializeStocksList, initializeExportPlans: Locker, Unlocker, all in one call.
EnterSynchronous(s) ==
    /\ At(s) /\ MainIsFree
    /\ ~sync
    /\ AboutToBegin
    /\ sync' = TRUE
    /\ UNCHANGED <<step, service, m_ServicesInitialized, started>>

LeaveSynchronous(s) ==
    /\ At(s)
    /\ sync
    /\ JustEnded(Main)
    /\ sync' = FALSE
    /\ Advance
    /\ UNCHANGED <<service, m_ServicesInitialized, started>>

\* The destructor of AsyncCoordinatorStarter, with five seconds.
AllHaveBegun ==
    /\ At("allBegun") /\ MainIsFree
    /\ AllBegun(Main, TRUE)
    /\ Advance
    /\ UNCHANGED <<service, sync, m_ServicesInitialized, started>>

NoEventsToProcess ==
    /\ At("processEvents")
    /\ Advance
    /\ UNCHANGED <<coordinatorVars, service, sync, m_ServicesInitialized, started>>

StartupTimerFires ==
    /\ At("eventLoop") /\ MainIsFree
    /\ OnTimeout
    /\ UNCHANGED startupVars

\* servicesInitialized, delivered by the event loop or by processEvents().
ServicesInitialized ==
    /\ At("eventLoop") \/ At("processEvents")
    /\ MainIsFree
    /\ m_ServicesInitialized < Len(emitted)
    /\ m_ServicesInitialized' = m_ServicesInitialized + 1
    /\ started' = TRUE
    /\ UNCHANGED <<coordinatorVars, step, service, sync>>

-----------------------------------------------------------------------------
(* The services' threads. *)

\* initWorker (or the dictionaries' job) ends, successfully or not.
Initialized(s) ==
    /\ service[s] = "starting"
    /\ JustEnded(s)
    /\ service' = [service EXCEPT ![s] = "ready"]
    /\ UNCHANGED <<step, sync, m_ServicesInitialized, started>>

FinishServiceCall(p) == ReportAllDone(p) /\ UNCHANGED startupVars

MainThread ==
    \/ AllHaveBegun \/ NoEventsToProcess
    \/ \E s \in Services : StartService(s)
    \/ \E s \in Synchronous : EnterSynchronous(s) \/ LeaveSynchronous(s)

StartupNext ==
    \/ MainThread \/ StartupTimerFires \/ ServicesInitialized
    \/ \E s \in Services : Initialized(s)
    \/ \E p \in Services \cup {Main} : FinishServiceCall(p)

StartupSpec == StartupInit /\ [][StartupNext]_allVars

StartupFairness ==
    /\ WF_allVars(MainThread) /\ WF_allVars(StartupTimerFires) /\ WF_allVars(ServicesInitialized)
    /\ \A p \in Services \cup {Main} : WF_allVars(FinishServiceCall(p))
    /\ ~ServiceMayHang => \A s \in Services : WF_allVars(Initialized(s))

StartupFairSpec == StartupSpec /\ StartupFairness

-----------------------------------------------------------------------------
\* The types of the state.
StartupTypeOK ==
    /\ m_OpCount \in Int
    /\ m_StatusReported \in {0, 1}
    /\ m_Timer \in BOOLEAN
    /\ lastEnded \subseteq Services \cup {Main}
    /\ emitted \in Seq(Statuses)
    /\ step \in 1..Len(Program)
    /\ service \in [Services -> {"off", "starting", "ready"}]
    /\ sync \in BOOLEAN
    /\ m_ServicesInitialized \in Nat
    /\ started \in BOOLEAN

\* servicesInitialized asserts that it is called for the first time: no two of
\* the threads that take the count to zero, and the timer, both get through.
InitializedOnce == Len(emitted) <= 1 /\ m_ServicesInitialized <= 1

\* The application goes on in the end, even when a service hangs.
AppStarts == <>started

=============================================================================
