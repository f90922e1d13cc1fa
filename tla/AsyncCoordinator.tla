--------------------------- MODULE AsyncCoordinator ---------------------------
(***************************************************************************)
(* Helpers::AsyncCoordinator: counts the operations that are under way and *)
(* reports once, when the last one ends, on cancellation or on a timeout.  *)
(*                                                                         *)
(* This module is the object alone: its state and its operations, to be    *)
(* conjoined with the control state of the threads that call them          *)
(* (CoordinatorRounds, Startup, VideoExport, ImportPipeline).  fetch_add,  *)
(* fetch_sub and exchange are one step each, so justEnded is two: the      *)
(* thread that took the count to zero reports in a later step.             *)
(***************************************************************************)
EXTENDS Integers, Sequences

VARIABLES
    m_OpCount,
    m_StatusReported,
    m_Timer,            \* the single-shot timer is running
    lastEnded,          \* callers of justEnded that got 1 from fetch_sub
    emitted             \* history: statusReported signals since the last reset

coordinatorVars == <<m_OpCount, m_StatusReported, m_Timer, lastEnded, emitted>>

Statuses == {"AllDone", "Cancel", "Timeout"}

CoordinatorInit ==
    /\ m_OpCount = 1
    /\ m_StatusReported = 0
    /\ m_Timer = FALSE
    /\ lastEnded = {}
    /\ emitted = <<>>

ResetCountOnly ==
    /\ m_OpCount' = 1
    /\ UNCHANGED m_StatusReported
    /\ emitted' = <<>>
    /\ UNCHANGED <<m_Timer, lastEnded>>

\* The count starts at one, for the caller of allBegun.  The timer is not
\* stopped.
Reset ==
    /\ m_OpCount' = 1
    /\ m_StatusReported' = 0
    /\ emitted' = <<>>
    /\ UNCHANGED <<m_Timer, lastEnded>>

AboutToBeginTwice ==
    /\ m_OpCount' = m_OpCount + 2
    /\ UNCHANGED <<m_StatusReported, m_Timer, lastEnded, emitted>>

AboutToBegin ==
    /\ m_OpCount' = m_OpCount + 1
    /\ UNCHANGED <<m_StatusReported, m_Timer, lastEnded, emitted>>

CountDownEarly(p) ==
    /\ m_OpCount' = m_OpCount - 1
    /\ lastEnded' = IF m_OpCount <= 2 THEN lastEnded \cup {p} ELSE lastEnded

CountDown(p) ==
    /\ m_OpCount' = m_OpCount - 1
    /\ lastEnded' = IF m_OpCount = 1 THEN lastEnded \cup {p} ELSE lastEnded

\* justEnded, its fetch_sub, by thread p.
JustEnded(p) ==
    /\ CountDown(p)
    /\ UNCHANGED <<m_StatusReported, m_Timer, emitted>>

AllBegunUntimed(p, timed) ==
    /\ CountDown(p)
    /\ UNCHANGED <<m_StatusReported, m_Timer, emitted>>

\* allBegun: with a timeout it starts the timer first.
AllBegun(p, timed) ==
    /\ m_Timer' = (timed \/ m_Timer)
    /\ CountDown(p)
    /\ UNCHANGED <<m_StatusReported, emitted>>

ReportAlways(status) ==
    /\ m_StatusReported' = 1
    /\ emitted' = Append(emitted, status)

\* reportStatus: only the first caller after a reset emits.
ReportStatus(status) ==
    /\ m_StatusReported' = 1
    /\ emitted' = IF m_StatusReported = 0 THEN Append(emitted, status) ELSE emitted

\* justEnded, its report.
ReportAllDone(p) ==
    /\ p \in lastEnded
    /\ lastEnded' = lastEnded \ {p}
    /\ ReportStatus("AllDone")
    /\ UNCHANGED <<m_OpCount, m_Timer>>

Cancel ==
    /\ ReportStatus("Cancel")
    /\ UNCHANGED <<m_OpCount, m_Timer, lastEnded>>

OnTimeout ==
    /\ m_Timer
    /\ m_Timer' = FALSE
    /\ ReportStatus("Timeout")
    /\ UNCHANGED <<m_OpCount, lastEnded>>

=============================================================================
