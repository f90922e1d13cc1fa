-------------------------- MODULE CoordinatorRounds --------------------------
(***************************************************************************)
(* The way a coordinator is meant to be used.  The owner (the main thread) *)
(* opens a round, announces operations before it starts them, says that    *)
(* all have begun, and waits for the report; each operation ends on a      *)
(* thread of its own.  A writing or reading coordinator serves one round   *)
(* after another without a timer; the start-up coordinator serves one      *)
(* round, with a timer, and only such a round is interrupted: which of the *)
(* two a coordinator is does not change.                                   *)
(***************************************************************************)
EXTENDS AsyncCoordinator, FiniteSets

CONSTANTS
    Operations,       \* the operations a round may have
    Owner,            \* the thread that owns the coordinator
    MaxRounds         \* bound: how many rounds are opened

ASSUME RoundsAssumption ==
    /\ IsFiniteSet(Operations) /\ Owner \notin Operations
    /\ MaxRounds \in Nat \ {0}

VARIABLES
    owner,            \* idle, open (operations may begin), closed
    operation,        \* none, running, ended, for each operation of the round
    rounds,           \* rounds opened so far
    interruptible     \* the coordinator has a timer and may be cancelled

roundVars == <<owner, operation, rounds, interruptible>>
vars == <<m_OpCount, m_StatusReported, m_Timer, lastEnded, emitted,
          owner, operation, rounds, interruptible>>

Running == {o \in Operations : operation[o] = "running"}
InsideCall == Owner \in lastEnded     \* the owner is still inside allBegun

Init ==
    /\ CoordinatorInit
    /\ owner = "open"
    /\ operation = [o \in Operations |-> "none"]
    /\ rounds = 1
    /\ interruptible \in BOOLEAN

OpenRound ==
    /\ owner = "idle" /\ ~interruptible
    /\ rounds < MaxRounds
    /\ Reset
    /\ owner' = "open"
    /\ operation' = [o \in Operations |-> "none"]
    /\ rounds' = rounds + 1
    /\ UNCHANGED interruptible

BeginOperation(o) ==
    /\ owner = "open"
    /\ operation[o] = "none"
    /\ AboutToBegin
    /\ operation' = [operation EXCEPT ![o] = "running"]
    /\ UNCHANGED <<owner, rounds, interruptible>>

CloseRound ==
    /\ owner = "open"
    /\ AllBegun(Owner, interruptible)
    /\ owner' = "closed"
    /\ UNCHANGED <<operation, rounds, interruptible>>

EndOperation(o) ==
    /\ operation[o] = "running"
    /\ JustEnded(o)
    /\ operation' = [operation EXCEPT ![o] = "ended"]
    /\ UNCHANGED <<owner, rounds, interruptible>>

FinishCall(p) == ReportAllDone(p) /\ UNCHANGED roundVars

CancelRound ==
    /\ owner = "closed" /\ ~InsideCall
    /\ interruptible
    /\ Cancel
    /\ UNCHANGED roundVars

TimerFires ==
    /\ owner = "closed" /\ ~InsideCall
    /\ OnTimeout
    /\ UNCHANGED roundVars

\* The owner's event loop delivers the signal; the owner is free again.
HandleReport ==
    /\ owner = "closed" /\ ~InsideCall
    /\ emitted # <<>>
    /\ owner' = "idle"
    /\ UNCHANGED <<coordinatorVars, operation, rounds, interruptible>>

Next ==
    \/ OpenRound \/ CloseRound \/ CancelRound \/ TimerFires \/ HandleReport
    \/ \E o \in Operations : BeginOperation(o) \/ EndOperation(o)
    \/ \E p \in Operations \cup {Owner} : FinishCall(p)

Spec == Init /\ [][Next]_vars

\* Every thread inside a call goes on and the event loop runs.  Operations end,
\* but with a timer nothing is expected of them.
Fairness ==
    /\ WF_vars(HandleReport) /\ WF_vars(TimerFires)
    /\ \A p \in Operations \cup {Owner} : WF_vars(FinishCall(p))
    /\ \A o \in Operations : WF_vars(~interruptible /\ EndOperation(o))

FairSpec == Spec /\ Fairness

-----------------------------------------------------------------------------
\* The types of the state.
TypeOK ==
    /\ m_OpCount \in Int
    /\ m_StatusReported \in {0, 1}
    /\ m_Timer \in BOOLEAN
    /\ lastEnded \in SUBSET (Operations \cup {Owner})
    /\ emitted \in Seq(Statuses)
    /\ owner \in {"idle", "open", "closed"}
    /\ operation \in [Operations -> {"none", "running", "ended"}]
    /\ rounds \in 1..MaxRounds
    /\ interruptible \in BOOLEAN

\* reportStatus: however the end of the last operation, a cancellation and the
\* timer race, at most one statusReported is emitted between two resets (the
\* writing and the reading coordinator would finish an export or import twice).
OneReport == Len(emitted) <= 1

\* justEnded: the round is reported as done only when the owner has begun
\* everything and every operation it announced has ended.
AllDoneMeansDone ==
    emitted = <<"AllDone">> => owner # "open" /\ Running = {}

\* A report belongs to its round: when a new round opens no thread of an earlier
\* one is still about to report, unless the round was interrupted.
NoStaleReport ==
    owner = "open" => lastEnded = {} /\ m_StatusReported = 0

\* A closed round is reported in the end: by its last operation or, when an
\* operation hangs, by the timer.
RoundIsReported == owner = "closed" ~> emitted # <<>>

=============================================================================
