------------------------ MODULE ItemProcessingWorker ------------------------
(***************************************************************************)
(* Common::ItemProcessingWorker, the job queue under every background      *)
(* service of xpiks: one worker thread takes items from the front of a     *)
(* deque, any other thread submits, withdraws, stops or waits.             *)
(*                                                                         *)
(* A step is one critical section of m_QueueMutex, one access to m_Cancel, *)
(* one operation on the idle event, or one virtual call.  A submission is  *)
(* therefore two steps: m_Cancel is read before the mutex is taken.        *)
(* Payloads are abstracted: a job is the submission it came with (id) and  *)
(* its rank in it (n).  Milestones only make a handler sleep and are left  *)
(* out.  A handler that submits again is one more client.                  *)
(***************************************************************************)
EXTENDS Integers, FiniteSets

CONSTANTS
    Clients,          \* the threads that use the worker
    MaxBatches,       \* bound: how many batch ids are handed out
    MaxBatchSize,     \* bound: the longest vector passed to submitItems
    MaxSeparators,    \* bound: separators queued at one time
    InitMayFail       \* initWorker may fail (spell check, auto-completion)

ASSUME BoundsAssumption ==
    /\ MaxBatches \in Nat /\ MaxBatchSize \in Nat \ {0} /\ MaxSeparators \in Nat
    /\ InitMayFail \in BOOLEAN

INVALID_BATCH_ID == 0

VARIABLES
    m_Queue,          \* the deque: [items, end]
    m_BatchID,        \* the next batch id
    m_Cancel,
    m_IdleEvent,      \* the flag of the manual reset event
    m_Results,        \* jobs whose result has not been reported yet
    worker,           \* the worker thread: [pc, item, noMoreItems]
    call,             \* the call each client is inside: [op, size, seen]
    \* history
    accepted,         \* jobs ever put in the queue
    done,             \* jobs whose handler has ended
    withdrawn,        \* ids of the items removed by cancelBatch, cancelPendingJobs
    announced         \* onQueueIsEmpty was called since the last submission

queueVars == <<m_Queue, m_BatchID>>
history == <<accepted, done, withdrawn, announced>>
vars == <<m_Queue, m_BatchID, m_Cancel, m_IdleEvent, m_Results, worker, call,
          accepted, done, withdrawn, announced>>

Jobs == [id : 1..MaxBatches, n : 1..MaxBatchSize]
Kinds == {"item", "separator", "stopper"}
WorkItem == [kind : Kinds, id : 0..MaxBatches, n : 1..MaxBatchSize, pos : Int]
NoItem == [kind |-> "separator", id |-> INVALID_BATCH_ID, n |-> 1, pos |-> 0]
JobOf(w) == [id |-> w.id, n |-> w.n]
JobsOf(items) == {JobOf(w) : w \in {v \in items : v.kind = "item"}}

-----------------------------------------------------------------------------
(* The deque.  The front is the item of least position; new items go to    *)
(* the position end and after it.  An erased item leaves a gap.            *)

EmptyQueue == [items |-> {}, end |-> 0]

Shifted(items, d) == {[w EXCEPT !.pos = @ + d] : w \in items}

Placed(kind, id, size, first) ==
    {[kind |-> kind, id |-> id, n |-> i, pos |-> first + i - 1] : i \in 1..size}

PushBack(q, kind, id, size) ==
    [items |-> q.items \cup Placed(kind, id, size, q.end), end |-> q.end + size]

PushFront(q, id) ==
    [items |-> Shifted(q.items, 1) \cup Placed("item", id, 1, 0), end |-> q.end + 1]

\* cancelBatch: erase(remove_if(...)).
RemovedNotErased(items, batchID) == items

Without(items, batchID) == {w \in items : w.id # batchID}

Keep(q, items) == IF items = {} THEN EmptyQueue ELSE [q EXCEPT !.items = items]

PeekFront(q, w) == q

PopFront(q, w) ==
    IF q.items = {w}
      THEN EmptyQueue
      ELSE [items |-> Shifted(q.items \ {w}, -(w.pos + 1)), end |-> q.end - (w.pos + 1)]

IsBack(w) == w \in m_Queue.items /\ \A v \in m_Queue.items : v.pos <= w.pos

IsFront(w) == w \in m_Queue.items /\ \A v \in m_Queue.items : w.pos <= v.pos

IsEmpty == m_Queue.items = {}

-----------------------------------------------------------------------------
NoCall == [op |-> "none", size |-> 0, seen |-> {}]
BatchPushes == {"submitItem", "submitFirst", "submitItems"}
Ops == BatchPushes \cup {"none", "submitSeparator", "onQueueIsEmpty", "stopNow", "stopLater", "waitIdle"}
Idle(c) == call[c] = NoCall
Enter(c, op, size, seen) ==
    call' = [call EXCEPT ![c] = [op |-> op, size |-> size, seen |-> seen]]
Return(c) == call' = [call EXCEPT ![c] = NoCall]

Init ==
    /\ m_Queue = EmptyQueue
    /\ m_BatchID = 1
    /\ m_Cancel = FALSE
    /\ m_IdleEvent = FALSE
    /\ m_Results = {}
    /\ worker = [pc |-> "created", item |-> NoItem, noMoreItems |-> FALSE]
    /\ call = [c \in Clients |-> NoCall]
    /\ accepted = {} /\ done = {} /\ withdrawn = {}
    /\ announced = TRUE

-----------------------------------------------------------------------------
(* The clients. *)

Inside(ops) == {c \in Clients : call[c].op \in ops}
Separators == {w \in m_Queue.items : w.kind = "separator"}
WithinBounds(op) ==
    IF op = "submitSeparator"
      THEN Cardinality(Inside({op})) + Cardinality(Separators) < MaxSeparators
      ELSE m_BatchID + Cardinality(Inside(BatchPushes)) <= MaxBatches

\* m_Cancel is read here; the item is queued later, in a critical section.
CheckCancel(c, op, size) ==
    /\ Idle(c)
    /\ ~m_Cancel
    /\ WithinBounds(op)
    /\ Enter(c, op, size, {})
    /\ UNCHANGED <<queueVars, m_Cancel, m_IdleEvent, m_Results, worker, history>>

\* submitSeparator: a separator takes no batch id.
SubmitSeparator(c) ==
    /\ call[c].op = "submitSeparator"
    /\ m_Queue' = PushBack(m_Queue, "separator", INVALID_BATCH_ID, 1)
    /\ announced' = FALSE
    /\ Return(c)
    /\ UNCHANGED <<m_BatchID, m_Cancel, m_IdleEvent, m_Results, worker,
                   accepted, done, withdrawn>>

\* submitItem, submitFirst, submitItems: the id is drawn under the mutex, and
\* drawn for an empty vector too.
SubmitItems(c) ==
    /\ call[c].op \in BatchPushes
    /\ m_BatchID <= MaxBatches
    /\ m_BatchID' = m_BatchID + 1
    /\ m_Queue' = IF call[c].op = "submitFirst"
                    THEN PushFront(m_Queue, m_BatchID)
                    ELSE PushBack(m_Queue, "item", m_BatchID, call[c].size)
    /\ accepted' = accepted \cup [id : {m_BatchID}, n : 1..call[c].size]
    /\ announced' = (announced /\ call[c].size = 0)
    /\ Return(c)
    /\ UNCHANGED <<m_Cancel, m_IdleEvent, m_Results, worker, done, withdrawn>>

\* cancelBatch of an id this process handed out.
CancelBatch(c, batchID) ==
    LET kept == Without(m_Queue.items, batchID) IN
    /\ Idle(c)
    /\ m_Queue' = Keep(m_Queue, kept)
    /\ withdrawn' = withdrawn \cup {batchID}
    /\ IF kept = {} THEN Enter(c, "onQueueIsEmpty", 0, {}) ELSE UNCHANGED call
    /\ UNCHANGED <<m_BatchID, m_Cancel, m_IdleEvent, m_Results, worker,
                   accepted, done, announced>>

\* cancelPendingJobs.  Its callers do not call it once the service stops.
CancelPendingJobs(c) ==
    /\ Idle(c)
    /\ ~m_Cancel
    /\ m_Queue' = EmptyQueue
    /\ withdrawn' = withdrawn \cup {w.id : w \in m_Queue.items}
    /\ Enter(c, "onQueueIsEmpty", 0, {})
    /\ UNCHANGED <<m_BatchID, m_Cancel, m_IdleEvent, m_Results, worker,
                   accepted, done, announced>>

\* onQueueIsEmpty called by the thread that cancelled.
AnnounceCancelled(c) ==
    /\ call[c].op = "onQueueIsEmpty"
    /\ announced' = TRUE
    /\ Return(c)
    /\ UNCHANGED <<queueVars, m_Cancel, m_IdleEvent, m_Results, worker,
                   accepted, done, withdrawn>>

\* stopWorking, first its store to m_Cancel.
RequestStop(c, immediately) ==
    /\ Idle(c)
    /\ ~m_Cancel
    /\ m_Cancel' = TRUE
    /\ Enter(c, IF immediately THEN "stopNow" ELSE "stopLater", 0, {})
    /\ UNCHANGED <<queueVars, m_IdleEvent, m_Results, worker, history>>

\* stopWorking, its critical section.
PushNothing(c) ==
    /\ call[c].op \in {"stopNow", "stopLater"}
    /\ m_Queue' = IF call[c].op = "stopNow" THEN EmptyQueue ELSE m_Queue
    /\ Return(c)
    /\ UNCHANGED <<m_BatchID, m_Cancel, m_IdleEvent, m_Results, worker, history>>

PushStopper(c) ==
    /\ call[c].op \in {"stopNow", "stopLater"}
    /\ m_Queue' = PushBack(IF call[c].op = "stopNow" THEN EmptyQueue ELSE m_Queue,
                           "stopper", INVALID_BATCH_ID, 1)
    /\ Return(c)
    /\ UNCHANGED <<m_BatchID, m_Cancel, m_IdleEvent, m_Results, worker, history>>

\* waitIdle; seen is the job whose handler runs when the call is made.  The
\* owners that wait (video caching, metadata storage) have an initWorker that
\* cannot fail: after a failed one the event is never set.
WaitIdle(c) ==
    /\ Idle(c)
    /\ ~InitMayFail
    /\ Enter(c, "waitIdle", 0,
             IF worker.pc = "processing" THEN JobsOf({worker.item}) ELSE {})
    /\ UNCHANGED <<queueVars, m_Cancel, m_IdleEvent, m_Results, worker, history>>

WaitIdleReturns(c) ==
    /\ call[c].op = "waitIdle"
    /\ m_IdleEvent
    /\ Return(c)
    /\ UNCHANGED <<queueVars, m_Cancel, m_IdleEvent, m_Results, worker, history>>

-----------------------------------------------------------------------------
(* The worker thread. *)

Goto(pc) == worker' = [worker EXCEPT !.pc = pc]

\* doWork: initWorker succeeds and the loop is entered, or it fails and the
\* worker is cancelled without an entry in the queue.
DoWork(initialized) ==
    /\ worker.pc = "created"
    /\ initialized \/ InitMayFail
    /\ IF initialized
         THEN Goto("loop") /\ m_IdleEvent' = TRUE /\ UNCHANGED m_Cancel
         ELSE Goto("exited") /\ m_Cancel' = TRUE /\ UNCHANGED m_IdleEvent
    /\ UNCHANGED <<queueVars, m_Results, call, history>>

\* A new iteration declares workItem and noMoreItems afresh.
LoopHead ==
    /\ worker.pc = "loop"
    /\ worker' = [pc |-> IF m_Cancel THEN "exited" ELSE "take",
                  item |-> NoItem, noMoreItems |-> FALSE]
    /\ UNCHANGED <<queueVars, m_Cancel, m_IdleEvent, m_Results, call, history>>

EndsLoopOnMarker(w) == w.kind # "item"

\* WorkItem::isStopper
EndsLoop(w) == w.kind = "stopper"

\* Waits for a non-empty queue and pops its front, all under the mutex.
Take ==
    /\ worker.pc = "take"
    /\ \E w \in m_Queue.items :
         /\ IsFront(w)
         /\ m_Queue' = PopFront(m_Queue, w)
         /\ worker' = [pc |-> IF EndsLoop(w) THEN "exited" ELSE "taken",
                       item |-> w, noMoreItems |-> m_Queue.items = {w}]
    /\ UNCHANGED <<m_BatchID, m_Cancel, m_IdleEvent, m_Results, call, history>>

ResetIdleMissing ==
    /\ worker.pc = "taken"
    /\ Goto("processing")
    /\ UNCHANGED <<queueVars, m_Cancel, m_IdleEvent, m_Results, call, history>>

ResetIdle ==
    /\ worker.pc = "taken"
    /\ m_IdleEvent' = FALSE
    /\ Goto("processing")
    /\ UNCHANGED <<queueVars, m_Cancel, m_Results, call, history>>

\* processWorkItem and saveResult.  The handler gives a result, or it gives
\* none or throws; a separator carries no job.
Process(hasResult) ==
    LET jobs == JobsOf({worker.item}) IN
    /\ worker.pc = "processing"
    /\ done' = done \cup jobs
    /\ m_Results' = IF hasResult THEN m_Results \cup jobs ELSE m_Results
    /\ Goto("processed")
    /\ UNCHANGED <<queueVars, m_Cancel, m_IdleEvent, call,
                   accepted, withdrawn, announced>>

AfterSeparatorFirst ==
    CASE worker.item.kind = "separator" -> "report"
      [] worker.item.kind # "separator" /\ worker.noMoreItems -> "drained"
      [] OTHER -> "loop"

\* What follows the handler: onQueueIsEmpty when the queue was empty after the
\* pop, reportResults then or after a separator.
AfterHandler ==
    CASE worker.noMoreItems -> "drained"
      [] ~worker.noMoreItems /\ worker.item.kind = "separator" -> "report"
      [] OTHER -> "loop"

SetIdle ==
    /\ worker.pc = "processed"
    /\ m_IdleEvent' = TRUE
    /\ Goto(AfterHandler)
    /\ UNCHANGED <<queueVars, m_Cancel, m_Results, call, history>>

AnnounceOnly ==
    /\ worker.pc = "drained"
    /\ announced' = TRUE
    /\ Goto("loop")
    /\ UNCHANGED <<queueVars, m_Cancel, m_IdleEvent, m_Results, call,
                   accepted, done, withdrawn>>

\* onQueueIsEmpty called by the worker.
AnnounceDrained ==
    /\ worker.pc = "drained"
    /\ announced' = TRUE
    /\ Goto("report")
    /\ UNCHANGED <<queueVars, m_Cancel, m_IdleEvent, m_Results, call,
                   accepted, done, withdrawn>>

ReportResults ==
    /\ worker.pc = "report"
    /\ m_Results' = {}
    /\ Goto("loop")
    /\ UNCHANGED <<queueVars, m_Cancel, m_IdleEvent, call, history>>

\* onWorkerStopped.
WorkerStopped ==
    /\ worker.pc = "exited"
    /\ worker' = [pc |-> "stopped", item |-> NoItem, noMoreItems |-> FALSE]
    /\ UNCHANGED <<queueVars, m_Cancel, m_IdleEvent, m_Results, call, history>>

WorkerStep ==
    \/ \E ok \in BOOLEAN : DoWork(ok) \/ Process(ok)
    \/ LoopHead \/ Take \/ ResetIdle \/ SetIdle
    \/ AnnounceDrained \/ ReportResults \/ WorkerStopped

\* A call that has begun and does not wait for the worker.
Proceed(c) == SubmitSeparator(c) \/ SubmitItems(c) \/ AnnounceCancelled(c) \/ PushStopper(c)

Begin(c) ==
    \/ CheckCancel(c, "submitSeparator", 1)
    \/ \E op \in {"submitItem", "submitFirst"} : CheckCancel(c, op, 1)
    \/ \E size \in 0..MaxBatchSize : CheckCancel(c, "submitItems", size)
    \/ \E b \in 1..(m_BatchID - 1) : CancelBatch(c, b)
    \/ CancelPendingJobs(c)
    \/ \E now \in BOOLEAN : RequestStop(c, now)
    \/ WaitIdle(c)

Next ==
    \/ WorkerStep
    \/ \E c \in Clients : Begin(c) \/ Proceed(c) \/ WaitIdleReturns(c)

Spec == Init /\ [][Next]_vars

\* The operating system runs the worker thread and every thread inside a call;
\* nobody has to call anything.
Fairness == WF_vars(WorkerStep) /\ \A c \in Clients : WF_vars(Proceed(c))

FairSpec == Spec /\ Fairness

-----------------------------------------------------------------------------
(* Properties. *)

PCs == {"created", "loop", "take", "taken", "processing", "processed", "drained",
        "report", "exited", "stopped"}

\* The types of the state.
TypeOK ==
    /\ m_Queue \in [items : SUBSET WorkItem, end : Int]
    /\ m_BatchID \in 1..(MaxBatches + 1)
    /\ m_Cancel \in BOOLEAN
    /\ m_IdleEvent \in BOOLEAN
    /\ m_Results \in SUBSET Jobs
    /\ worker \in [pc : PCs, item : WorkItem, noMoreItems : BOOLEAN]
    /\ call \in [Clients -> [op : Ops, size : 0..MaxBatchSize, seen : SUBSET Jobs]]
    /\ accepted \in SUBSET Jobs
    /\ done \in SUBSET Jobs
    /\ withdrawn \in SUBSET (0..MaxBatches)
    /\ announced \in BOOLEAN

\* cancelBatch: once it has returned nothing of the batch is queued, now or
\* later, so the owner can tell that at most the job already taken still runs.
WithdrawnStaysOut ==
    \A w \in m_Queue.items : w.kind = "item" => w.id \notin withdrawn

\* The jobs the worker has in hand, from the pop to the end of the handler.
Running ==
    IF worker.pc \in {"taken", "processing"} THEN JobsOf({worker.item}) ELSE {}

\* A job is queued, in the worker's hands or finished, never two of these: no
\* interleaving of submissions, cancellations and the worker runs a job twice.
AtMostOnce ==
    /\ JobsOf(m_Queue.items) \cap (Running \cup done) = {}
    /\ Running \cap done = {}

\* waitIdle: when it returns, the handler that was running when it was called
\* has ended.  (It does not wait for the queue to drain.)
WaitIdleWaits ==
    [][\A c \in Clients :
          call[c].op = "waitIdle" /\ call'[c].op = "none" => call[c].seen \subseteq done]_vars

\* onQueueIsEmpty: when the worker goes to sleep on an empty queue and nobody is
\* inside a call, its emptiness has been announced since the last submission, so
\* what waits for queueIsEmpty (the warnings model, the spelling progress) hears.
DrainIsAnnounced ==
    /\ worker.pc = "take" /\ IsEmpty /\ ~m_Cancel
    /\ \A c \in Clients : call[c].op # "onQueueIsEmpty"
    => announced

\* reportResults: no result is left behind when the worker goes to sleep, as
\* long as no cancellation emptied the queue under it.
ResultsAreReported ==
    worker.pc = "take" /\ IsEmpty /\ withdrawn = {} /\ ~m_Cancel => m_Results = {}

\* stopWorking: the worker leaves its loop, even when it checked m_Cancel just
\* before it was set and sleeps on an empty queue.
StopEnds == m_Cancel ~> worker.pc = "stopped"

\* An accepted job is finished in the end, unless it is withdrawn or the worker
\* is stopped: the worker is always woken.
JobsSettle ==
    \A j \in Jobs :
        j \in accepted ~> j \in done \/ j.id \in withdrawn \/ m_Cancel

\* The worker seen from outside: the queue is a set of waiting jobs.
Queue == INSTANCE JobQueue WITH
    waiting <- JobsOf(m_Queue.items),
    running <- Running

ImplementsJobQueue == Queue!Spec

=============================================================================
