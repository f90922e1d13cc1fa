--------------------- MODULE ItemProcessingWorkerProofs ---------------------
(***************************************************************************)
(* Theorems about ItemProcessingWorker for any set of clients and any      *)
(* bounds: its types, that a job runs at most once, that a withdrawn job   *)
(* never starts, that waitIdle waits for the running handler, and that the *)
(* worker implements JobQueue.                                             *)
(***************************************************************************)
EXTENDS ItemProcessingWorker, TLAPS

-----------------------------------------------------------------------------
(* The operators of the deque. *)

\* What a critical section leaves in the deque: well-typed items, one per job,
\* and the jobs of one batch in the order of their positions.
Ordered(items) ==
    \A v, w \in items :
        v.kind = "item" /\ w.kind = "item" /\ v.id = w.id =>
            /\ v.n = w.n => v = w
            /\ v.pos <= w.pos => v.n <= w.n

LEMMA ShiftedFacts ==
    ASSUME NEW items \in SUBSET WorkItem, NEW d \in Int
    PROVE  /\ Shifted(items, d) \in SUBSET WorkItem
           /\ JobsOf(Shifted(items, d)) = JobsOf(items)
           /\ {w.id : w \in Shifted(items, d)} = {w.id : w \in items}
           /\ Ordered(items) => Ordered(Shifted(items, d))
<1> DEFINE sh(w) == [w EXCEPT !.pos = @ + d]
<1>1. \A w \in WorkItem :
        /\ sh(w) \in WorkItem
        /\ sh(w).kind = w.kind /\ sh(w).id = w.id /\ sh(w).n = w.n
        /\ sh(w).pos = w.pos + d
  BY DEF WorkItem
<1>2. Shifted(items, d) = {sh(w) : w \in items}
  BY DEF Shifted
<1> HIDE DEF sh
<1>3. Shifted(items, d) \in SUBSET WorkItem
  BY <1>1, <1>2
<1>4. JobsOf(Shifted(items, d)) = JobsOf(items)
  <2>1. \A j : j \in JobsOf(items) <=> \E w \in items : w.kind = "item" /\ j = JobOf(w)
    BY DEF JobsOf
  <2>2. \A j : j \in JobsOf(Shifted(items, d)) <=>
                 \E w \in items : sh(w).kind = "item" /\ j = JobOf(sh(w))
    BY <1>2 DEF JobsOf
  <2>3. \A w \in items : sh(w).kind = w.kind /\ JobOf(sh(w)) = JobOf(w)
    BY <1>1 DEF JobOf
  <2>4. \A j : j \in JobsOf(Shifted(items, d)) <=> j \in JobsOf(items)
    BY <2>1, <2>2, <2>3
  <2> QED BY <2>4 DEF JobsOf
<1>5. {w.id : w \in Shifted(items, d)} = {w.id : w \in items}
  BY <1>1, <1>2
<1>6. ASSUME Ordered(items) PROVE Ordered(Shifted(items, d))
  <2> SUFFICES ASSUME NEW v \in items, NEW w \in items,
                      sh(v).kind = "item", sh(w).kind = "item", sh(v).id = sh(w).id
               PROVE  /\ sh(v).n = sh(w).n => sh(v) = sh(w)
                      /\ sh(v).pos <= sh(w).pos => sh(v).n <= sh(w).n
    BY <1>2 DEF Ordered
  <2>1. /\ v.kind = "item" /\ w.kind = "item" /\ v.id = w.id
        /\ sh(v).n = v.n /\ sh(w).n = w.n
        /\ sh(v).pos = v.pos + d /\ sh(w).pos = w.pos + d
        /\ v.pos \in Int /\ w.pos \in Int
    BY <1>1 DEF WorkItem
  <2> QED BY <1>6, <2>1 DEF Ordered
<1> QED BY <1>3, <1>4, <1>5, <1>6

LEMMA PlacedFacts ==
    ASSUME NEW kind \in Kinds, NEW id \in 0..MaxBatches,
           NEW size \in 0..MaxBatchSize, NEW first \in Int
    PROVE  /\ Placed(kind, id, size, first) \in SUBSET WorkItem
           /\ \A w \in Placed(kind, id, size, first) : w.kind = kind /\ w.id = id
           /\ kind = "item" =>
                JobsOf(Placed(kind, id, size, first)) = [id : {id}, n : 1..size]
           /\ kind # "item" => JobsOf(Placed(kind, id, size, first)) = {}
           /\ Ordered(Placed(kind, id, size, first))
<1> DEFINE it(i) == [kind |-> kind, id |-> id, n |-> i, pos |-> first + i - 1]
<1>1. \A i \in 1..size :
        /\ it(i) \in WorkItem /\ it(i).kind = kind /\ it(i).id = id
        /\ it(i).n = i /\ it(i).pos = first + i - 1
        /\ JobOf(it(i)) = [id |-> id, n |-> i]
  BY BoundsAssumption DEF WorkItem, JobOf
<1>2. Placed(kind, id, size, first) = {it(i) : i \in 1..size}
  BY DEF Placed
<1> HIDE DEF it
<1>3. Placed(kind, id, size, first) \in SUBSET WorkItem
  BY <1>1, <1>2
<1>4. \A w \in Placed(kind, id, size, first) : w.kind = kind /\ w.id = id
  BY <1>1, <1>2
<1>5. ASSUME kind = "item"
      PROVE  JobsOf(Placed(kind, id, size, first)) = [id : {id}, n : 1..size]
  <2>1. \A j : j \in JobsOf(Placed(kind, id, size, first)) <=>
                 \E i \in 1..size : j = [id |-> id, n |-> i]
    BY <1>1, <1>2, <1>5 DEF JobsOf
  <2>2. \A j : j \in [id : {id}, n : 1..size] <=> \E i \in 1..size : j = [id |-> id, n |-> i]
    OBVIOUS
  <2> QED BY <2>1, <2>2
<1>6. ASSUME kind # "item" PROVE JobsOf(Placed(kind, id, size, first)) = {}
  BY <1>4, <1>6 DEF JobsOf
<1>7. Ordered(Placed(kind, id, size, first))
  BY <1>1, <1>2 DEF Ordered
<1> QED BY <1>3, <1>4, <1>5, <1>6, <1>7

LEMMA PlacedItems ==
    ASSUME NEW id \in 0..MaxBatches, NEW size \in 0..MaxBatchSize, NEW first \in Int
    PROVE  /\ \A w \in Placed("item", id, size, first) : w.kind = "item" /\ w.id = id
           /\ JobsOf(Placed("item", id, size, first)) = [id : {id}, n : 1..size]
           /\ Ordered(Placed("item", id, size, first))
<1> "item" \in Kinds
  BY DEF Kinds
<1> QED BY PlacedFacts

LEMMA JobsOfUnion ==
    ASSUME NEW s, NEW t
    PROVE  JobsOf(s \cup t) = JobsOf(s) \cup JobsOf(t)
BY DEF JobsOf

\* The deque after each of its operations is a deque.
LEMMA DequeTypes ==
    ASSUME NEW q \in [items : SUBSET WorkItem, end : Int]
    PROVE  /\ EmptyQueue \in [items : SUBSET WorkItem, end : Int]
           /\ \A kind \in Kinds, id \in 0..MaxBatches, size \in 0..MaxBatchSize :
                PushBack(q, kind, id, size) \in [items : SUBSET WorkItem, end : Int]
           /\ \A id \in 0..MaxBatches :
                PushFront(q, id) \in [items : SUBSET WorkItem, end : Int]
           /\ \A items \in SUBSET WorkItem :
                Keep(q, items) \in [items : SUBSET WorkItem, end : Int]
           /\ \A w \in q.items :
                PopFront(q, w) \in [items : SUBSET WorkItem, end : Int]
<1>1. EmptyQueue \in [items : SUBSET WorkItem, end : Int]
  BY DEF EmptyQueue
<1>2. ASSUME NEW kind \in Kinds, NEW id \in 0..MaxBatches, NEW size \in 0..MaxBatchSize
      PROVE  PushBack(q, kind, id, size) \in [items : SUBSET WorkItem, end : Int]
  <2>1. Placed(kind, id, size, q.end) \in SUBSET WorkItem
    BY PlacedFacts
  <2>2. q.end + size \in Int /\ q.items \cup Placed(kind, id, size, q.end) \in SUBSET WorkItem
    BY <2>1, BoundsAssumption
  <2> QED BY <2>2 DEF PushBack
<1>3. ASSUME NEW id \in 0..MaxBatches
      PROVE  PushFront(q, id) \in [items : SUBSET WorkItem, end : Int]
  <2>1. Placed("item", id, 1, 0) \in SUBSET WorkItem
    BY PlacedFacts, BoundsAssumption DEF Kinds
  <2> q.items \in SUBSET WorkItem /\ 1 \in Int
    OBVIOUS
  <2>2. Shifted(q.items, 1) \in SUBSET WorkItem
    BY ShiftedFacts
  <2>3. q.end + 1 \in Int
    OBVIOUS
  <2> QED BY <2>1, <2>2, <2>3 DEF PushFront
<1>4. ASSUME NEW items \in SUBSET WorkItem
      PROVE  Keep(q, items) \in [items : SUBSET WorkItem, end : Int]
  BY <1>1 DEF Keep
<1>5. ASSUME NEW w \in q.items
      PROVE  PopFront(q, w) \in [items : SUBSET WorkItem, end : Int]
  <2>1. w.pos \in Int
    BY DEF WorkItem
  <2>2. q.items \ {w} \in SUBSET WorkItem /\ -(w.pos + 1) \in Int
    BY <2>1
  <2>3. Shifted(q.items \ {w}, -(w.pos + 1)) \in SUBSET WorkItem
    BY <2>2, ShiftedFacts
  <2>4. q.end - (w.pos + 1) \in Int
    BY <2>1
  <2> QED BY <1>1, <2>3, <2>4 DEF PopFront
<1> QED BY <1>1, <1>2, <1>3, <1>4, <1>5

-----------------------------------------------------------------------------
(* Types. *)

LEMMA NoItemType == NoItem \in WorkItem
BY BoundsAssumption DEF NoItem, WorkItem, Kinds, INVALID_BATCH_ID

\* The invariant the other theorems rest on: where the jobs are.
QueueInv ==
    /\ Ordered(m_Queue.items)
    /\ \A w \in m_Queue.items :
          w.id \in 0..(m_BatchID - 1) /\ (w.kind = "item" => w.id # 0)
    /\ withdrawn \subseteq 0..(m_BatchID - 1)
    /\ \A j \in accepted : j.id \in 1..(m_BatchID - 1)
    /\ JobsOf(m_Queue.items) \cup Running \cup done \subseteq accepted
    /\ \A c \in Clients : call[c].op = "submitFirst" => call[c].size = 1

\* What an item in the queue or in the worker's hands contributes to Jobs.
LEMMA RunningAccepted ==
    ASSUME QueueInv, worker.pc = "processing"
    PROVE  JobsOf({worker.item}) \subseteq accepted
BY DEF QueueInv, Running

\* The calls and the worker's registers keep their types.
LEMMA CallTypes ==
    ASSUME TypeOK, NEW c \in Clients, NEW op \in Ops, NEW size \in 0..MaxBatchSize,
           NEW seen \in SUBSET Jobs
    PROVE  /\ Enter(c, op, size, seen) =>
                call' \in [Clients -> [op : Ops, size : 0..MaxBatchSize, seen : SUBSET Jobs]]
           /\ Return(c) =>
                call' \in [Clients -> [op : Ops, size : 0..MaxBatchSize, seen : SUBSET Jobs]]
BY BoundsAssumption DEF TypeOK, Enter, Return, NoCall, Ops

LEMMA TypeStep ==
    ASSUME TypeOK, QueueInv, [Next]_vars
    PROVE  TypeOK'
<1> USE DEF TypeOK
<1> 0 \in 0..MaxBatchSize /\ 1 \in 0..MaxBatchSize /\ 0 \in 0..MaxBatches
  BY BoundsAssumption
<1>1. ASSUME NEW c \in Clients, NEW op \in Ops, NEW size \in 0..MaxBatchSize,
             CheckCancel(c, op, size)
      PROVE  TypeOK'
  BY <1>1, CallTypes DEF CheckCancel, queueVars, history
<1>2. ASSUME NEW c \in Clients, SubmitSeparator(c) PROVE TypeOK'
  <2>1. m_Queue' \in [items : SUBSET WorkItem, end : Int]
    BY <1>2, DequeTypes DEF SubmitSeparator, Kinds, INVALID_BATCH_ID
  <2>2. call' \in [Clients -> [op : Ops, size : 0..MaxBatchSize, seen : SUBSET Jobs]]
    BY <1>2, CallTypes DEF SubmitSeparator, Ops
  <2> QED BY <1>2, <2>1, <2>2 DEF SubmitSeparator
<1>3. ASSUME NEW c \in Clients, SubmitItems(c) PROVE TypeOK'
  <2>0. m_BatchID \in 0..MaxBatches /\ m_BatchID \in 1..MaxBatches
        /\ call[c].size \in 0..MaxBatchSize
    BY <1>3, BoundsAssumption DEF SubmitItems
  <2>1. m_Queue' \in [items : SUBSET WorkItem, end : Int]
    BY <1>3, <2>0, DequeTypes DEF SubmitItems, Kinds
  <2>2. call' \in [Clients -> [op : Ops, size : 0..MaxBatchSize, seen : SUBSET Jobs]]
    BY <1>3, CallTypes DEF SubmitItems, Ops
  <2>3. m_BatchID' \in 1..(MaxBatches + 1)
    BY <1>3, <2>0, BoundsAssumption DEF SubmitItems
  <2>4. [id : {m_BatchID}, n : 1..call[c].size] \in SUBSET Jobs
    BY <2>0, BoundsAssumption DEF Jobs
  <2>5. announced' \in BOOLEAN
    BY <1>3 DEF SubmitItems
  <2> QED BY <1>3, <2>1, <2>2, <2>3, <2>4, <2>5 DEF SubmitItems
<1>4. ASSUME NEW c \in Clients, NEW b \in 1..(m_BatchID - 1), CancelBatch(c, b)
      PROVE  TypeOK'
  <2>1. b \in 0..MaxBatches
    BY BoundsAssumption
  <2>2. m_Queue' \in [items : SUBSET WorkItem, end : Int]
    BY <1>4, DequeTypes DEF CancelBatch, Without
  <2>3. call' \in [Clients -> [op : Ops, size : 0..MaxBatchSize, seen : SUBSET Jobs]]
    BY <1>4, CallTypes DEF CancelBatch, Ops
  <2> QED BY <1>4, <2>1, <2>2, <2>3 DEF CancelBatch
<1>5. ASSUME NEW c \in Clients, CancelPendingJobs(c) PROVE TypeOK'
  <2>1. {w.id : w \in m_Queue.items} \in SUBSET (0..MaxBatches)
    BY DEF WorkItem
  <2>2. call' \in [Clients -> [op : Ops, size : 0..MaxBatchSize, seen : SUBSET Jobs]]
    BY <1>5, CallTypes DEF CancelPendingJobs, Ops
  <2>3. m_Queue' \in [items : SUBSET WorkItem, end : Int]
    BY <1>5, DequeTypes DEF CancelPendingJobs
  <2> QED BY <1>5, <2>1, <2>2, <2>3 DEF CancelPendingJobs
<1>6. ASSUME NEW c \in Clients, AnnounceCancelled(c) PROVE TypeOK'
  <2>1. call' \in [Clients -> [op : Ops, size : 0..MaxBatchSize, seen : SUBSET Jobs]]
    BY <1>6, CallTypes DEF AnnounceCancelled, Ops
  <2> QED BY <1>6, <2>1 DEF AnnounceCancelled, queueVars
<1>7. ASSUME NEW c \in Clients, NEW now \in BOOLEAN, RequestStop(c, now) PROVE TypeOK'
  <2>1. (IF now THEN "stopNow" ELSE "stopLater") \in Ops
    BY DEF Ops
  <2>2. call' \in [Clients -> [op : Ops, size : 0..MaxBatchSize, seen : SUBSET Jobs]]
    BY <1>7, <2>1, CallTypes DEF RequestStop
  <2> QED BY <1>7, <2>2 DEF RequestStop, queueVars, history
<1>8. ASSUME NEW c \in Clients, PushStopper(c) PROVE TypeOK'
  <2>1. call' \in [Clients -> [op : Ops, size : 0..MaxBatchSize, seen : SUBSET Jobs]]
    BY <1>8, CallTypes DEF PushStopper, Ops
  <2> DEFINE q == IF call[c].op = "stopNow" THEN EmptyQueue ELSE m_Queue
  <2>2. q \in [items : SUBSET WorkItem, end : Int]
    BY DequeTypes
  <2> HIDE DEF q
  <2>3. PushBack(q, "stopper", INVALID_BATCH_ID, 1) \in [items : SUBSET WorkItem, end : Int]
    BY <2>2, DequeTypes DEF Kinds, INVALID_BATCH_ID
  <2>4. m_Queue' = PushBack(q, "stopper", INVALID_BATCH_ID, 1)
    BY <1>8 DEF PushStopper, q
  <2> QED BY <1>8, <2>1, <2>3, <2>4 DEF PushStopper, history
<1>9. ASSUME NEW c \in Clients, WaitIdle(c) PROVE TypeOK'
  <2>1. (IF worker.pc = "processing" THEN JobsOf({worker.item}) ELSE {}) \in SUBSET Jobs
    BY RunningAccepted
  <2>2. call' \in [Clients -> [op : Ops, size : 0..MaxBatchSize, seen : SUBSET Jobs]]
    BY <1>9, <2>1, CallTypes DEF WaitIdle, Ops
  <2> QED BY <1>9, <2>2 DEF WaitIdle, queueVars, history
<1>10. ASSUME NEW c \in Clients, WaitIdleReturns(c) PROVE TypeOK'
  <2>1. call' \in [Clients -> [op : Ops, size : 0..MaxBatchSize, seen : SUBSET Jobs]]
    BY <1>10, CallTypes DEF WaitIdleReturns, Ops
  <2> QED BY <1>10, <2>1 DEF WaitIdleReturns, queueVars, history
<1>11. ASSUME NEW ok \in BOOLEAN, DoWork(ok) PROVE TypeOK'
  BY <1>11 DEF DoWork, Goto, PCs, queueVars, history
<1>12. ASSUME LoopHead PROVE TypeOK'
  BY <1>12, NoItemType DEF LoopHead, PCs, queueVars, history
<1>13. ASSUME Take PROVE TypeOK'
  <2>1. PICK w \in m_Queue.items :
          /\ m_Queue' = PopFront(m_Queue, w)
          /\ worker' = [pc |-> IF EndsLoop(w) THEN "exited" ELSE "taken",
                        item |-> w, noMoreItems |-> m_Queue.items = {w}]
    BY <1>13 DEF Take
  <2>2. m_Queue' \in [items : SUBSET WorkItem, end : Int]
    BY <2>1, DequeTypes
  <2>3. worker' \in [pc : PCs, item : WorkItem, noMoreItems : BOOLEAN]
    BY <2>1 DEF PCs
  <2> QED BY <1>13, <2>2, <2>3 DEF Take, history
<1>14. ASSUME ResetIdle PROVE TypeOK'
  BY <1>14 DEF ResetIdle, Goto, PCs, queueVars, history
<1>15. ASSUME NEW ok \in BOOLEAN, Process(ok) PROVE TypeOK'
  <2>1. JobsOf({worker.item}) \in SUBSET Jobs
    BY <1>15, RunningAccepted DEF Process
  <2> QED BY <1>15, <2>1 DEF Process, Goto, PCs, queueVars
<1>16. ASSUME SetIdle PROVE TypeOK'
  <2>1. AfterHandler \in PCs
    BY DEF AfterHandler, PCs
  <2> QED BY <1>16, <2>1 DEF SetIdle, Goto, queueVars, history
<1>17. ASSUME AnnounceDrained PROVE TypeOK'
  BY <1>17 DEF AnnounceDrained, Goto, PCs, queueVars
<1>18. ASSUME ReportResults PROVE TypeOK'
  BY <1>18 DEF ReportResults, Goto, PCs, queueVars, history
<1>19. ASSUME WorkerStopped PROVE TypeOK'
  BY <1>19, NoItemType DEF WorkerStopped, PCs, queueVars, history
<1>20. CASE UNCHANGED vars
  BY <1>20 DEF vars
<1>21. \A size \in 0..MaxBatchSize : size \in 0..MaxBatchSize
  OBVIOUS
<1>22. {"submitSeparator", "submitItem", "submitFirst", "submitItems"} \subseteq Ops
  BY DEF Ops, BatchPushes
<1> QED
  BY <1>1, <1>2, <1>3, <1>4, <1>5, <1>6, <1>7, <1>8, <1>9, <1>10, <1>11, <1>12, <1>13,
     <1>14, <1>15, <1>16, <1>17, <1>18, <1>19, <1>20, <1>22
     DEF Next, WorkerStep, Begin, Proceed

\* Steps that leave the deque, the ids and the calls' kinds alone keep QueueInv.
LEMMA QueueFrame ==
    ASSUME QueueInv,
           UNCHANGED <<m_Queue, m_BatchID, accepted, withdrawn>>,
           JobsOf(m_Queue.items) \cup Running' \cup done' \subseteq accepted,
           \A c \in Clients : call'[c].op = "submitFirst" => call'[c].size = 1
    PROVE  QueueInv'
BY DEF QueueInv

\* A call that does not begin as submitFirst keeps the size of submitFirst calls.
LEMMA CallFrame ==
    ASSUME TypeOK, QueueInv, NEW c \in Clients, NEW op, NEW size, NEW seen,
           op = "submitFirst" => size = 1
    PROVE  /\ Enter(c, op, size, seen) =>
                \A d \in Clients : call'[d].op = "submitFirst" => call'[d].size = 1
           /\ Return(c) =>
                \A d \in Clients : call'[d].op = "submitFirst" => call'[d].size = 1
BY DEF TypeOK, QueueInv, Enter, Return, NoCall

LEMMA OrderedSubset ==
    ASSUME NEW s, NEW t \in SUBSET s, Ordered(s)
    PROVE  Ordered(t) /\ JobsOf(t) \subseteq JobsOf(s)
BY DEF Ordered, JobsOf

\* Items of a fresh batch join a deque without disturbing its order.
LEMMA OrderedUnion ==
    ASSUME NEW s, NEW t, Ordered(s), Ordered(t),
           \A v \in s, w \in t : v.kind = "item" /\ w.kind = "item" => v.id # w.id
    PROVE  Ordered(s \cup t)
BY DEF Ordered

LEMMA QueueStep ==
    ASSUME TypeOK, QueueInv, [Next]_vars
    PROVE  QueueInv'
<1> DEFINE SizeInv == \A d \in Clients : call[d].op = "submitFirst" => call[d].size = 1
<1> m_Queue.items \in SUBSET WorkItem /\ m_Queue \in [items : SUBSET WorkItem, end : Int]
  BY DEF TypeOK
<1> 0 \in 0..MaxBatches /\ 1 \in 0..MaxBatchSize
  BY BoundsAssumption
<1>1. ASSUME NEW c \in Clients, NEW op \in Ops, NEW size \in 0..MaxBatchSize,
             op = "submitFirst" => size = 1, CheckCancel(c, op, size)
      PROVE  QueueInv'
  <2>1. SizeInv'
    BY <1>1, CallFrame DEF CheckCancel
  <2> QED BY <1>1, <2>1, QueueFrame DEF CheckCancel, queueVars, history, Running, QueueInv
<1>2. ASSUME NEW c \in Clients, SubmitSeparator(c) PROVE QueueInv'
  <2> DEFINE new == Placed("separator", INVALID_BATCH_ID, 1, m_Queue.end)
  <2>1. m_Queue'.items = m_Queue.items \cup new
    BY <1>2 DEF SubmitSeparator, PushBack
  <2>2. /\ \A w \in new : w.kind = "separator"
        /\ \A w \in new : w.id = 0
        /\ JobsOf(new) = {} /\ Ordered(new)
    BY PlacedFacts DEF TypeOK, Kinds, INVALID_BATCH_ID
  <2> HIDE DEF new
  <2>3. JobsOf(m_Queue'.items) = JobsOf(m_Queue.items)
    BY <2>1, <2>2, JobsOfUnion DEF JobsOf
  <2>4. Ordered(m_Queue'.items)
    BY <2>1, <2>2, OrderedUnion DEF QueueInv
  <2>5. SizeInv'
    BY <1>2, CallFrame DEF SubmitSeparator
  <2>6. 0 \in 0..(m_BatchID - 1)
    BY BoundsAssumption DEF TypeOK
  <2> QED BY <1>2, <2>1, <2>2, <2>3, <2>4, <2>5, <2>6 DEF SubmitSeparator, QueueInv, Running
<1>3. ASSUME NEW c \in Clients, SubmitItems(c) PROVE QueueInv'
  <2> DEFINE size == call[c].size
             old == IF call[c].op = "submitFirst" THEN Shifted(m_Queue.items, 1)
                                                  ELSE m_Queue.items
             first == IF call[c].op = "submitFirst" THEN 0 ELSE m_Queue.end
             new == Placed("item", m_BatchID, size, first)
  <2>0. /\ m_BatchID \in 1..MaxBatches /\ m_BatchID \in 0..MaxBatches
        /\ size \in 0..MaxBatchSize /\ first \in Int
        /\ call[c].op = "submitFirst" => size = 1
    BY <1>3, BoundsAssumption DEF SubmitItems, TypeOK, QueueInv
  <2>1. m_Queue'.items = old \cup new
    BY <1>3, <2>0 DEF SubmitItems, PushBack, PushFront
  <2>2. /\ \A w \in new : w.kind = "item" /\ w.id = m_BatchID
        /\ JobsOf(new) = [id : {m_BatchID}, n : 1..size] /\ Ordered(new)
    <3> HIDE DEF size, first, old
    <3> QED BY <2>0, PlacedItems
  <2>3. 1 \in Int /\ (call[c].op = "submitFirst" => old = Shifted(m_Queue.items, 1))
        /\ (call[c].op # "submitFirst" => old = m_Queue.items)
    OBVIOUS
  <2>4. JobsOf(old) = JobsOf(m_Queue.items) /\ Ordered(old)
    BY <2>3, ShiftedFacts DEF QueueInv
  <2>5. \A w \in old : w.id \in 0..(m_BatchID - 1) /\ (w.kind = "item" => w.id # 0)
    <3>1. CASE call[c].op = "submitFirst"
      BY <3>1 DEF QueueInv, Shifted, WorkItem
    <3>2. CASE call[c].op # "submitFirst"
      BY <3>2 DEF QueueInv
    <3> QED BY <3>1, <3>2
  <2> HIDE DEF new, old, first
  <2>6. Ordered(m_Queue'.items)
    BY <2>0, <2>1, <2>2, <2>4, <2>5, OrderedUnion
  <2>7. JobsOf(m_Queue'.items) \subseteq accepted'
    <3>1. JobsOf(m_Queue'.items) = JobsOf(m_Queue.items) \cup [id : {m_BatchID}, n : 1..size]
      <4>1. JobsOf(old \cup new) = JobsOf(old) \cup JobsOf(new)
        BY JobsOfUnion
      <4> QED BY <2>1, <2>2, <2>4, <4>1
    <3>2. accepted' = accepted \cup [id : {m_BatchID}, n : 1..size]
      BY <1>3 DEF SubmitItems
    <3> QED BY <3>1, <3>2 DEF QueueInv
  <2>8. SizeInv'
    BY <1>3, CallFrame DEF SubmitItems
  <2>9. \A w \in m_Queue'.items :
          w.id \in 0..(m_BatchID' - 1) /\ (w.kind = "item" => w.id # 0)
    BY <1>3, <2>0, <2>1, <2>2, <2>5, BoundsAssumption DEF SubmitItems
  <2>10. withdrawn' \subseteq 0..(m_BatchID' - 1)
    BY <1>3, <2>0, BoundsAssumption DEF SubmitItems, QueueInv, TypeOK
  <2>11. \A j \in accepted' : j.id \in 1..(m_BatchID' - 1)
    BY <1>3, <2>0, BoundsAssumption DEF SubmitItems, QueueInv, TypeOK, Jobs
  <2>12. (Running \cup done)' \subseteq accepted'
    BY <1>3 DEF SubmitItems, QueueInv, Running
  <2> QED BY <2>6, <2>7, <2>8, <2>9, <2>10, <2>11, <2>12 DEF QueueInv
<1>4. ASSUME NEW c \in Clients, NEW b \in 1..(m_BatchID - 1), CancelBatch(c, b)
      PROVE  QueueInv'
  <2>1. m_Queue'.items \in SUBSET m_Queue.items
    BY <1>4 DEF CancelBatch, Without, Keep, EmptyQueue
  <2>2. Ordered(m_Queue'.items) /\ JobsOf(m_Queue'.items) \subseteq JobsOf(m_Queue.items)
    BY <2>1, OrderedSubset DEF QueueInv
  <2>3. SizeInv'
    <3>1. CASE UNCHANGED call
      BY <3>1 DEF QueueInv
    <3>2. CASE Enter(c, "onQueueIsEmpty", 0, {})
      BY <3>2, CallFrame
    <3> QED BY <1>4, <3>1, <3>2 DEF CancelBatch
  <2>4. withdrawn' \subseteq 0..(m_BatchID - 1)
    BY <1>4, BoundsAssumption DEF CancelBatch, QueueInv, TypeOK
  <2> QED BY <1>4, <2>1, <2>2, <2>3, <2>4 DEF CancelBatch, QueueInv, Running
<1>5. ASSUME NEW c \in Clients, CancelPendingJobs(c) PROVE QueueInv'
  <2>1. m_Queue'.items = {}
    BY <1>5 DEF CancelPendingJobs, EmptyQueue
  <2>2. SizeInv'
    BY <1>5, CallFrame DEF CancelPendingJobs
  <2>3. withdrawn' \subseteq 0..(m_BatchID - 1)
    BY <1>5 DEF CancelPendingJobs, QueueInv
  <2> QED BY <1>5, <2>1, <2>2, <2>3 DEF CancelPendingJobs, QueueInv, Running, Ordered, JobsOf
<1>6. ASSUME NEW c \in Clients, AnnounceCancelled(c) PROVE QueueInv'
  <2>1. SizeInv'
    BY <1>6, CallFrame DEF AnnounceCancelled
  <2> QED BY <1>6, <2>1, QueueFrame DEF AnnounceCancelled, queueVars, Running, QueueInv
<1>7. ASSUME NEW c \in Clients, NEW now \in BOOLEAN, RequestStop(c, now) PROVE QueueInv'
  <2>1. SizeInv'
    BY <1>7, CallFrame DEF RequestStop
  <2> QED BY <1>7, <2>1, QueueFrame DEF RequestStop, queueVars, history, Running, QueueInv
<1>8. ASSUME NEW c \in Clients, PushStopper(c) PROVE QueueInv'
  <2> DEFINE q == IF call[c].op = "stopNow" THEN EmptyQueue ELSE m_Queue
             new == Placed("stopper", INVALID_BATCH_ID, 1, q.end)
  <2>1. m_Queue'.items = q.items \cup new
    BY <1>8 DEF PushStopper, PushBack
  <2>2. /\ \A w \in new : w.kind = "stopper"
        /\ \A w \in new : w.id = 0
        /\ JobsOf(new) = {} /\ Ordered(new)
    <3>1. q.end \in Int
      BY DEF EmptyQueue
    <3> HIDE DEF q
    <3> QED BY <3>1, PlacedFacts DEF Kinds, INVALID_BATCH_ID
  <2>3. q.items \in SUBSET m_Queue.items
    BY DEF EmptyQueue
  <2> HIDE DEF q, new
  <2>4. Ordered(q.items) /\ JobsOf(q.items) \subseteq JobsOf(m_Queue.items)
    BY <2>3, OrderedSubset DEF QueueInv
  <2>5. Ordered(m_Queue'.items)
    BY <2>1, <2>2, <2>4, OrderedUnion
  <2>6. JobsOf(m_Queue'.items) \subseteq JobsOf(m_Queue.items)
    <3>1. JobsOf(q.items \cup new) = JobsOf(q.items) \cup JobsOf(new)
      BY JobsOfUnion
    <3> QED BY <2>1, <2>2, <2>4, <3>1
  <2>7. SizeInv'
    BY <1>8, CallFrame DEF PushStopper
  <2>8. 0 \in 0..(m_BatchID - 1)
    BY BoundsAssumption DEF TypeOK
  <2> QED BY <1>8, <2>1, <2>2, <2>3, <2>5, <2>6, <2>7, <2>8
          DEF PushStopper, QueueInv, Running, history
<1>9. ASSUME NEW c \in Clients, WaitIdle(c) PROVE QueueInv'
  <2>1. SizeInv'
    BY <1>9, CallFrame DEF WaitIdle
  <2> QED BY <1>9, <2>1, QueueFrame DEF WaitIdle, queueVars, history, Running, QueueInv
<1>10. ASSUME NEW c \in Clients, WaitIdleReturns(c) PROVE QueueInv'
  <2>1. SizeInv'
    BY <1>10, CallFrame DEF WaitIdleReturns
  <2> QED BY <1>10, <2>1, QueueFrame DEF WaitIdleReturns, queueVars, history, Running, QueueInv
<1>13. ASSUME Take PROVE QueueInv'
  <2>1. PICK w \in m_Queue.items :
          /\ m_Queue' = PopFront(m_Queue, w)
          /\ worker' = [pc |-> IF EndsLoop(w) THEN "exited" ELSE "taken",
                        item |-> w, noMoreItems |-> m_Queue.items = {w}]
    BY <1>13 DEF Take
  <2> DEFINE rest == m_Queue.items \ {w}
  <2>2. \/ m_Queue'.items = {}
        \/ \E d \in Int : m_Queue'.items = Shifted(rest, d)
    <3>1. -(w.pos + 1) \in Int
      BY DEF WorkItem
    <3> QED BY <2>1, <3>1 DEF PopFront, EmptyQueue
  <2>3. Ordered(rest) /\ JobsOf(rest) \subseteq JobsOf(m_Queue.items)
    BY OrderedSubset DEF QueueInv
  <2>4. Ordered(m_Queue'.items) /\ JobsOf(m_Queue'.items) \subseteq JobsOf(rest)
    <3>1. CASE m_Queue'.items = {}
      BY <3>1 DEF Ordered, JobsOf
    <3>2. CASE \E d \in Int : m_Queue'.items = Shifted(rest, d)
      <4>1. rest \in SUBSET WorkItem
        OBVIOUS
      <4> HIDE DEF rest
      <4> QED BY <2>3, <3>2, <4>1, ShiftedFacts
    <3> QED BY <2>2, <3>1, <3>2
  <2>5. \A v \in m_Queue'.items :
          v.id \in 0..(m_BatchID - 1) /\ (v.kind = "item" => v.id # 0)
    BY <2>2 DEF Shifted, QueueInv, WorkItem
  <2>6. Running' \subseteq JobsOf(m_Queue.items)
    BY <2>1 DEF Running, JobsOf
  <2> QED BY <1>13, <2>3, <2>4, <2>5, <2>6 DEF Take, QueueInv, history
<1>15. ASSUME NEW ok \in BOOLEAN, Process(ok) PROVE QueueInv'
  BY <1>15, RunningAccepted, QueueFrame DEF Process, Goto, queueVars, QueueInv, Running, TypeOK
<1>16. CASE SetIdle
  BY <1>16, QueueFrame
     DEF SetIdle, AfterHandler, Goto, queueVars, history, QueueInv, Running, TypeOK
<1>17. CASE \/ \E ok \in BOOLEAN : DoWork(ok)
            \/ LoopHead \/ AnnounceDrained \/ ReportResults \/ WorkerStopped
  BY <1>17, QueueFrame
     DEF DoWork, LoopHead, AnnounceDrained, ReportResults, WorkerStopped, Goto,
         queueVars, history, QueueInv, Running, TypeOK
<1>18. CASE ResetIdle
  BY <1>18, QueueFrame DEF ResetIdle, Goto, queueVars, history, QueueInv, Running, TypeOK
<1>20. CASE UNCHANGED vars
  BY <1>20, QueueFrame DEF vars, QueueInv, Running
<1>22. /\ {"submitSeparator", "submitItem", "submitFirst", "submitItems"} \subseteq Ops
  BY DEF Ops, BatchPushes
<1> QED
  BY <1>1, <1>2, <1>3, <1>4, <1>5, <1>6, <1>7, <1>8, <1>9, <1>10, <1>13,
     <1>15, <1>16, <1>17, <1>18, <1>20, <1>22
     DEF Next, WorkerStep, Begin, Proceed

THEOREM TypeCorrect == Spec => [](TypeOK /\ QueueInv)
<1>1. Init => TypeOK /\ QueueInv
  <2> SUFFICES ASSUME Init PROVE TypeOK /\ QueueInv
    OBVIOUS
  <2>1. m_BatchID \in 1..(MaxBatches + 1) /\ 0 \in 0..MaxBatchSize
    BY BoundsAssumption DEF Init
  <2>2. call \in [Clients -> [op : Ops, size : 0..MaxBatchSize, seen : SUBSET Jobs]]
    BY <2>1 DEF Init, Ops, NoCall
  <2>3. worker \in [pc : PCs, item : WorkItem, noMoreItems : BOOLEAN]
    BY NoItemType DEF Init, PCs
  <2>6. m_Queue \in [items : SUBSET WorkItem, end : Int]
    BY DEF Init, EmptyQueue
  <2>7. /\ m_Results = {} /\ accepted = {} /\ done = {} /\ withdrawn = {}
        /\ m_Cancel = FALSE /\ m_IdleEvent = FALSE /\ announced = TRUE
    BY DEF Init
  <2>4. TypeOK
    BY <2>1, <2>2, <2>3, <2>6, <2>7 DEF TypeOK
  <2>5. QueueInv
    BY DEF Init, QueueInv, EmptyQueue, NoCall, Ordered, JobsOf, Running
  <2> QED BY <2>4, <2>5
<1>2. TypeOK /\ QueueInv /\ [Next]_vars => TypeOK' /\ QueueInv'
  BY TypeStep, QueueStep
<1> QED BY <1>1, <1>2, PTL DEF Spec

-----------------------------------------------------------------------------
(* The worker implements JobQueue. *)

Waiting == JobsOf(m_Queue.items)

\* A step that only takes jobs out of the queue is a withdrawal.
LEMMA WithdrawStep ==
    ASSUME TypeOK, QueueInv, Waiting' \subseteq Waiting,
           Running' = Running, done' = done, accepted' = accepted
    PROVE  Queue!Next
<1> DEFINE group == Waiting \ Waiting'
<1>1. group \in SUBSET Jobs
  BY DEF QueueInv, TypeOK, Waiting
<1>2. Waiting' = Waiting \ group
  OBVIOUS
<1> HIDE DEF group
<1>3. Queue!Withdraw(group)
  BY <1>2 DEF Queue!Withdraw, Waiting
<1> QED BY <1>1, <1>3 DEF Queue!Next

\* Every step of the worker and of its clients is a step of the job queue.
LEMMA QueueRefinementStep ==
    ASSUME TypeOK, QueueInv, [Next]_vars
    PROVE  [Queue!Next]_Queue!vars
<1> m_Queue.items \in SUBSET WorkItem /\ m_Queue \in [items : SUBSET WorkItem, end : Int]
  BY DEF TypeOK
<1> 0 \in 0..MaxBatches /\ 1 \in 0..MaxBatchSize
  BY BoundsAssumption
<1> DEFINE Stutter == /\ Waiting' = Waiting /\ Running' = Running
                      /\ done' = done /\ accepted' = accepted
<1>0. Stutter => UNCHANGED Queue!vars
  BY DEF Queue!vars, Waiting
<1>1. ASSUME NEW c \in Clients,
             \/ \E op \in Ops, size \in 0..MaxBatchSize : CheckCancel(c, op, size)
             \/ AnnounceCancelled(c)
             \/ \E now \in BOOLEAN : RequestStop(c, now)
             \/ WaitIdle(c) \/ WaitIdleReturns(c)
      PROVE  Stutter
  BY <1>1 DEF CheckCancel, AnnounceCancelled, RequestStop, WaitIdle, WaitIdleReturns,
              queueVars, history, Waiting, Running
<1>2. ASSUME NEW c \in Clients, SubmitSeparator(c) PROVE Stutter
  <2> DEFINE new == Placed("separator", INVALID_BATCH_ID, 1, m_Queue.end)
  <2>1. m_Queue'.items = m_Queue.items \cup new
    BY <1>2 DEF SubmitSeparator, PushBack
  <2>2. JobsOf(new) = {}
    BY PlacedFacts DEF TypeOK, Kinds, INVALID_BATCH_ID
  <2> HIDE DEF new
  <2>3. JobsOf(m_Queue'.items) = JobsOf(m_Queue.items)
    BY <2>1, <2>2, JobsOfUnion DEF JobsOf
  <2> QED BY <1>2, <2>3 DEF SubmitSeparator, Waiting, Running
<1>3. ASSUME NEW c \in Clients, SubmitItems(c) PROVE Queue!Next
  <2> DEFINE size == call[c].size
             old == IF call[c].op = "submitFirst" THEN Shifted(m_Queue.items, 1)
                                                  ELSE m_Queue.items
             first == IF call[c].op = "submitFirst" THEN 0 ELSE m_Queue.end
             new == Placed("item", m_BatchID, size, first)
             group == [id : {m_BatchID}, n : 1..size]
  <2>0. /\ m_BatchID \in 1..MaxBatches /\ m_BatchID \in 0..MaxBatches
        /\ size \in 0..MaxBatchSize /\ first \in Int
        /\ call[c].op = "submitFirst" => size = 1
    BY <1>3, BoundsAssumption DEF SubmitItems, TypeOK, QueueInv
  <2>1. m_Queue'.items = old \cup new
    BY <1>3, <2>0 DEF SubmitItems, PushBack, PushFront
  <2>2. JobsOf(new) = group
    <3> HIDE DEF size, first, old
    <3> QED BY <2>0, PlacedItems
  <2>3. 1 \in Int /\ (call[c].op = "submitFirst" => old = Shifted(m_Queue.items, 1))
        /\ (call[c].op # "submitFirst" => old = m_Queue.items)
    OBVIOUS
  <2>4. JobsOf(old) = JobsOf(m_Queue.items)
    BY <2>3, ShiftedFacts
  <2> HIDE DEF new, old, first
  <2>5. JobsOf(old \cup new) = JobsOf(old) \cup JobsOf(new)
    BY JobsOfUnion
  <2>6. Waiting' = Waiting \cup group
    BY <2>1, <2>2, <2>4, <2>5 DEF Waiting
  <2>7. group \cap accepted = {}
    BY <2>0 DEF QueueInv
  <2>8. group \in SUBSET Jobs
    BY <2>0, BoundsAssumption DEF Jobs
  <2>9. accepted' = accepted \cup group /\ Running' = Running /\ done' = done
    BY <1>3 DEF SubmitItems, Running
  <2> HIDE DEF group
  <2>10. Queue!Accept(group)
    BY <2>6, <2>7, <2>9 DEF Queue!Accept, Waiting
  <2> QED BY <2>8, <2>10 DEF Queue!Next
<1>4. ASSUME NEW c \in Clients, NEW b \in 1..(m_BatchID - 1),
             CancelBatch(c, b) \/ CancelPendingJobs(c)
      PROVE  Queue!Next
  <2>1. m_Queue'.items \in SUBSET m_Queue.items
    BY <1>4 DEF CancelBatch, CancelPendingJobs, Without, Keep, EmptyQueue
  <2>2. Waiting' \subseteq Waiting
    BY <2>1 DEF Waiting, JobsOf
  <2>3. Running' = Running /\ done' = done /\ accepted' = accepted
    BY <1>4 DEF CancelBatch, CancelPendingJobs, Running
  <2> QED BY <2>2, <2>3, WithdrawStep
<1>5. ASSUME NEW c \in Clients, CancelPendingJobs(c) PROVE Queue!Next
  <2>1. Waiting' \subseteq Waiting
    BY <1>5 DEF CancelPendingJobs, EmptyQueue, Waiting, JobsOf
  <2>2. Running' = Running /\ done' = done /\ accepted' = accepted
    BY <1>5 DEF CancelPendingJobs, Running
  <2> QED BY <2>1, <2>2, WithdrawStep
<1>6. ASSUME NEW c \in Clients, PushStopper(c) PROVE Queue!Next
  <2> DEFINE q == IF call[c].op = "stopNow" THEN EmptyQueue ELSE m_Queue
             new == Placed("stopper", INVALID_BATCH_ID, 1, q.end)
  <2>1. m_Queue'.items = q.items \cup new
    BY <1>6 DEF PushStopper, PushBack
  <2>2. JobsOf(new) = {}
    <3>1. q.end \in Int
      BY DEF EmptyQueue
    <3> HIDE DEF q
    <3> QED BY <3>1, PlacedFacts DEF Kinds, INVALID_BATCH_ID
  <2>3. q.items \in SUBSET m_Queue.items
    BY DEF EmptyQueue
  <2> HIDE DEF q, new
  <2>4. JobsOf(q.items \cup new) = JobsOf(q.items) \cup JobsOf(new)
    BY JobsOfUnion
  <2>5. JobsOf(q.items) \subseteq JobsOf(m_Queue.items)
    BY <2>3 DEF JobsOf
  <2>6. Waiting' \subseteq Waiting
    BY <2>1, <2>2, <2>4, <2>5 DEF Waiting
  <2> QED BY <1>6, <2>6, WithdrawStep DEF PushStopper, Running, history
<1>7. ASSUME Take PROVE [Queue!Next]_Queue!vars
  <2>1. PICK w \in m_Queue.items :
          /\ IsFront(w)
          /\ m_Queue' = PopFront(m_Queue, w)
          /\ worker' = [pc |-> IF EndsLoop(w) THEN "exited" ELSE "taken",
                        item |-> w, noMoreItems |-> m_Queue.items = {w}]
    BY <1>7 DEF Take
  <2> DEFINE rest == m_Queue.items \ {w}
  <2>2. JobsOf(m_Queue'.items) = JobsOf(rest)
    <3>1. CASE m_Queue.items = {w}
      BY <2>1, <3>1 DEF PopFront, EmptyQueue, JobsOf
    <3>2. CASE m_Queue.items # {w}
      <4>1. m_Queue'.items = Shifted(rest, -(w.pos + 1))
        BY <2>1, <3>2 DEF PopFront
      <4>2. rest \in SUBSET WorkItem /\ -(w.pos + 1) \in Int
        BY DEF WorkItem
      <4> HIDE DEF rest
      <4> QED BY <4>1, <4>2, ShiftedFacts
    <3> QED BY <3>1, <3>2
  <2>3. Running = {} /\ done' = done /\ accepted' = accepted
    BY <1>7 DEF Take, Running, history
  <2>4. CASE w.kind = "item"
    <3>1. JobOf(w) \in Waiting /\ JobOf(w).id = w.id /\ JobOf(w).n = w.n
      BY <2>4 DEF Waiting, JobsOf, JobOf
    <3>2. \A v \in rest : v.kind = "item" => JobOf(v) # JobOf(w)
      BY <2>4 DEF JobOf, QueueInv, Ordered
    <3>3. Waiting' = Waiting \ {JobOf(w)}
      BY <2>2, <3>2 DEF Waiting, JobsOf
    <3>4. Running' = {JobOf(w)}
      BY <2>1, <2>4 DEF Running, EndsLoop, JobsOf
    <3>5. \A k \in Waiting : k.id = w.id => w.n <= k.n
      <4> SUFFICES ASSUME NEW v \in m_Queue.items, v.kind = "item", JobOf(v).id = w.id
                   PROVE  w.n <= JobOf(v).n
        BY DEF Waiting, JobsOf
      <4> QED BY <2>1, <2>4 DEF IsFront, QueueInv, Ordered, JobOf
    <3>6. Queue!Start(JobOf(w))
      BY <2>3, <3>1, <3>3, <3>4, <3>5 DEF Queue!Start, Waiting
    <3>7. JobOf(w) \in Jobs
      BY <3>1 DEF QueueInv, TypeOK, Waiting
    <3> QED BY <3>6, <3>7 DEF Queue!Next
  <2>5. CASE w.kind # "item"
    <3>1. Waiting' = Waiting
      BY <2>2, <2>5 DEF Waiting, JobsOf
    <3>2. Running' = {}
      BY <2>1, <2>5 DEF Running, JobsOf
    <3> QED BY <1>0, <2>3, <3>1, <3>2
  <2> QED BY <2>4, <2>5
<1>8. ASSUME NEW ok \in BOOLEAN, Process(ok) PROVE [Queue!Next]_Queue!vars
  <2>1. /\ Waiting' = Waiting /\ accepted' = accepted
        /\ Running' = {} /\ done' = done \cup Running
    BY <1>8 DEF Process, Waiting, Running, queueVars, Goto, TypeOK
  <2>2. CASE Running = {}
    BY <1>0, <2>1, <2>2
  <2>3. CASE Running # {}
    <3>1. Queue!Finish
      BY <2>1, <2>3 DEF Queue!Finish, Waiting
    <3> QED BY <3>1 DEF Queue!Next
  <2> QED BY <2>2, <2>3
<1>9. CASE \/ \E ok \in BOOLEAN : DoWork(ok)
           \/ LoopHead \/ AnnounceDrained \/ ReportResults \/ WorkerStopped
  <2>1. Running' = {} /\ Running = {}
    BY <1>9 DEF DoWork, LoopHead, AnnounceDrained, ReportResults, WorkerStopped,
                Goto, Running, TypeOK
  <2>2. Stutter
    BY <1>9, <2>1 DEF DoWork, LoopHead, AnnounceDrained, ReportResults, WorkerStopped,
                      queueVars, history, Waiting
  <2> QED BY <1>0, <2>2
<1>13. CASE ResetIdle
  <2>1. worker'.pc = "processing" /\ worker'.item = worker.item /\ worker.pc = "taken"
    BY <1>13 DEF ResetIdle, Goto, TypeOK
  <2>2. Stutter
    BY <1>13, <2>1 DEF ResetIdle, queueVars, history, Waiting, Running
  <2> QED BY <1>0, <2>2
<1>10. CASE SetIdle
  <2>1. Stutter
    BY <1>10 DEF SetIdle, AfterHandler, Goto, queueVars, history, Waiting, Running, TypeOK
  <2> QED BY <1>0, <2>1
<1>11. CASE UNCHANGED vars
  <2>1. Stutter
    BY <1>11 DEF vars, Waiting, Running
  <2> QED BY <1>0, <2>1
<1>12. /\ {"submitSeparator", "submitItem", "submitFirst", "submitItems"} \subseteq Ops
  BY DEF Ops, BatchPushes
<1> HIDE DEF Stutter
<1> QED
  BY <1>0, <1>1, <1>2, <1>3, <1>4, <1>5, <1>6, <1>7, <1>8, <1>9, <1>10, <1>11, <1>12,
     <1>13
     DEF Next, WorkerStep, Begin, Proceed

LEMMA InitRefines == Init => Queue!Init
BY DEF Init, Queue!Init, EmptyQueue, JobsOf, Running

\* Seen from outside, the worker is a queue of jobs: whatever the threads do,
\* accepted jobs start one at a time, once, in the order of their batch.
THEOREM ImplementsQueue == Spec => ImplementsJobQueue
<1>1. TypeOK /\ QueueInv /\ [Next]_vars => [Queue!Next]_Queue!vars
  BY QueueRefinementStep
<1> QED BY <1>1, InitRefines, TypeCorrect, PTL DEF Spec, ImplementsJobQueue, Queue!Spec

\* One step of the abstract queue never makes a job wait, run or end twice.
LEMMA QueueStepOnce ==
    ASSUME QueueInv, AtMostOnce, [Queue!Next]_Queue!vars
    PROVE  AtMostOnce'
<1> USE DEF AtMostOnce
<1>1. ASSUME NEW group \in SUBSET Jobs, Queue!Accept(group) PROVE AtMostOnce'
  BY <1>1 DEF Queue!Accept, QueueInv
<1>2. ASSUME NEW group \in SUBSET Jobs, Queue!Withdraw(group) PROVE AtMostOnce'
  BY <1>2 DEF Queue!Withdraw
<1>3. ASSUME NEW j \in Jobs, Queue!Start(j) PROVE AtMostOnce'
  BY <1>3 DEF Queue!Start
<1>4. CASE Queue!Finish
  BY <1>4 DEF Queue!Finish
<1>5. CASE UNCHANGED Queue!vars
  BY <1>5 DEF Queue!vars
<1> QED BY <1>1, <1>2, <1>3, <1>4, <1>5 DEF Queue!Next

\* No job runs twice, whatever the interleaving (AtMostOnce).
THEOREM JobsRunAtMostOnce == Spec => []AtMostOnce
<1>1. Init => AtMostOnce
  BY DEF Init, AtMostOnce, EmptyQueue, JobsOf, Running
<1>2. TypeOK /\ QueueInv /\ AtMostOnce /\ [Next]_vars => AtMostOnce'
  BY QueueRefinementStep, QueueStepOnce
<1> QED BY <1>1, <1>2, TypeCorrect, PTL DEF Spec

-----------------------------------------------------------------------------
(* Cancellation. *)

\* An item that is queued after a step was queued before it or is of the batch
\* whose id is drawn in the step.
LEMMA ItemOrigin ==
    ASSUME TypeOK, [Next]_vars, NEW w \in m_Queue'.items, w.kind = "item"
    PROVE  \/ m_BatchID' = m_BatchID + 1 /\ w.id = m_BatchID
           \/ \E v \in m_Queue.items : v.kind = "item" /\ v.id = w.id
<1> DEFINE Old == \E v \in m_Queue.items : v.kind = "item" /\ v.id = w.id
<1> m_Queue.items \in SUBSET WorkItem
  BY DEF TypeOK
<1>0. ASSUME NEW items \in SUBSET m_Queue.items, NEW d \in Int, w \in Shifted(items, d)
      PROVE  Old
  BY <1>0 DEF Shifted, WorkItem
<1> HIDE DEF Old
<1>1. ASSUME m_Queue' = m_Queue PROVE Old
  BY <1>1 DEF Old
<1>2. ASSUME NEW c \in Clients, SubmitSeparator(c) PROVE Old
  BY <1>2 DEF SubmitSeparator, PushBack, Placed, Old
<1>3. ASSUME NEW c \in Clients, SubmitItems(c)
      PROVE  (m_BatchID' = m_BatchID + 1 /\ w.id = m_BatchID) \/ Old
  <2>1. m_BatchID' = m_BatchID + 1
    BY <1>3 DEF SubmitItems
  <2>2. CASE call[c].op = "submitFirst"
    <3>1. w \in Shifted(m_Queue.items, 1) \/ w \in Placed("item", m_BatchID, 1, 0)
      BY <1>3, <2>2 DEF SubmitItems, PushFront
    <3>2. w \in Placed("item", m_BatchID, 1, 0) => w.id = m_BatchID
      BY DEF Placed
    <3> QED BY <1>0, <2>1, <3>1, <3>2
  <2>3. CASE call[c].op # "submitFirst"
    BY <1>3, <2>1, <2>3 DEF SubmitItems, PushBack, Placed, Old
  <2> QED BY <2>2, <2>3
<1>4. ASSUME NEW c \in Clients, NEW b \in 1..(m_BatchID - 1), CancelBatch(c, b) PROVE Old
  BY <1>4 DEF CancelBatch, Without, Keep, EmptyQueue, Old
<1>5. ASSUME NEW c \in Clients, CancelPendingJobs(c) PROVE Old
  BY <1>5 DEF CancelPendingJobs, EmptyQueue
<1>6. ASSUME NEW c \in Clients, PushStopper(c) PROVE Old
  BY <1>6 DEF PushStopper, PushBack, Placed, EmptyQueue, Old
<1>7. ASSUME Take PROVE Old
  <2>1. PICK v \in m_Queue.items : m_Queue' = PopFront(m_Queue, v)
    BY <1>7 DEF Take
  <2>2. -(v.pos + 1) \in Int /\ m_Queue.items \ {v} \in SUBSET m_Queue.items
    BY DEF WorkItem
  <2>3. w \in Shifted(m_Queue.items \ {v}, -(v.pos + 1))
    BY <2>1 DEF PopFront, EmptyQueue
  <2> QED BY <1>0, <2>2, <2>3
<1>8. ASSUME NEW c \in Clients,
             \/ \E op, size : CheckCancel(c, op, size)
             \/ AnnounceCancelled(c) \/ WaitIdle(c) \/ WaitIdleReturns(c)
             \/ \E now \in BOOLEAN : RequestStop(c, now)
      PROVE  Old
  BY <1>1, <1>8 DEF CheckCancel, AnnounceCancelled, WaitIdle, WaitIdleReturns, RequestStop,
                    queueVars
<1>9. CASE \/ \E ok \in BOOLEAN : DoWork(ok) \/ Process(ok)
           \/ LoopHead \/ ResetIdle \/ SetIdle
           \/ AnnounceDrained \/ ReportResults \/ WorkerStopped
  BY <1>1, <1>9 DEF DoWork, Process, LoopHead, ResetIdle, SetIdle, AnnounceDrained,
                    ReportResults, WorkerStopped, queueVars
<1>10. CASE UNCHANGED vars
  BY <1>1, <1>10 DEF vars
<1> QED
  BY <1>2, <1>3, <1>4, <1>5, <1>6, <1>7, <1>8, <1>9, <1>10
     DEF Next, WorkerStep, Begin, Proceed, Old

\* Nothing of a cancelled batch is queued, now or later (WithdrawnStaysOut).
THEOREM CancellationHolds == Spec => []WithdrawnStaysOut
<1>1. Init => WithdrawnStaysOut
  BY DEF Init, WithdrawnStaysOut, EmptyQueue
<1>2. ASSUME TypeOK, QueueInv, WithdrawnStaysOut, [Next]_vars
      PROVE  WithdrawnStaysOut'
  <2> SUFFICES ASSUME NEW w \in m_Queue'.items, w.kind = "item" PROVE w.id \notin withdrawn'
    BY DEF WithdrawnStaysOut
  <2>1. w.id \notin withdrawn
    BY <1>2, ItemOrigin DEF WithdrawnStaysOut, QueueInv, TypeOK
  <2>2. ASSUME NEW c \in Clients, NEW b \in 1..(m_BatchID - 1), CancelBatch(c, b)
        PROVE  w.id \notin withdrawn'
    BY <2>1, <2>2 DEF CancelBatch, Without, Keep, EmptyQueue
  <2>3. ASSUME NEW c \in Clients, CancelPendingJobs(c) PROVE w.id \notin withdrawn'
    BY <2>3 DEF CancelPendingJobs, EmptyQueue
  <2>4. \/ \E c \in Clients : \/ CancelPendingJobs(c)
                              \/ \E b \in 1..(m_BatchID - 1) : CancelBatch(c, b)
        \/ withdrawn' = withdrawn
    BY <1>2 DEF Next, WorkerStep, Begin, Proceed, vars, history, CheckCancel, SubmitSeparator,
                SubmitItems, AnnounceCancelled, RequestStop, PushStopper, WaitIdle,
                WaitIdleReturns, DoWork, LoopHead, Take, ResetIdle, Process, SetIdle,
                AnnounceDrained, ReportResults, WorkerStopped
  <2> QED BY <2>1, <2>2, <2>3, <2>4
<1> QED BY <1>1, <1>2, TypeCorrect, PTL DEF Spec

-----------------------------------------------------------------------------
(* waitIdle. *)

\* The idle event is down while a handler runs, and a caller of waitIdle waits
\* for a handler that has ended or is the one still running.
IdleInv ==
    /\ worker.pc \in {"processing", "processed"} => ~m_IdleEvent
    /\ \A c \in Clients : call[c].op = "waitIdle" =>
          \/ call[c].seen \subseteq done
          \/ worker.pc = "processing" /\ call[c].seen \subseteq JobsOf({worker.item})

LEMMA IdleStep ==
    ASSUME TypeOK, IdleInv, [Next]_vars
    PROVE  IdleInv'
<1> USE DEF IdleInv, TypeOK
<1>1. ASSUME NEW c \in Clients,
             \/ \E op \in Ops \ {"waitIdle"} : \E size : CheckCancel(c, op, size)
             \/ SubmitSeparator(c) \/ SubmitItems(c)
             \/ \E b \in 1..(m_BatchID - 1) : CancelBatch(c, b)
             \/ CancelPendingJobs(c) \/ AnnounceCancelled(c)
             \/ \E now \in BOOLEAN : RequestStop(c, now)
             \/ PushStopper(c) \/ WaitIdleReturns(c)
      PROVE  IdleInv'
  <2>1. \A d \in Clients : call'[d].op = "waitIdle" => call'[d] = call[d]
    BY <1>1 DEF CheckCancel, SubmitSeparator, SubmitItems, CancelBatch, CancelPendingJobs,
         AnnounceCancelled, RequestStop, PushStopper, WaitIdleReturns, Enter, Return, NoCall
  <2>2. UNCHANGED <<m_IdleEvent, worker, done>>
    BY <1>1 DEF CheckCancel, SubmitSeparator, SubmitItems, CancelBatch, CancelPendingJobs,
         AnnounceCancelled, RequestStop, PushStopper, WaitIdleReturns, history
  <2> QED BY <2>1, <2>2
<1>2. ASSUME NEW c \in Clients, WaitIdle(c) PROVE IdleInv'
  <2>1. UNCHANGED <<m_IdleEvent, worker, done>>
    BY <1>2 DEF WaitIdle, history
  <2>2. call'[c].seen = IF worker.pc = "processing" THEN JobsOf({worker.item}) ELSE {}
    BY <1>2 DEF WaitIdle, Enter
  <2>3. \A d \in Clients \ {c} : call'[d] = call[d]
    BY <1>2 DEF WaitIdle, Enter
  <2> QED BY <2>1, <2>2, <2>3
<1>3. ASSUME NEW ok \in BOOLEAN, Process(ok) PROVE IdleInv'
  <2>1. /\ worker'.pc = "processed" /\ worker.pc = "processing"
        /\ UNCHANGED <<m_IdleEvent, call>> /\ done' = done \cup JobsOf({worker.item})
    BY <1>3 DEF Process, Goto
  <2> QED BY <2>1
<1>4. CASE \E ok \in BOOLEAN : DoWork(ok)
  BY <1>4 DEF DoWork, Goto, history
<1>5. CASE LoopHead \/ AnnounceDrained \/ ReportResults \/ WorkerStopped
  <2>1. UNCHANGED <<call, done, m_IdleEvent>> /\ worker'.pc \notin {"processing", "processed"}
        /\ worker.pc # "processing"
    BY <1>5 DEF LoopHead, AnnounceDrained, ReportResults, WorkerStopped, Goto, history
  <2> QED BY <2>1
<1>6. CASE Take
  <2>1. UNCHANGED <<call, done, m_IdleEvent>> /\ worker'.pc \notin {"processing", "processed"}
        /\ worker.pc # "processing"
    BY <1>6 DEF Take, history
  <2> QED BY <2>1
<1>7. CASE ResetIdle
  <2>1. UNCHANGED <<call, done>> /\ ~m_IdleEvent' /\ worker.pc = "taken"
    BY <1>7 DEF ResetIdle, history
  <2> QED BY <2>1
<1>8. CASE SetIdle
  <2>1. UNCHANGED <<call, done>> /\ worker.pc = "processed"
        /\ worker'.pc \notin {"processing", "processed"}
    BY <1>8 DEF SetIdle, AfterHandler, Goto, history
  <2> QED BY <2>1
<1>9. CASE UNCHANGED vars
  BY <1>9 DEF vars
<1>10. {"submitSeparator", "submitItem", "submitFirst", "submitItems"} \subseteq Ops \ {"waitIdle"}
  BY DEF Ops, BatchPushes
<1> QED
  BY <1>1, <1>2, <1>3, <1>4, <1>5, <1>6, <1>7, <1>8, <1>9, <1>10
     DEF Next, WorkerStep, Begin, Proceed

\* When waitIdle returns, the handler it was called under has ended
\* (WaitIdleWaits): no later item lets the caller through early.
THEOREM WaitIdleIsSafe == Spec => WaitIdleWaits
<1> DEFINE Waits == \A c \in Clients :
          call[c].op = "waitIdle" /\ call'[c].op = "none" => call[c].seen \subseteq done
<1>1. Init => IdleInv
  BY DEF Init, IdleInv, NoCall
<1>2. TypeOK /\ IdleInv /\ [Next]_vars => IdleInv'
  BY IdleStep
<1>3. TypeOK /\ IdleInv /\ [Next]_vars => [Waits]_vars
  <2> SUFFICES ASSUME TypeOK, IdleInv, Next, NEW c \in Clients,
                      call[c].op = "waitIdle", call'[c].op = "none"
               PROVE  call[c].seen \subseteq done
    BY DEF vars
  <2>1. WaitIdleReturns(c)
    <3>1. ASSUME NEW d \in Clients, d # c, Begin(d) \/ Proceed(d) \/ WaitIdleReturns(d)
          PROVE  call'[c] = call[c]
      BY <3>1 DEF TypeOK, Begin, Proceed, CheckCancel, SubmitSeparator, SubmitItems,
           CancelBatch, CancelPendingJobs, AnnounceCancelled, RequestStop, PushStopper,
           WaitIdle, WaitIdleReturns, Enter, Return
    <3>2. ~Begin(c) /\ ~Proceed(c)
      BY DEF Begin, Proceed, CheckCancel, SubmitSeparator, SubmitItems, CancelBatch,
           CancelPendingJobs, AnnounceCancelled, RequestStop, PushStopper, WaitIdle,
           Idle, NoCall, BatchPushes
    <3>3. ~WorkerStep
      BY DEF WorkerStep, DoWork, LoopHead, Take, ResetIdle, Process, SetIdle,
             AnnounceDrained, ReportResults, WorkerStopped
    <3> QED BY <3>1, <3>2, <3>3 DEF Next
  <2> QED BY <2>1 DEF WaitIdleReturns, IdleInv
<1> QED BY <1>1, <1>2, <1>3, TypeCorrect, PTL DEF Spec, WaitIdleWaits

-----------------------------------------------------------------------------
(* What the worker leaves unsaid. *)

\* Only stopWorking queues a stopper, after its store to m_Cancel.
StopInv ==
    /\ \A w \in m_Queue.items : w.kind = "stopper" => m_Cancel
    /\ \A c \in Clients : call[c].op \in {"stopNow", "stopLater"} => m_Cancel

\* Who will announce an empty queue: the thread that emptied it by a
\* cancellation, or the worker, which saw that it popped the last item.
DrainInv ==
    \/ announced \/ ~IsEmpty \/ m_Cancel
    \/ worker.pc = "drained"
    \/ worker.pc \in {"taken", "processing", "processed"} /\ worker.noMoreItems
    \/ \E c \in Clients : call[c].op = "onQueueIsEmpty"

\* Who will report the results: while nothing is withdrawn, a worker that does
\* not know the queue to be empty finds another item in it.
ResultsInv ==
    withdrawn = {} /\ ~m_Cancel =>
        /\ worker.pc \in {"taken", "processing", "processed"} /\ ~worker.noMoreItems
              => ~IsEmpty
        /\ worker.pc \in {"created", "loop", "take"} /\ m_Results # {} => ~IsEmpty

LEMMA PlacedSome ==
    ASSUME NEW kind, NEW id, NEW size \in Nat \ {0}, NEW first
    PROVE  Placed(kind, id, size, first) # {}
<1>1. 1 \in 1..size
  OBVIOUS
<1> QED BY <1>1 DEF Placed

\* A deque is emptied by popping its last item, which the worker notes, or by a
\* cancellation, whose thread then announces it.
LEMMA Emptying ==
    ASSUME TypeOK, [Next]_vars, IsEmpty', ~IsEmpty
    PROVE  \/ Take /\ worker'.noMoreItems
           \/ UNCHANGED <<worker, m_Results>> /\ withdrawn' # {} /\
              \E c \in Clients : call'[c].op = "onQueueIsEmpty"
<1> m_Queue.items \in SUBSET WorkItem /\ m_Queue.items # {}
  BY DEF TypeOK, IsEmpty
<1>0. m_Queue'.items = {} /\ m_Queue' # m_Queue
  BY DEF IsEmpty
<1>1. \A c \in Clients : ~SubmitSeparator(c) /\ ~SubmitItems(c)
  <2>1. \A d : Shifted(m_Queue.items, d) # {}
    BY DEF Shifted
  <2> QED BY <1>0, <2>1 DEF SubmitSeparator, SubmitItems, PushBack, PushFront
<1>2. \A c \in Clients : ~PushStopper(c)
  <2> SUFFICES ASSUME NEW c \in Clients, PushStopper(c) PROVE FALSE
    OBVIOUS
  <2>1. \A q : PushBack(q, "stopper", INVALID_BATCH_ID, 1).items # {}
    BY PlacedSome DEF PushBack
  <2> QED BY <1>0, <2>1 DEF PushStopper
<1>3. ASSUME NEW c \in Clients, NEW b \in 1..(m_BatchID - 1), CancelBatch(c, b)
      PROVE  /\ UNCHANGED <<worker, m_Results>> /\ withdrawn' # {}
             /\ call'[c].op = "onQueueIsEmpty"
  <2>1. Without(m_Queue.items, b) = {}
    BY <1>0, <1>3 DEF CancelBatch, Keep
  <2> QED BY <1>3, <2>1 DEF CancelBatch, Enter, TypeOK
<1>4. ASSUME NEW c \in Clients, CancelPendingJobs(c)
      PROVE  /\ UNCHANGED <<worker, m_Results>> /\ withdrawn' # {}
             /\ call'[c].op = "onQueueIsEmpty"
  BY <1>4 DEF CancelPendingJobs, Enter, TypeOK
<1>5. ASSUME Take PROVE worker'.noMoreItems
  <2>1. PICK w \in m_Queue.items :
          /\ m_Queue' = PopFront(m_Queue, w)
          /\ worker' = [pc |-> IF EndsLoop(w) THEN "exited" ELSE "taken",
                        item |-> w, noMoreItems |-> m_Queue.items = {w}]
    BY <1>5 DEF Take
  <2>2. m_Queue.items = {w}
    BY <1>0, <2>1 DEF PopFront, Shifted
  <2> QED BY <2>1, <2>2
<1>6. \/ \E c \in Clients : \/ SubmitSeparator(c) \/ SubmitItems(c) \/ PushStopper(c)
                            \/ \E b \in 1..(m_BatchID - 1) : CancelBatch(c, b)
                            \/ CancelPendingJobs(c)
      \/ Take
  BY <1>0 DEF Next, WorkerStep, Begin, Proceed, vars, queueVars, CheckCancel,
       AnnounceCancelled, RequestStop, WaitIdle, WaitIdleReturns, DoWork, LoopHead,
       ResetIdle, Process, SetIdle, AnnounceDrained, ReportResults, WorkerStopped
<1> QED BY <1>1, <1>2, <1>3, <1>4, <1>5, <1>6

\* m_Cancel is never reset.
LEMMA CancelStays ==
    ASSUME TypeOK, [Next]_vars, m_Cancel
    PROVE  m_Cancel'
BY DEF Next, WorkerStep, Begin, Proceed, vars, CheckCancel, SubmitSeparator, SubmitItems,
       CancelBatch, CancelPendingJobs, AnnounceCancelled, RequestStop, PushStopper,
       WaitIdle, WaitIdleReturns, DoWork, LoopHead, Take, ResetIdle, Process, SetIdle,
       AnnounceDrained, ReportResults, WorkerStopped

LEMMA StopStep ==
    ASSUME TypeOK, StopInv, [Next]_vars
    PROVE  StopInv'
<1> DEFINE Pending == \E c \in Clients : call[c].op \in {"stopNow", "stopLater"}
           Queued == \E w \in m_Queue.items : w.kind = "stopper"
<1> m_Queue.items \in SUBSET WorkItem
  BY DEF TypeOK
<1>0. ASSUME NEW items \in SUBSET m_Queue.items, NEW d \in Int, NEW w \in Shifted(items, d),
             w.kind = "stopper"
      PROVE  Queued
  BY <1>0 DEF Shifted, WorkItem
<1>1. ASSUME NEW c \in Clients, NEW now \in BOOLEAN, RequestStop(c, now) PROVE m_Cancel'
  BY <1>1 DEF RequestStop
<1>2. ASSUME NEW c \in Clients, PushStopper(c) PROVE m_Cancel'
  BY <1>2 DEF PushStopper, StopInv
<1>3. ASSUME NEW c \in Clients,
             \/ \E op \in BatchPushes \cup {"submitSeparator"} : \E size : CheckCancel(c, op, size)
             \/ SubmitSeparator(c) \/ SubmitItems(c)
             \/ \E b \in 1..(m_BatchID - 1) : CancelBatch(c, b)
             \/ CancelPendingJobs(c) \/ AnnounceCancelled(c) \/ WaitIdle(c) \/ WaitIdleReturns(c)
      PROVE  Pending' => Pending
  BY <1>3 DEF CheckCancel, SubmitSeparator, SubmitItems, CancelBatch, CancelPendingJobs,
       AnnounceCancelled, WaitIdle, WaitIdleReturns, Enter, Return, NoCall, TypeOK, BatchPushes
<1>4. ASSUME WorkerStep \/ UNCHANGED vars PROVE Pending' => Pending
  <2>1. call' = call
    BY <1>4 DEF WorkerStep, DoWork, LoopHead, Take, ResetIdle, Process, SetIdle, AnnounceDrained,
                ReportResults, WorkerStopped, vars
  <2> QED BY <2>1
<1>5. ASSUME NEW c \in Clients, SubmitSeparator(c) \/ SubmitItems(c) PROVE Queued' => Queued
  <2>1. 1 \in Int /\ m_Queue.items \in SUBSET m_Queue.items
    OBVIOUS
  <2>2. \A k, id, size, first : \A w \in Placed(k, id, size, first) : w.kind = k
    BY DEF Placed
  <2>3. \/ m_Queue'.items = m_Queue.items \cup Placed("separator", INVALID_BATCH_ID, 1, m_Queue.end)
        \/ m_Queue'.items = Shifted(m_Queue.items, 1) \cup Placed("item", m_BatchID, 1, 0)
        \/ m_Queue'.items = m_Queue.items \cup Placed("item", m_BatchID, call[c].size, m_Queue.end)
    BY <1>5 DEF SubmitSeparator, SubmitItems, PushBack, PushFront
  <2> QED BY <1>0, <2>1, <2>2, <2>3
<1>6. ASSUME NEW c \in Clients,
             CancelPendingJobs(c) \/ \E b \in 1..(m_BatchID - 1) : CancelBatch(c, b)
      PROVE  Queued' => Queued
  <2>1. \A items : Keep(m_Queue, items).items = items
    BY DEF Keep, EmptyQueue, TypeOK
  <2>2. CASE CancelPendingJobs(c)
    BY <2>2 DEF CancelPendingJobs, EmptyQueue
  <2>3. ASSUME NEW b \in 1..(m_BatchID - 1), CancelBatch(c, b) PROVE Queued' => Queued
    <3>1. m_Queue'.items = Without(m_Queue.items, b)
      BY <2>1, <2>3 DEF CancelBatch
    <3> QED BY <3>1 DEF Without
  <2> QED BY <1>6, <2>2, <2>3
<1>7. ASSUME Take PROVE Queued' => Queued
  <2>1. PICK v \in m_Queue.items : m_Queue' = PopFront(m_Queue, v)
    BY <1>7 DEF Take
  <2>2. -(v.pos + 1) \in Int /\ m_Queue.items \ {v} \in SUBSET m_Queue.items
    BY DEF WorkItem
  <2>3. m_Queue'.items = {} \/ m_Queue'.items = Shifted(m_Queue.items \ {v}, -(v.pos + 1))
    BY <2>1 DEF PopFront, EmptyQueue
  <2> QED BY <1>0, <2>2, <2>3
<1>8. ASSUME NEW c \in Clients,
             \/ \E op, size : CheckCancel(c, op, size)
             \/ AnnounceCancelled(c) \/ WaitIdle(c) \/ WaitIdleReturns(c)
      PROVE  Queued' => Queued
  BY <1>8 DEF CheckCancel, AnnounceCancelled, WaitIdle, WaitIdleReturns, queueVars
<1>9. CASE \/ \E ok \in BOOLEAN : DoWork(ok) \/ Process(ok)
           \/ LoopHead \/ ResetIdle \/ SetIdle
           \/ AnnounceDrained \/ ReportResults \/ WorkerStopped \/ UNCHANGED vars
  <2>1. m_Queue' = m_Queue
    BY <1>9 DEF DoWork, Process, LoopHead, ResetIdle, SetIdle, AnnounceDrained, ReportResults,
                WorkerStopped, queueVars, vars
  <2>2. Queued' => Queued
    BY <2>1
  <2> QED BY <1>4, <1>9, <2>2, CancelStays DEF StopInv, WorkerStep
<1>10. (Pending' => Pending) /\ (Queued' => Queued) => StopInv'
  BY CancelStays DEF StopInv
<1>11. m_Cancel' => StopInv'
  BY DEF StopInv
<1>12. {"submitSeparator", "submitItem", "submitFirst", "submitItems"}
          = BatchPushes \cup {"submitSeparator"}
  BY DEF BatchPushes
<1> HIDE DEF Pending, Queued
<1>13. ASSUME NEW c \in Clients, Begin(c) \/ Proceed(c) \/ WaitIdleReturns(c) PROVE StopInv'
  <2>1. CASE \E now \in BOOLEAN : RequestStop(c, now)
    BY <1>1, <1>11, <2>1
  <2>2. CASE PushStopper(c)
    BY <1>2, <1>11, <2>2
  <2>3. CASE \/ CheckCancel(c, "submitSeparator", 1)
             \/ \E op \in {"submitItem", "submitFirst"} : CheckCancel(c, op, 1)
             \/ \E size \in 0..MaxBatchSize : CheckCancel(c, "submitItems", size)
    BY <1>3, <1>8, <1>10, <1>12, <2>3
  <2>4. CASE SubmitSeparator(c) \/ SubmitItems(c)
    BY <1>3, <1>5, <1>10, <2>4
  <2>5. CASE CancelPendingJobs(c) \/ \E b \in 1..(m_BatchID - 1) : CancelBatch(c, b)
    BY <1>3, <1>6, <1>10, <2>5
  <2>6. CASE AnnounceCancelled(c) \/ WaitIdle(c) \/ WaitIdleReturns(c)
    BY <1>3, <1>8, <1>10, <2>6
  <2> QED BY <1>13, <2>1, <2>2, <2>3, <2>4, <2>5, <2>6 DEF Begin, Proceed
<1>14. CASE Take
  BY <1>4, <1>7, <1>10, <1>14 DEF WorkerStep
<1> QED BY <1>9, <1>13, <1>14 DEF Next, WorkerStep

LEMMA DrainStep ==
    ASSUME TypeOK, StopInv, DrainInv, [Next]_vars
    PROVE  DrainInv'
<1> SUFFICES ASSUME ~announced', IsEmpty', ~m_Cancel' PROVE DrainInv'
  BY DEF DrainInv
<1> USE DEF DrainInv, TypeOK
<1>0. ~m_Cancel
  BY CancelStays
<1>1. CASE ~IsEmpty
  <2>1. CASE Take /\ worker'.noMoreItems
    <3>1. PICK w \in m_Queue.items :
            worker' = [pc |-> IF EndsLoop(w) THEN "exited" ELSE "taken",
                       item |-> w, noMoreItems |-> m_Queue.items = {w}]
      BY <2>1 DEF Take
    <3>2. ~EndsLoop(w)
      BY <1>0 DEF StopInv, EndsLoop
    <3> QED BY <2>1, <3>1, <3>2
  <2> QED BY <1>1, <2>1, Emptying
<1>2. CASE IsEmpty /\ announced
  <2>1. \A c \in Clients : ~SubmitSeparator(c)
    <3>1. \A q : PushBack(q, "separator", INVALID_BATCH_ID, 1).items # {}
      BY PlacedSome DEF PushBack
    <3> QED BY <3>1 DEF SubmitSeparator, IsEmpty
  <2>2. \A c \in Clients : ~SubmitItems(c)
    <3> SUFFICES ASSUME NEW c \in Clients, SubmitItems(c) PROVE FALSE
      OBVIOUS
    <3>1. call[c].size # 0 /\ call[c].size \in 0..MaxBatchSize
      BY <1>2 DEF SubmitItems
    <3>2. call[c].size \in Nat \ {0}
      BY <3>1, BoundsAssumption
    <3>3. /\ PushFront(m_Queue, m_BatchID).items # {}
          /\ PushBack(m_Queue, "item", m_BatchID, call[c].size).items # {}
      BY <3>2, PlacedSome DEF PushBack, PushFront
    <3> QED BY <3>3 DEF SubmitItems, IsEmpty
  <2>3. announced'
    BY <1>2, <2>1, <2>2
       DEF Next, WorkerStep, Begin, Proceed, vars, history, CheckCancel, CancelBatch,
           CancelPendingJobs, AnnounceCancelled, RequestStop, PushStopper, WaitIdle,
           WaitIdleReturns, DoWork, LoopHead, Take, ResetIdle, Process, SetIdle,
           AnnounceDrained, ReportResults, WorkerStopped
  <2> QED BY <2>3
<1>3. CASE /\ IsEmpty
           /\ \/ worker.pc = "drained"
              \/ worker.pc \in {"taken", "processing", "processed"} /\ worker.noMoreItems
  <2>1. CASE ~WorkerStep
    <3>1. worker' = worker
      BY <2>1 DEF Next, Begin, Proceed, vars, CheckCancel, SubmitSeparator, SubmitItems,
           CancelBatch, CancelPendingJobs, AnnounceCancelled, RequestStop, PushStopper,
           WaitIdle, WaitIdleReturns
    <3> QED BY <1>3, <3>1
  <2>2. CASE WorkerStep
    BY <1>3, <2>2 DEF WorkerStep, DoWork, LoopHead, Take, ResetIdle, Process, SetIdle,
         AnnounceDrained, ReportResults, WorkerStopped, Goto, AfterHandler
  <2> QED BY <2>1, <2>2
<1>4. ASSUME NEW c \in Clients, call[c].op = "onQueueIsEmpty" PROVE DrainInv'
  <2>1. call'[c].op = "onQueueIsEmpty"
    BY <1>4 DEF Next, WorkerStep, Begin, Proceed, vars, CheckCancel, SubmitSeparator,
         SubmitItems, CancelBatch, CancelPendingJobs, AnnounceCancelled, RequestStop,
         PushStopper, WaitIdle, WaitIdleReturns, DoWork, LoopHead, Take, ResetIdle, Process,
         SetIdle, AnnounceDrained, ReportResults, WorkerStopped, Idle, NoCall, Enter, Return,
         BatchPushes
  <2> QED BY <2>1
<1> QED BY <1>0, <1>1, <1>2, <1>3, <1>4

LEMMA ResultsStep ==
    ASSUME TypeOK, ResultsInv, [Next]_vars
    PROVE  ResultsInv'
<1> SUFFICES ASSUME withdrawn' = {}, ~m_Cancel'
             PROVE  /\ worker'.pc \in {"taken", "processing", "processed"} /\ ~worker'.noMoreItems
                          => ~IsEmpty'
                    /\ worker'.pc \in {"created", "loop", "take"} /\ m_Results' # {} => ~IsEmpty'
  BY DEF ResultsInv
<1>0. ~m_Cancel /\ withdrawn = {}
  BY CancelStays DEF Next, WorkerStep, Begin, Proceed, vars, history, CheckCancel,
       SubmitSeparator, SubmitItems, CancelBatch, CancelPendingJobs, AnnounceCancelled,
       RequestStop, PushStopper, WaitIdle, WaitIdleReturns, DoWork, LoopHead, Take, ResetIdle,
       Process, SetIdle, AnnounceDrained, ReportResults, WorkerStopped
<1>1. CASE IsEmpty' /\ ~IsEmpty
  <2>1. Take /\ worker'.noMoreItems
    BY <1>1, Emptying
  <2>2. worker'.pc \in {"exited", "taken"}
    BY <2>1 DEF Take
  <2> QED BY <2>1, <2>2
<1>2. CASE IsEmpty' /\ IsEmpty
  <2>0. /\ worker.pc \in {"taken", "processing", "processed"} => worker.noMoreItems
        /\ worker.pc \in {"created", "loop", "take"} => m_Results = {}
    BY <1>0, <1>2 DEF ResultsInv
  <2>1. CASE ~WorkerStep
    <3>1. worker' = worker /\ m_Results' = m_Results
      BY <2>1 DEF Next, Begin, Proceed, vars, CheckCancel, SubmitSeparator, SubmitItems,
           CancelBatch, CancelPendingJobs, AnnounceCancelled, RequestStop, PushStopper,
           WaitIdle, WaitIdleReturns
    <3> QED BY <2>0, <3>1
  <2>2. ~Take
    BY <1>2 DEF Take, IsEmpty
  <2>3. CASE WorkerStep
    BY <2>0, <2>2, <2>3 DEF WorkerStep, DoWork, LoopHead, ResetIdle, Process, SetIdle,
         AnnounceDrained, ReportResults, WorkerStopped, Goto, AfterHandler, TypeOK
  <2> QED BY <2>1, <2>3
<1>3. CASE ~IsEmpty'
  BY <1>3
<1> QED BY <1>1, <1>2, <1>3

\* The emptiness of the queue is announced before the worker sleeps on it, even
\* when a cancellation in another thread emptied it (DrainIsAnnounced).
THEOREM DrainAnnounced == Spec => []DrainIsAnnounced
<1>1. Init => StopInv /\ DrainInv
  BY DEF Init, StopInv, DrainInv, EmptyQueue, NoCall
<1>2. TypeOK /\ StopInv /\ DrainInv /\ [Next]_vars => (StopInv /\ DrainInv)'
  BY StopStep, DrainStep
<1>3. DrainInv => DrainIsAnnounced
  BY DEF DrainInv, DrainIsAnnounced
<1> QED BY <1>1, <1>2, <1>3, TypeCorrect, PTL DEF Spec

\* No result waits behind an empty queue for a next item (ResultsAreReported).
THEOREM ResultsReported == Spec => []ResultsAreReported
<1>1. Init => ResultsInv
  BY DEF Init, ResultsInv
<1>2. TypeOK /\ ResultsInv /\ [Next]_vars => ResultsInv'
  BY ResultsStep
<1>3. ResultsInv => ResultsAreReported
  BY DEF ResultsInv, ResultsAreReported
<1> QED BY <1>1, <1>2, <1>3, TypeCorrect, PTL DEF Spec

=============================================================================
