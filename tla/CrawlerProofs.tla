--------------------------- MODULE CrawlerProofs ---------------------------
(***************************************************************************)
(* Proofs about Crawler for every web, every configuration and any number  *)
(* of workers: types and counters, the end of the loop, and what becomes   *)
(* of the tasks: none is lost, none is fetched twice, MaxURLs holds.       *)
(***************************************************************************)
EXTENDS Crawler, FiniteSetTheorems, SequenceTheorems, TLAPS

-----------------------------------------------------------------------------
(* Lemmas about the helpers *)

\* A worker that takes a task joins the busy ones, ...
LEMMA BusyJoin ==
    ASSUME NEW w \in Workers, TypeOK, w \notin Busy,
           NEW x \in {"check", "fetch", "found", "failed", "return"},
           wpc' = [wpc EXCEPT ![w] = x]
    PROVE  Cardinality(Busy') = Cardinality(Busy) + 1
<1>1. Busy' = Busy \cup {w}
  BY DEF Busy, TypeOK, WorkerTypeOK
<1>2. IsFiniteSet(Busy)
  BY CrawlerAssumption, FS_Subset DEF Busy
<1> QED BY <1>1, <1>2, FS_AddElement

\* ... one that answers leaves them, ...
LEMMA BusyLeave ==
    ASSUME NEW w \in Workers, TypeOK, w \in Busy,
           wpc' = [wpc EXCEPT ![w] = "recv"]
    PROVE  Cardinality(Busy') = Cardinality(Busy) - 1
<1>1. Busy' = Busy \ {w}
  BY DEF Busy, TypeOK, WorkerTypeOK
<1>2. IsFiniteSet(Busy)
  BY CrawlerAssumption, FS_Subset DEF Busy
<1> QED BY <1>1, <1>2, FS_RemoveElement

\* ... and one that goes on with its task stays.
LEMMA BusyStay ==
    ASSUME NEW w \in Workers, TypeOK, w \in Busy,
           NEW x \in {"check", "fetch", "found", "failed", "return"},
           wpc' = [wpc EXCEPT ![w] = x]
    PROVE  Busy' = Busy
BY DEF Busy, TypeOK, WorkerTypeOK

\* The busy workers are finitely many.
LEMMA BusyNat == Cardinality(Busy) \in Nat /\ IsFiniteSet(Busy)
<1>1. IsFiniteSet(Busy)
  BY CrawlerAssumption, FS_Subset DEF Busy
<1> QED BY <1>1, FS_CardinalityType

\* Links and seeds become tasks.
LEMMA LinkTasksType ==
    ASSUME NEW t \in Task
    PROVE  LinkTasks(t) \in Seq(Task)
<1> DEFINE L == Links[t.url]
<1>1. L \in Seq(URLs) /\ t.depth + 1 \in Nat
  BY CrawlerAssumption DEF Task
<1>2. Len(L) \in Nat /\ DOMAIN L = 1..Len(L) /\ \A i \in 1..Len(L) : L[i] \in URLs
  BY <1>1
<1>3. \A i \in 1..Len(L) : [url |-> L[i], depth |-> t.depth + 1] \in Task
  BY <1>1, <1>2 DEF Task
<1>4. LinkTasks(t) = [i \in 1..Len(L) |-> [url |-> L[i], depth |-> t.depth + 1]]
  BY <1>2 DEF LinkTasks
<1> HIDE DEF L
<1> QED BY <1>2, <1>3, <1>4, IsASeq

\* The seeds, as tasks, are a sequence of tasks of the same length.
LEMMA SeedQueueType == SeedQueue \in Seq(Task) /\ Len(SeedQueue) = Len(Seeds)
<1>1. Len(Seeds) \in Nat /\ DOMAIN Seeds = 1..Len(Seeds)
      /\ \A i \in 1..Len(Seeds) : Seeds[i] \in URLs
  BY CrawlerAssumption
<1>2. SeedQueue = [i \in 1..Len(Seeds) |-> [url |-> Seeds[i], depth |-> 0]]
  BY <1>1 DEF SeedQueue
<1>3. \A i \in 1..Len(Seeds) : [url |-> Seeds[i], depth |-> 0] \in Task
  BY <1>1 DEF Task
<1>4. SeedQueue \in Seq(Task)
  BY <1>1, <1>2, <1>3, IsASeq
<1>5. DOMAIN SeedQueue = 1..Len(Seeds)
  BY <1>2
<1> QED BY <1>1, <1>4, <1>5

\* The number of workers is a number: it bounds the output channels.
LEMMA NumWorkersType == NumWorkers \in Nat
BY CrawlerAssumption, FS_CardinalityType DEF NumWorkers

-----------------------------------------------------------------------------
(* The bookkeeping invariant *)

\* A busy worker holds a task.
HeldTasks == \A w \in Busy : wtask[w] \in Task

\* The select with the overflow case is entered with a non-empty overflow.
OverflowAtSelect == pc = "overflow" => overflow # <<>>

\* TypeOK is not inductive by itself: the counter inFlight stays a natural
\* number because it is at least the number of answers in discoveredCh.
CountInv == TypeOK /\ InFlightExact /\ HeldTasks /\ OverflowAtSelect

\* The invariant holds before Start is called.
LEMMA CountInit == Init => CountInv
<1> SUFFICES ASSUME Init PROVE CountInv
  OBVIOUS
<1>1. Busy = {}
  BY DEF Init, Busy
<1>2. Cardinality(Busy) = 0 /\ Len(taskCh) = 0 /\ Len(discoveredCh) = 0
  BY <1>1, FS_EmptySet DEF Init
<1>3. InFlightExact
  <2>1. inFlight = 0
    BY DEF Init
  <2> QED BY <1>2, <2>1 DEF InFlightExact
<1>4. TypeOK
  <2>1. CoordTypeOK
    BY DEF Init, CoordTypeOK, StartPCs
  <2>2. ChanTypeOK
    BY EmptySeq DEF Init, ChanTypeOK
  <2>3. WorkerTypeOK
    BY DEF Init, WorkerTypeOK, WorkerPCs
  <2>4. IndexTypeOK
    BY DEF Init, IndexTypeOK
  <2>5. DbTypeOK /\ cancelled \in BOOLEAN
    BY EmptySeq DEF Init, DbTypeOK
  <2>6. metrics \in Metrics
    BY DEF Init, ZeroMetrics, Metrics
  <2> QED BY <2>1, <2>2, <2>3, <2>4, <2>5, <2>6 DEF TypeOK
<1> QED BY <1>1, <1>3, <1>4 DEF CountInv, HeldTasks, OverflowAtSelect, Init

\* updateQueueMetrics keeps the type of the metrics.
LEMMA QueueMetricsType ==
    ASSUME NEW m \in Metrics, NEW n \in Nat, NEW o \in Seq(Task)
    PROVE  WithQueueMetrics(m, n, o) \in Metrics
<1>1. Len(o) \in Nat /\ n + Len(o) \in Nat
  OBVIOUS
<1> QED BY <1>1 DEF WithQueueMetrics, Metrics

\* Two counters the actions add to are numbers.
LEMMA MetricsFields ==
    ASSUME NEW m \in Metrics
    PROVE  /\ m.PagesProcessed + 1 \in Nat /\ m.PagesErrored + 1 \in Nat
           /\ m.IndexedDocs + 1 \in Nat /\ m.PagesQueued + 1 \in Nat
           /\ m.PagesProcessed \in Nat /\ m.PagesQueued \in Nat
BY DEF Metrics

\* A send on taskCh keeps the types of what it may change.
LEMMA SendType ==
    ASSUME TypeOK, NEW t \in Task, Send(t)
    PROVE  /\ taskCh' \in Seq(Task)
           /\ wpc' \in [Workers -> WorkerPCs]
           /\ wtask' \in [Workers -> Task \cup {NoTask}]
<1>1. CASE taskCh' = Append(taskCh, t) /\ UNCHANGED <<wpc, wtask>>
  BY <1>1 DEF TypeOK, ChanTypeOK, WorkerTypeOK
<1>2. ASSUME NEW w \in Workers,
             wpc' = [wpc EXCEPT ![w] = "check"], wtask' = [wtask EXCEPT ![w] = t],
             UNCHANGED taskCh
      PROVE  /\ taskCh' \in Seq(Task)
             /\ wpc' \in [Workers -> WorkerPCs]
             /\ wtask' \in [Workers -> Task \cup {NoTask}]
  BY <1>2 DEF TypeOK, ChanTypeOK, WorkerTypeOK, WorkerPCs
<1> QED BY <1>1, <1>2 DEF Send

\* Occurrences in a sequence can be counted.
LEMMA CountType ==
    ASSUME NEW q \in Seq(URLs), NEW u
    PROVE  Cardinality({i \in DOMAIN q : q[i] = u}) \in Nat
<1>1. Len(q) \in Nat /\ DOMAIN q = 1..Len(q)
  OBVIOUS
<1>2. IsFiniteSet(DOMAIN q)
  BY <1>1, FS_Interval
<1>3. IsFiniteSet({i \in DOMAIN q : q[i] = u})
  BY <1>2, FS_Subset
<1> QED BY <1>3, FS_CardinalityType

\* Begin cuts the initial queue in two.
LEMMA BeginType ==
    ASSUME NEW vis \in SUBSET URLs, NEW q \in Seq(Task), Begin(vis, q)
    PROVE  /\ CoordTypeOK' /\ ChanTypeOK'
           /\ wpc' \in [Workers -> WorkerPCs] /\ wtask' \in [Workers -> Task \cup {NoTask}]
           /\ ipc' = "select" /\ flushFor' = "none" /\ pending' \in Seq(URLs)
           /\ inFlight' = Len(taskCh') /\ discoveredCh' = <<>>
<1> DEFINE e == IF Len(q) < QueueSize THEN Len(q) ELSE QueueSize
<1>1. Len(q) \in Nat /\ QueueSize \in Nat /\ e \in 0..Len(q)
  BY CrawlerAssumption
<1>2. /\ pc' = "top" /\ visited' = vis /\ newVisited' = {} /\ batch' = <<>> /\ newTasks' = <<>>
      /\ taskCh' = SubSeq(q, 1, e) /\ overflow' = SubSeq(q, e + 1, Len(q)) /\ inFlight' = e
      /\ taskChClosed' = FALSE /\ discoveredCh' = <<>> /\ resultsCh' = <<>>
      /\ wpc' = [w \in Workers |-> "recv"] /\ wtask' = [w \in Workers |-> NoTask]
      /\ ipc' = "select" /\ flushFor' = "none" /\ pending' = <<>>
  BY DEF Begin
<1> HIDE DEF e
<1>3. SubSeq(q, 1, e) \in Seq(Task) /\ Len(SubSeq(q, 1, e)) = e
  BY <1>1, SubSeqProperties
<1>4. SubSeq(q, e + 1, Len(q)) \in Seq(Task)
  BY <1>1, SubSeqProperties
<1>5. CoordTypeOK'
  BY <1>1, <1>2, <1>4, EmptySeq DEF CoordTypeOK, StartPCs
<1>6. ChanTypeOK'
  BY <1>2, <1>3, EmptySeq DEF ChanTypeOK
<1>7. wpc' \in [Workers -> WorkerPCs] /\ wtask' \in [Workers -> Task \cup {NoTask}]
  BY <1>2 DEF WorkerPCs
<1> QED BY <1>2, <1>3, <1>5, <1>6, <1>7, EmptySeq

\* While an answer waits in discoveredCh the counter is not zero.
LEMMA AnswerCounted ==
    ASSUME CountInv, discoveredCh # <<>>
    PROVE  /\ inFlight - 1 \in Nat
           /\ Head(discoveredCh) \in Seq(Task) /\ Tail(discoveredCh) \in Seq(Seq(Task))
<1>1. discoveredCh \in Seq(Seq(Task)) /\ taskCh \in Seq(Task) /\ inFlight \in Nat
  BY DEF CountInv, TypeOK, ChanTypeOK, CoordTypeOK
<1>2. Len(discoveredCh) \in Nat \ {0} /\ Len(taskCh) \in Nat
  BY <1>1
<1>3. inFlight - 1 \in Nat
  BY <1>1, <1>2, BusyNat DEF CountInv, InFlightExact
<1> QED BY <1>1, <1>3

\* The steps of Start and coordinatorLoop keep the types, ...
LEMMA TypeStart == CountInv /\ StartStep => TypeOK'
<1> SUFFICES ASSUME CountInv, StartStep PROVE TypeOK'
  OBVIOUS
<1> USE DEF CountInv, coordVars, chanVars, workerVars, indexVars, dbVars
<1>1. CASE Start
  <2>1. Begin(SeedSet, SeedQueue) /\ SeedSet \in SUBSET URLs
    BY <1>1, CrawlerAssumption DEF Start, SeedSet, Range
  <2>2. /\ CoordTypeOK' /\ ChanTypeOK'
        /\ wpc' \in [Workers -> WorkerPCs] /\ wtask' \in [Workers -> Task \cup {NoTask}]
        /\ ipc' = "select" /\ flushFor' = "none" /\ pending' \in Seq(URLs)
    BY <2>1, SeedQueueType, BeginType
  <2>3. WorkerTypeOK' /\ IndexTypeOK'
    BY <1>1, <2>2 DEF Start, TypeOK, WorkerTypeOK, IndexTypeOK
  <2>4. (metrics \in Metrics)'
    <3>1. /\ Len(SeedQueue) \in Nat /\ NumWorkers \in Nat
          /\ metrics.PagesQueued + Len(SeedQueue) \in Nat
      BY SeedQueueType, NumWorkersType, MetricsFields, CrawlerAssumption DEF TypeOK
    <3> QED BY <1>1, <3>1 DEF Start, TypeOK, Metrics
  <2>5. (DbTypeOK /\ cancelled \in BOOLEAN)'
    BY <1>1 DEF Start, TypeOK, DbTypeOK
  <2> QED BY <2>2, <2>3, <2>4, <2>5 DEF TypeOK
<1>2. CASE LoopExit
  <2>1. CoordTypeOK'
    BY <1>2 DEF LoopExit, TypeOK, CoordTypeOK, StartPCs
  <2>2. (ChanTypeOK /\ WorkerTypeOK /\ IndexTypeOK /\ DbTypeOK /\ metrics \in Metrics /\ cancelled \in BOOLEAN)'
    BY <1>2 DEF LoopExit, TypeOK, ChanTypeOK, WorkerTypeOK, IndexTypeOK, DbTypeOK
  <2> QED BY <2>1, <2>2 DEF TypeOK
<1>3. CASE LoopLimit
  <2>1. CoordTypeOK'
    BY <1>3 DEF LoopLimit, TypeOK, CoordTypeOK, StartPCs
  <2>2. (ChanTypeOK /\ WorkerTypeOK /\ IndexTypeOK /\ DbTypeOK /\ metrics \in Metrics /\ cancelled \in BOOLEAN)'
    BY <1>3 DEF LoopLimit, TypeOK, ChanTypeOK, WorkerTypeOK, IndexTypeOK, DbTypeOK
  <2> QED BY <2>1, <2>2 DEF TypeOK
<1>4. CASE LoopSelect
  <2>1. CoordTypeOK'
    BY <1>4 DEF LoopSelect, TypeOK, CoordTypeOK, StartPCs
  <2>2. (ChanTypeOK /\ WorkerTypeOK /\ IndexTypeOK /\ DbTypeOK /\ metrics \in Metrics /\ cancelled \in BOOLEAN)'
    BY <1>4 DEF LoopSelect, TypeOK, ChanTypeOK, WorkerTypeOK, IndexTypeOK, DbTypeOK
  <2> QED BY <2>1, <2>2 DEF TypeOK
<1>5. CASE DedupSkip
  <2>1. CoordTypeOK'
    BY <1>5 DEF DedupSkip, TypeOK, CoordTypeOK, StartPCs
  <2>2. (ChanTypeOK /\ WorkerTypeOK /\ IndexTypeOK /\ DbTypeOK /\ metrics \in Metrics /\ cancelled \in BOOLEAN)'
    BY <1>5 DEF DedupSkip, TypeOK, ChanTypeOK, WorkerTypeOK, IndexTypeOK, DbTypeOK
  <2> QED BY <2>1, <2>2 DEF TypeOK
<1>6. CASE DedupBreak
  <2>1. CoordTypeOK'
    BY <1>6 DEF DedupBreak, TypeOK, CoordTypeOK, StartPCs
  <2>2. (ChanTypeOK /\ WorkerTypeOK /\ IndexTypeOK /\ DbTypeOK /\ metrics \in Metrics /\ cancelled \in BOOLEAN)'
    BY <1>6 DEF DedupBreak, TypeOK, ChanTypeOK, WorkerTypeOK, IndexTypeOK, DbTypeOK
  <2> QED BY <2>1, <2>2 DEF TypeOK
<1>7. CASE DedupMark
  <2>1. CoordTypeOK'
    <3>1. batch \in Seq(Task) /\ batch # <<>>
      BY <1>7 DEF DedupMark, TypeOK, CoordTypeOK
    <3>2. Head(batch) \in Task /\ Tail(batch) \in Seq(Task)
      BY <3>1
    <3>3. Head(batch).url \in URLs
      BY <3>2 DEF Task
    <3> QED BY <1>7, <3>2, <3>3 DEF DedupMark, TypeOK, CoordTypeOK, StartPCs
  <2>2. (metrics \in Metrics)'
    BY <1>7, MetricsFields DEF DedupMark, TypeOK, Metrics
  <2>3. (ChanTypeOK /\ WorkerTypeOK /\ IndexTypeOK /\ DbTypeOK /\ cancelled \in BOOLEAN)'
    BY <1>7 DEF DedupMark, TypeOK, ChanTypeOK, WorkerTypeOK, IndexTypeOK, DbTypeOK
  <2> QED BY <2>1, <2>2, <2>3 DEF TypeOK
<1>8. CASE AppendNew
  <2>1. CoordTypeOK'
    BY <1>8 DEF AppendNew, TypeOK, CoordTypeOK, StartPCs
  <2>2. (metrics \in Metrics)'
    <3>1. overflow \o newTasks \in Seq(Task) /\ inFlight \in Nat
      BY DEF TypeOK, CoordTypeOK
    <3> QED BY <1>8, <3>1, QueueMetricsType DEF AppendNew, TypeOK
  <2>3. (ChanTypeOK /\ WorkerTypeOK /\ IndexTypeOK /\ DbTypeOK /\ cancelled \in BOOLEAN)'
    BY <1>8 DEF AppendNew, TypeOK, ChanTypeOK, WorkerTypeOK, IndexTypeOK, DbTypeOK
  <2> QED BY <2>1, <2>2, <2>3 DEF TypeOK
<1>9. CASE BeginEnqueue
  <2>1. CoordTypeOK'
    BY <1>9 DEF BeginEnqueue, TypeOK, CoordTypeOK, StartPCs
  <2>2. (ChanTypeOK /\ WorkerTypeOK /\ IndexTypeOK /\ DbTypeOK /\ metrics \in Metrics /\ cancelled \in BOOLEAN)'
    BY <1>9 DEF BeginEnqueue, TypeOK, ChanTypeOK, WorkerTypeOK, IndexTypeOK, DbTypeOK
  <2> QED BY <2>1, <2>2 DEF TypeOK
<1>10. CASE EnqueueSend
  <2>1. CoordTypeOK'
    BY <1>10 DEF EnqueueSend, TypeOK, CoordTypeOK, StartPCs
  <2>2. ChanTypeOK'
    BY <1>10, SendType DEF EnqueueSend, TypeOK, ChanTypeOK, CoordTypeOK
  <2>3. WorkerTypeOK'
    BY <1>10, SendType DEF EnqueueSend, TypeOK, WorkerTypeOK, CoordTypeOK
  <2>4. (IndexTypeOK /\ DbTypeOK /\ metrics \in Metrics /\ cancelled \in BOOLEAN)'
    BY <1>10 DEF EnqueueSend, TypeOK, IndexTypeOK, DbTypeOK
  <2> QED BY <2>1, <2>2, <2>3, <2>4 DEF TypeOK
<1>11. CASE EnqueueOverflow
  <2>1. CoordTypeOK'
    BY <1>11 DEF EnqueueOverflow, TypeOK, CoordTypeOK, StartPCs
  <2>2. (ChanTypeOK /\ WorkerTypeOK /\ IndexTypeOK /\ DbTypeOK /\ metrics \in Metrics /\ cancelled \in BOOLEAN)'
    BY <1>11 DEF EnqueueOverflow, TypeOK, ChanTypeOK, WorkerTypeOK, IndexTypeOK, DbTypeOK
  <2> QED BY <2>1, <2>2 DEF TypeOK
<1>12. CASE EnqueueDone
  <2>1. CoordTypeOK'
    BY <1>12 DEF EnqueueDone, TypeOK, CoordTypeOK, StartPCs
  <2>2. (metrics \in Metrics)'
    BY <1>12, QueueMetricsType DEF EnqueueDone, TypeOK, CoordTypeOK
  <2>3. (ChanTypeOK /\ WorkerTypeOK /\ IndexTypeOK /\ DbTypeOK /\ cancelled \in BOOLEAN)'
    BY <1>12 DEF EnqueueDone, TypeOK, ChanTypeOK, WorkerTypeOK, IndexTypeOK, DbTypeOK
  <2> QED BY <2>1, <2>2, <2>3 DEF TypeOK
<1>13. CASE DrainRecv
  <2>1. CoordTypeOK'
    BY <1>13, AnswerCounted DEF DrainRecv, TypeOK, CoordTypeOK, StartPCs
  <2>2. ChanTypeOK'
    BY <1>13, AnswerCounted DEF DrainRecv, TypeOK, ChanTypeOK
  <2>3. (WorkerTypeOK /\ IndexTypeOK /\ DbTypeOK /\ metrics \in Metrics /\ cancelled \in BOOLEAN)'
    BY <1>13 DEF DrainRecv, TypeOK, WorkerTypeOK, IndexTypeOK, DbTypeOK
  <2> QED BY <2>1, <2>2, <2>3 DEF TypeOK
<1>14. CASE SaveQueue
  <2>1. CoordTypeOK'
    BY <1>14 DEF SaveQueue, TypeOK, CoordTypeOK, StartPCs
  <2>2. DbTypeOK'
    BY <1>14 DEF SaveQueue, TypeOK, DbTypeOK, CoordTypeOK, SaveSessionQueuedTasks, Tx
  <2>3. (ChanTypeOK /\ WorkerTypeOK /\ IndexTypeOK /\ metrics \in Metrics /\ cancelled \in BOOLEAN)'
    BY <1>14 DEF SaveQueue, TypeOK, ChanTypeOK, WorkerTypeOK, IndexTypeOK
  <2> QED BY <2>1, <2>2, <2>3 DEF TypeOK
<1>15. CASE SaveVisited
  <2>1. CoordTypeOK'
    BY <1>15 DEF SaveVisited, TypeOK, CoordTypeOK, StartPCs, flushVisited
  <2>2. DbTypeOK'
    BY <1>15 DEF SaveVisited, TypeOK, DbTypeOK, CoordTypeOK, Tx, flushVisited, AddSessionVisitedURLs
  <2>3. (ChanTypeOK /\ WorkerTypeOK /\ IndexTypeOK /\ metrics \in Metrics /\ cancelled \in BOOLEAN)'
    BY <1>15 DEF SaveVisited, TypeOK, ChanTypeOK, WorkerTypeOK, IndexTypeOK
  <2> QED BY <2>1, <2>2, <2>3 DEF TypeOK
<1>16. CASE FinishFlush
  <2>1. CoordTypeOK'
    BY <1>16 DEF FinishFlush, TypeOK, CoordTypeOK, StartPCs, flushVisited
  <2>2. DbTypeOK'
    BY <1>16 DEF FinishFlush, TypeOK, DbTypeOK, CoordTypeOK, Tx, flushVisited, AddSessionVisitedURLs
  <2>3. (ChanTypeOK /\ WorkerTypeOK /\ IndexTypeOK /\ metrics \in Metrics /\ cancelled \in BOOLEAN)'
    BY <1>16 DEF FinishFlush, TypeOK, ChanTypeOK, WorkerTypeOK, IndexTypeOK
  <2> QED BY <2>1, <2>2, <2>3 DEF TypeOK
<1>17. CASE FinishClear
  <2>1. CoordTypeOK'
    BY <1>17 DEF FinishClear, TypeOK, CoordTypeOK, StartPCs
  <2>2. ChanTypeOK'
    BY <1>17 DEF FinishClear, TypeOK, ChanTypeOK
  <2>3. DbTypeOK'
    BY <1>17, EmptySeq DEF FinishClear, TypeOK, DbTypeOK, SaveSessionQueuedTasks, Tx
  <2>4. (WorkerTypeOK /\ IndexTypeOK /\ metrics \in Metrics /\ cancelled \in BOOLEAN)'
    BY <1>17 DEF FinishClear, TypeOK, WorkerTypeOK, IndexTypeOK
  <2> QED BY <2>1, <2>2, <2>3, <2>4 DEF TypeOK
<1>18. CASE CloseResults
  <2>1. CoordTypeOK'
    BY <1>18 DEF CloseResults, TypeOK, CoordTypeOK, StartPCs
  <2>2. (ChanTypeOK /\ WorkerTypeOK /\ IndexTypeOK /\ DbTypeOK /\ metrics \in Metrics /\ cancelled \in BOOLEAN)'
    BY <1>18 DEF CloseResults, TypeOK, ChanTypeOK, WorkerTypeOK, IndexTypeOK, DbTypeOK
  <2> QED BY <2>1, <2>2 DEF TypeOK
<1>19. CASE Finish
  <2>1. CoordTypeOK'
    BY <1>19 DEF Finish, TypeOK, CoordTypeOK, StartPCs
  <2>2. (metrics \in Metrics)'
    BY <1>19 DEF Finish, TypeOK, Metrics, StopReasonNow
  <2>3. (ChanTypeOK /\ WorkerTypeOK /\ IndexTypeOK /\ DbTypeOK /\ cancelled \in BOOLEAN)'
    BY <1>19 DEF Finish, TypeOK, ChanTypeOK, WorkerTypeOK, IndexTypeOK, DbTypeOK
  <2> QED BY <2>1, <2>2, <2>3 DEF TypeOK
<1> QED BY <1>1, <1>2, <1>3, <1>4, <1>5, <1>6, <1>7, <1>8, <1>9,
        <1>10, <1>11, <1>12, <1>13, <1>14, <1>15, <1>16, <1>17, <1>18, <1>19 DEF StartStep

\* ... so do the cases of the selects, ...
LEMMA TypeSelect == CountInv /\ SelectStep => TypeOK'
<1> SUFFICES ASSUME CountInv, SelectStep PROVE TypeOK'
  OBVIOUS
<1> USE DEF CountInv, coordVars, chanVars, workerVars, indexVars, dbVars
<1>1. CASE LimitRecv
  <2>1. CoordTypeOK'
    BY <1>1, AnswerCounted DEF LimitRecv, TypeOK, CoordTypeOK, StartPCs
  <2>2. ChanTypeOK'
    BY <1>1, AnswerCounted DEF LimitRecv, TypeOK, ChanTypeOK
  <2>3. (metrics \in Metrics)'
    BY <1>1, AnswerCounted, QueueMetricsType DEF LimitRecv, TypeOK, CoordTypeOK
  <2>4. (WorkerTypeOK /\ IndexTypeOK /\ DbTypeOK /\ cancelled \in BOOLEAN)'
    BY <1>1 DEF LimitRecv, TypeOK, WorkerTypeOK, IndexTypeOK, DbTypeOK
  <2> QED BY <2>1, <2>2, <2>3, <2>4 DEF TypeOK
<1>2. CASE SendOverflow
  <2>1. CoordTypeOK'
    BY <1>2 DEF SendOverflow, TypeOK, CoordTypeOK, StartPCs, OverflowAtSelect
  <2>2. ChanTypeOK'
    BY <1>2, SendType DEF SendOverflow, TypeOK, ChanTypeOK, CoordTypeOK, OverflowAtSelect
  <2>3. WorkerTypeOK'
    BY <1>2, SendType DEF SendOverflow, TypeOK, WorkerTypeOK, CoordTypeOK, OverflowAtSelect
  <2>4. (metrics \in Metrics)'
    <3>1. Tail(overflow) \in Seq(Task) /\ inFlight + 1 \in Nat
      BY <1>2 DEF SendOverflow, OverflowAtSelect, TypeOK, CoordTypeOK
    <3> QED BY <1>2, <3>1, QueueMetricsType DEF SendOverflow, TypeOK
  <2>5. (IndexTypeOK /\ DbTypeOK /\ cancelled \in BOOLEAN)'
    BY <1>2 DEF SendOverflow, TypeOK, IndexTypeOK, DbTypeOK
  <2> QED BY <2>1, <2>2, <2>3, <2>4, <2>5 DEF TypeOK
<1>3. CASE RecvBatch
  <2>1. CoordTypeOK'
    BY <1>3, AnswerCounted DEF RecvBatch, TypeOK, CoordTypeOK, StartPCs
  <2>2. ChanTypeOK'
    BY <1>3, AnswerCounted DEF RecvBatch, TypeOK, ChanTypeOK
  <2>3. (WorkerTypeOK /\ IndexTypeOK /\ DbTypeOK /\ metrics \in Metrics /\ cancelled \in BOOLEAN)'
    BY <1>3 DEF RecvBatch, TypeOK, WorkerTypeOK, IndexTypeOK, DbTypeOK
  <2> QED BY <2>1, <2>2, <2>3 DEF TypeOK
<1>4. CASE PersistTick
  <2>1. CoordTypeOK'
    BY <1>4 DEF PersistTick, TypeOK, CoordTypeOK, StartPCs, flushVisited
  <2>2. DbTypeOK'
    BY <1>4 DEF PersistTick, TypeOK, DbTypeOK, CoordTypeOK, Tx, flushVisited, AddSessionVisitedURLs
  <2>3. (ChanTypeOK /\ WorkerTypeOK /\ IndexTypeOK /\ metrics \in Metrics /\ cancelled \in BOOLEAN)'
    BY <1>4 DEF PersistTick, TypeOK, ChanTypeOK, WorkerTypeOK, IndexTypeOK
  <2> QED BY <2>1, <2>2, <2>3 DEF TypeOK
<1>5. CASE CtxDone
  <2>1. CoordTypeOK'
    BY <1>5 DEF CtxDone, TypeOK, CoordTypeOK, StartPCs
  <2>2. ChanTypeOK'
    BY <1>5 DEF CtxDone, TypeOK, ChanTypeOK
  <2>3. (WorkerTypeOK /\ IndexTypeOK /\ DbTypeOK /\ metrics \in Metrics /\ cancelled \in BOOLEAN)'
    BY <1>5 DEF CtxDone, TypeOK, WorkerTypeOK, IndexTypeOK, DbTypeOK
  <2> QED BY <2>1, <2>2, <2>3 DEF TypeOK
<1> QED BY <1>1, <1>2, <1>3, <1>4, <1>5 DEF SelectStep

\* ... the workers ...
LEMMA TypeWorker == CountInv /\ (\E w \in Workers : WorkerStep(w)) => TypeOK'
<1> SUFFICES ASSUME CountInv, NEW w \in Workers, WorkerStep(w) PROVE TypeOK'
  OBVIOUS
<1> USE DEF CountInv, coordVars, chanVars, workerVars, indexVars, dbVars
<1>0. w \in Busy => wtask[w] \in Task /\ wtask[w].url \in URLs /\ wtask[w].depth \in Nat
  BY DEF HeldTasks, Task
<1>1. CASE WorkerRecv(w)
  <2>1. ChanTypeOK'
    BY <1>1 DEF WorkerRecv, TypeOK, ChanTypeOK
  <2>2. WorkerTypeOK'
    BY <1>1 DEF WorkerRecv, TypeOK, WorkerTypeOK, ChanTypeOK, WorkerPCs
  <2>3. (CoordTypeOK /\ IndexTypeOK /\ DbTypeOK /\ metrics \in Metrics /\ cancelled \in BOOLEAN)'
    BY <1>1 DEF WorkerRecv, TypeOK, CoordTypeOK, IndexTypeOK, DbTypeOK
  <2> QED BY <2>1, <2>2, <2>3 DEF TypeOK
<1>2. CASE WorkerExit(w)
  <2>1. WorkerTypeOK'
    BY <1>2 DEF WorkerExit, TypeOK, WorkerTypeOK, WorkerPCs
  <2>2. (CoordTypeOK /\ ChanTypeOK /\ IndexTypeOK /\ DbTypeOK /\ metrics \in Metrics /\ cancelled \in BOOLEAN)'
    BY <1>2 DEF WorkerExit, TypeOK, CoordTypeOK, ChanTypeOK, IndexTypeOK, DbTypeOK
  <2> QED BY <2>1, <2>2 DEF TypeOK
<1>3. CASE WorkerGiveBack(w)
  <2>1. WorkerTypeOK'
    BY <1>3 DEF WorkerGiveBack, TypeOK, WorkerTypeOK, WorkerPCs
  <2>2. (CoordTypeOK /\ ChanTypeOK /\ IndexTypeOK /\ DbTypeOK /\ metrics \in Metrics /\ cancelled \in BOOLEAN)'
    BY <1>3 DEF WorkerGiveBack, TypeOK, CoordTypeOK, ChanTypeOK, IndexTypeOK, DbTypeOK
  <2> QED BY <2>1, <2>2 DEF TypeOK
<1>4. CASE WorkerFetch(w)
  <2>1. WorkerTypeOK'
    <3>1. wtask[w].url \in URLs /\ wtask[w].depth \in Nat
      BY <1>0, <1>4 DEF WorkerFetch, Busy
    <3>2. Append(fetched[wtask[w].url], wtask[w].depth) \in Seq(Nat)
      BY <3>1 DEF TypeOK, WorkerTypeOK
    <3> QED BY <1>4, <3>1, <3>2 DEF WorkerFetch, TypeOK, WorkerTypeOK, WorkerPCs
  <2>2. (CoordTypeOK /\ ChanTypeOK /\ IndexTypeOK /\ DbTypeOK /\ metrics \in Metrics /\ cancelled \in BOOLEAN)'
    BY <1>4 DEF WorkerFetch, TypeOK, CoordTypeOK, ChanTypeOK, IndexTypeOK, DbTypeOK
  <2> QED BY <2>1, <2>2 DEF TypeOK
<1>5. CASE WorkerResult(w)
  <2>1. ChanTypeOK'
    <3>1. \A ok \in BOOLEAN : [url |-> wtask[w].url, ok |-> ok] \in Record
      BY <1>0, <1>5 DEF WorkerResult, Busy, Record
    <3>2. FetchOutcomes(wtask[w].url) \subseteq BOOLEAN
      BY DEF FetchOutcomes
    <3> QED BY <1>5, <3>1, <3>2 DEF WorkerResult, TypeOK, ChanTypeOK
  <2>2. WorkerTypeOK'
    BY <1>5 DEF WorkerResult, TypeOK, WorkerTypeOK, WorkerPCs
  <2>3. (CoordTypeOK /\ IndexTypeOK /\ DbTypeOK /\ metrics \in Metrics /\ cancelled \in BOOLEAN)'
    BY <1>5 DEF WorkerResult, TypeOK, CoordTypeOK, IndexTypeOK, DbTypeOK
  <2> QED BY <2>1, <2>2, <2>3 DEF TypeOK
<1>6. CASE WorkerAnswer(w)
  <2>1. ChanTypeOK'
    <3>1. wtask[w] \in Task
      BY <1>0, <1>6 DEF WorkerAnswer, Busy
    <3>2. Answer(w) \in Seq(Task)
      BY <3>1, LinkTasksType, EmptySeq DEF Answer
    <3> QED BY <1>6, <3>2 DEF WorkerAnswer, TypeOK, ChanTypeOK
  <2>2. WorkerTypeOK'
    BY <1>6 DEF WorkerAnswer, TypeOK, WorkerTypeOK, WorkerPCs
  <2>3. (CoordTypeOK /\ IndexTypeOK /\ DbTypeOK /\ metrics \in Metrics /\ cancelled \in BOOLEAN)'
    BY <1>6 DEF WorkerAnswer, TypeOK, CoordTypeOK, IndexTypeOK, DbTypeOK
  <2> QED BY <2>1, <2>2, <2>3 DEF TypeOK
<1> QED BY <1>1, <1>2, <1>3, <1>4, <1>5, <1>6 DEF WorkerStep

\* ... and the indexer.
LEMMA TypeIndexer == CountInv /\ IndexerStep => TypeOK'
<1> SUFFICES ASSUME CountInv, IndexerStep PROVE TypeOK'
  OBVIOUS
<1> USE DEF CountInv, coordVars, chanVars, workerVars, indexVars, dbVars
<1>1. CASE IndexError
  <2>1. ChanTypeOK'
    BY <1>1 DEF IndexError, TypeOK, ChanTypeOK
  <2>2. (metrics \in Metrics)'
    BY <1>1, MetricsFields DEF IndexError, TypeOK, Metrics
  <2>3. (CoordTypeOK /\ WorkerTypeOK /\ IndexTypeOK /\ DbTypeOK /\ cancelled \in BOOLEAN)'
    BY <1>1 DEF IndexError, TypeOK, CoordTypeOK, WorkerTypeOK, IndexTypeOK, DbTypeOK
  <2> QED BY <2>1, <2>2, <2>3 DEF TypeOK
<1>2. CASE IndexPage
  <2>1. ChanTypeOK'
    BY <1>2 DEF IndexPage, TypeOK, ChanTypeOK
  <2>2. IndexTypeOK'
    <3>1. resultsCh \in Seq(Record) /\ resultsCh # <<>>
      BY <1>2 DEF IndexPage, TypeOK, ChanTypeOK
    <3>2. Head(resultsCh) \in Record
      BY <3>1
    <3>3. Head(resultsCh).url \in URLs
      BY <3>2 DEF Record
    <3> QED BY <1>2, <3>3 DEF IndexPage, TypeOK, IndexTypeOK
  <2>3. (metrics \in Metrics)'
    BY <1>2, MetricsFields DEF IndexPage, TypeOK, Metrics
  <2>4. (CoordTypeOK /\ WorkerTypeOK /\ DbTypeOK /\ cancelled \in BOOLEAN)'
    BY <1>2 DEF IndexPage, TypeOK, CoordTypeOK, WorkerTypeOK, DbTypeOK
  <2> QED BY <2>1, <2>2, <2>3, <2>4 DEF TypeOK
<1>3. CASE IndexTick
  <2>1. IndexTypeOK'
    BY <1>3 DEF IndexTick, TypeOK, IndexTypeOK
  <2>2. (CoordTypeOK /\ ChanTypeOK /\ WorkerTypeOK /\ DbTypeOK /\ metrics \in Metrics /\ cancelled \in BOOLEAN)'
    BY <1>3 DEF IndexTick, TypeOK, CoordTypeOK, ChanTypeOK, WorkerTypeOK, DbTypeOK
  <2> QED BY <2>1, <2>2 DEF TypeOK
<1>4. CASE IndexClosed
  <2>1. IndexTypeOK'
    BY <1>4 DEF IndexClosed, TypeOK, IndexTypeOK
  <2>2. (CoordTypeOK /\ ChanTypeOK /\ WorkerTypeOK /\ DbTypeOK /\ metrics \in Metrics /\ cancelled \in BOOLEAN)'
    BY <1>4 DEF IndexClosed, TypeOK, CoordTypeOK, ChanTypeOK, WorkerTypeOK, DbTypeOK
  <2> QED BY <2>1, <2>2 DEF TypeOK
<1>5. CASE IndexSave
  <2>1. IndexTypeOK'
    <3>1. Range(pending) \subseteq URLs
      BY DEF TypeOK, IndexTypeOK, Range
    <3> QED BY <1>5, <3>1 DEF IndexSave, TypeOK, IndexTypeOK, SavePostingsBatch, Tx
  <2>2. (CoordTypeOK /\ ChanTypeOK /\ WorkerTypeOK /\ DbTypeOK /\ metrics \in Metrics /\ cancelled \in BOOLEAN)'
    BY <1>5 DEF IndexSave, TypeOK, CoordTypeOK, ChanTypeOK, WorkerTypeOK, DbTypeOK
  <2> QED BY <2>1, <2>2 DEF TypeOK
<1>6. CASE IndexAppend
  <2>1. IndexTypeOK'
    <3>1. \A u \in URLs :
              pdata[u] + Cardinality({i \in DOMAIN pending : pending[i] = u}) \in Nat
      <4>1. pending \in Seq(URLs) /\ pdata \in [URLs -> Nat]
        BY DEF TypeOK, IndexTypeOK
      <4> HIDE DEF CountInv
      <4> SUFFICES ASSUME NEW u \in URLs
                   PROVE  pdata[u] + Cardinality({i \in DOMAIN pending : pending[i] = u}) \in Nat
        OBVIOUS
      <4>2. Cardinality({i \in DOMAIN pending : pending[i] = u}) \in Nat
        BY <4>1, CountType
      <4> QED BY <4>1, <4>2
    <3> QED BY <1>6, <3>1, EmptySeq DEF IndexAppend, TypeOK, IndexTypeOK, AppendPostingsToFile, Tx
  <2>2. (metrics \in Metrics)'
    <3>1. metrics.PagesProcessed + (IF flushFor = "batch" THEN 1 ELSE 0) \in Nat
      BY MetricsFields DEF TypeOK
    <3> QED BY <1>6, <3>1 DEF IndexAppend, TypeOK, Metrics
  <2>3. (CoordTypeOK /\ ChanTypeOK /\ WorkerTypeOK /\ DbTypeOK /\ cancelled \in BOOLEAN)'
    BY <1>6 DEF IndexAppend, TypeOK, CoordTypeOK, ChanTypeOK, WorkerTypeOK, DbTypeOK
  <2> QED BY <2>1, <2>2, <2>3 DEF TypeOK
<1> QED BY <1>1, <1>2, <1>3, <1>4, <1>5, <1>6 DEF IndexerStep

\* A send puts one more task into taskCh or into the hands of a worker.
LEMMA SendCount ==
    ASSUME CountInv, NEW t \in Task, Send(t)
    PROVE  /\ Len(taskCh') + Cardinality(Busy') = Len(taskCh) + Cardinality(Busy) + 1
           /\ HeldTasks'
<1>1. CASE taskCh' = Append(taskCh, t) /\ UNCHANGED <<wpc, wtask>>
  <2>1. Busy' = Busy
    BY <1>1 DEF Busy
  <2>2. taskCh \in Seq(Task)
    BY DEF CountInv, TypeOK, ChanTypeOK
  <2>3. Len(taskCh') = Len(taskCh) + 1
    BY <1>1, <2>2
  <2> QED BY <1>1, <2>1, <2>2, <2>3, BusyNat DEF CountInv, HeldTasks
<1>2. ASSUME NEW w \in Workers, wpc[w] = "recv",
             wpc' = [wpc EXCEPT ![w] = "check"], wtask' = [wtask EXCEPT ![w] = t],
             UNCHANGED taskCh
      PROVE  /\ Len(taskCh') + Cardinality(Busy') = Len(taskCh) + Cardinality(Busy) + 1
             /\ HeldTasks'
  <2>1. w \notin Busy
    BY <1>2 DEF Busy
  <2>2. Cardinality(Busy') = Cardinality(Busy) + 1
    BY <1>2, <2>1, BusyJoin DEF CountInv
  <2>3. Len(taskCh) \in Nat
    BY DEF CountInv, TypeOK, ChanTypeOK
  <2>4. HeldTasks'
    BY <1>2 DEF CountInv, TypeOK, WorkerTypeOK, HeldTasks, Busy
  <2> QED BY <1>2, <2>2, <2>3, <2>4, BusyNat
<1> QED BY <1>1, <1>2 DEF Send

\* Steps that leave the tasks where they are keep the count.
LEMMA CountFrame ==
    ASSUME CountInv, UNCHANGED <<inFlight, taskCh, discoveredCh, wpc, wtask>>
    PROVE  InFlightExact' /\ HeldTasks'
<1>1. Busy' = Busy
  BY DEF Busy
<1> QED BY <1>1 DEF CountInv, InFlightExact, HeldTasks

\* Taking an answer and decrementing inFlight keeps it.
LEMMA ReceiveCount ==
    ASSUME CountInv, discoveredCh # <<>>, discoveredCh' = Tail(discoveredCh),
           inFlight' = inFlight - 1, UNCHANGED <<taskCh, wpc, wtask>>
    PROVE  InFlightExact' /\ HeldTasks'
<1>1. Busy' = Busy
  BY DEF Busy
<1>2. /\ discoveredCh \in Seq(Seq(Task)) /\ taskCh \in Seq(Task) /\ inFlight \in Nat
      /\ inFlight = Len(taskCh) + Cardinality(Busy) + Len(discoveredCh)
  BY DEF CountInv, TypeOK, ChanTypeOK, CoordTypeOK, InFlightExact
<1>3. Len(Tail(discoveredCh)) = Len(discoveredCh) - 1 /\ Len(discoveredCh) \in Nat
  BY <1>2
<1>4. Len(taskCh) \in Nat
  BY <1>2
<1>5. inFlight' = Len(taskCh') + Cardinality(Busy') + Len(discoveredCh')
  BY <1>1, <1>2, <1>3, <1>4, BusyNat
<1> QED BY <1>1, <1>5 DEF CountInv, InFlightExact, HeldTasks

\* Sending a task and incrementing inFlight keeps it.
LEMMA SendAndCount ==
    ASSUME CountInv, NEW t \in Task, Send(t), inFlight' = inFlight + 1,
           UNCHANGED discoveredCh
    PROVE  InFlightExact' /\ HeldTasks'
<1>1. /\ Len(discoveredCh) \in Nat /\ Len(taskCh) \in Nat
      /\ inFlight = Len(taskCh) + Cardinality(Busy) + Len(discoveredCh)
  BY DEF CountInv, TypeOK, ChanTypeOK, InFlightExact
<1>2. taskCh' \in Seq(Task)
  BY SendType DEF CountInv
<1>3. Len(taskCh') \in Nat
  BY <1>2
<1>4. IsFiniteSet(Busy') /\ Cardinality(Busy') \in Nat
  <2>1. IsFiniteSet(Busy')
    BY CrawlerAssumption, FS_Subset DEF Busy
  <2> QED BY <2>1, FS_CardinalityType
<1>5. Len(taskCh') + Cardinality(Busy') = Len(taskCh) + Cardinality(Busy) + 1 /\ HeldTasks'
  BY SendCount
<1> QED BY <1>1, <1>3, <1>4, <1>5, BusyNat DEF InFlightExact

\* The steps of Start and coordinatorLoop keep the count and what goes with it, ...
LEMMA CountStart == CountInv /\ StartStep => InFlightExact' /\ HeldTasks' /\ OverflowAtSelect'
<1> SUFFICES ASSUME CountInv, StartStep
             PROVE  InFlightExact' /\ HeldTasks' /\ OverflowAtSelect'
  OBVIOUS
<1> USE DEF coordVars, chanVars, workerVars, indexVars, dbVars
<1>1. CASE Start
  <2>1. Begin(SeedSet, SeedQueue) /\ SeedSet \in SUBSET URLs
    BY <1>1, CrawlerAssumption DEF Start, SeedSet, Range
  <2>2. inFlight' = Len(taskCh') /\ discoveredCh' = <<>> /\ taskCh' \in Seq(Task)
    BY <2>1, SeedQueueType, BeginType DEF ChanTypeOK
  <2>3. Busy' = {} /\ pc' = "top"
    BY <2>1 DEF Begin, Busy
  <2>4. Cardinality(Busy') = 0 /\ Len(discoveredCh') = 0 /\ Len(taskCh') \in Nat
    BY <2>2, <2>3, FS_EmptySet
  <2>5. InFlightExact'
    BY <2>2, <2>4 DEF InFlightExact
  <2> QED BY <2>3, <2>5 DEF HeldTasks, OverflowAtSelect
<1>2. CASE LoopExit
  BY <1>2, CountFrame DEF LoopExit, OverflowAtSelect
<1>3. CASE LoopLimit
  BY <1>3, CountFrame DEF LoopLimit, OverflowAtSelect
<1>4. CASE LoopSelect
  BY <1>4, CountFrame DEF LoopSelect, OverflowAtSelect
<1>5. CASE DedupSkip
  BY <1>5, CountFrame DEF DedupSkip, OverflowAtSelect
<1>6. CASE DedupBreak
  BY <1>6, CountFrame DEF DedupBreak, OverflowAtSelect
<1>7. CASE DedupMark
  BY <1>7, CountFrame DEF DedupMark, OverflowAtSelect
<1>8. CASE AppendNew
  BY <1>8, CountFrame DEF AppendNew, OverflowAtSelect
<1>9. CASE BeginEnqueue
  BY <1>9, CountFrame DEF BeginEnqueue, OverflowAtSelect
<1>10. CASE EnqueueOverflow
  BY <1>10, CountFrame DEF EnqueueOverflow, OverflowAtSelect
<1>11. CASE EnqueueDone
  BY <1>11, CountFrame DEF EnqueueDone, OverflowAtSelect
<1>12. CASE SaveQueue
  BY <1>12, CountFrame DEF SaveQueue, OverflowAtSelect
<1>13. CASE SaveVisited
  BY <1>13, CountFrame DEF SaveVisited, OverflowAtSelect
<1>14. CASE FinishFlush
  BY <1>14, CountFrame DEF FinishFlush, OverflowAtSelect
<1>15. CASE FinishClear
  BY <1>15, CountFrame DEF FinishClear, OverflowAtSelect
<1>16. CASE CloseResults
  BY <1>16, CountFrame DEF CloseResults, OverflowAtSelect
<1>17. CASE Finish
  BY <1>17, CountFrame DEF Finish, OverflowAtSelect
<1>18. CASE EnqueueSend
  <2>1. newTasks \in Seq(Task) /\ newTasks # <<>>
    BY <1>18 DEF EnqueueSend, CountInv, TypeOK, CoordTypeOK
  <2>2. Head(newTasks) \in Task
    BY <2>1
  <2>3. InFlightExact' /\ HeldTasks'
    BY <1>18, <2>2, SendAndCount DEF EnqueueSend
  <2> QED BY <1>18, <2>3 DEF EnqueueSend, OverflowAtSelect
<1>19. CASE DrainRecv
  BY <1>19, ReceiveCount DEF DrainRecv, OverflowAtSelect
<1> QED BY <1>1, <1>2, <1>3, <1>4, <1>5, <1>6, <1>7, <1>8, <1>9,
        <1>10, <1>11, <1>12, <1>13, <1>14, <1>15, <1>16, <1>17, <1>18, <1>19 DEF StartStep

\* ... so do the cases of the selects, ...
LEMMA CountSelect == CountInv /\ SelectStep => InFlightExact' /\ HeldTasks' /\ OverflowAtSelect'
<1> SUFFICES ASSUME CountInv, SelectStep
             PROVE  InFlightExact' /\ HeldTasks' /\ OverflowAtSelect'
  OBVIOUS
<1> USE DEF coordVars, chanVars, workerVars, indexVars, dbVars
<1>1. CASE LimitRecv
  BY <1>1, ReceiveCount DEF LimitRecv, OverflowAtSelect
<1>2. CASE SendOverflow
  <2>1. overflow \in Seq(Task) /\ overflow # <<>>
    BY <1>2 DEF SendOverflow, CountInv, OverflowAtSelect, TypeOK, CoordTypeOK
  <2>2. Head(overflow) \in Task
    BY <2>1
  <2>3. InFlightExact' /\ HeldTasks'
    BY <1>2, <2>2, SendAndCount DEF SendOverflow
  <2> QED BY <1>2, <2>3 DEF SendOverflow, OverflowAtSelect
<1>3. CASE RecvBatch
  BY <1>3, ReceiveCount DEF RecvBatch, OverflowAtSelect
<1>4. CASE PersistTick
  BY <1>4, CountFrame DEF PersistTick, OverflowAtSelect
<1>5. CASE CtxDone
  BY <1>5, CountFrame DEF CtxDone, OverflowAtSelect
<1> QED BY <1>1, <1>2, <1>3, <1>4, <1>5 DEF SelectStep

\* ... the workers ...
LEMMA CountWorker ==
    CountInv /\ (\E w \in Workers : WorkerStep(w)) => InFlightExact' /\ HeldTasks' /\ OverflowAtSelect'
<1> SUFFICES ASSUME CountInv, NEW w \in Workers, WorkerStep(w)
             PROVE  InFlightExact' /\ HeldTasks' /\ OverflowAtSelect'
  OBVIOUS
<1> USE DEF coordVars, chanVars, workerVars, indexVars, dbVars
<1>1. /\ discoveredCh \in Seq(Seq(Task)) /\ taskCh \in Seq(Task)
      /\ inFlight = Len(taskCh) + Cardinality(Busy) + Len(discoveredCh)
      /\ TypeOK
  BY DEF CountInv, TypeOK, ChanTypeOK, InFlightExact
<1>2. Len(taskCh) \in Nat /\ Len(discoveredCh) \in Nat
  BY <1>1
<1>3. OverflowAtSelect'
  BY DEF WorkerStep, WorkerRecv, WorkerExit, WorkerGiveBack, WorkerFetch, WorkerResult,
         WorkerAnswer, CountInv, OverflowAtSelect
<1>4. CASE WorkerRecv(w)
  <2>1. w \notin Busy /\ taskCh # <<>> /\ taskCh' = Tail(taskCh)
    BY <1>4 DEF WorkerRecv, Busy
  <2>2. Cardinality(Busy') = Cardinality(Busy) + 1
    BY <1>1, <1>4, <2>1, BusyJoin DEF WorkerRecv
  <2>3. Len(taskCh') = Len(taskCh) - 1 /\ Head(taskCh) \in Task
    BY <1>1, <2>1
  <2>4. InFlightExact'
    BY <1>1, <1>2, <1>4, <2>2, <2>3, BusyNat DEF WorkerRecv, InFlightExact
  <2>5. HeldTasks'
    BY <1>1, <1>4, <2>3 DEF WorkerRecv, CountInv, TypeOK, WorkerTypeOK, HeldTasks, Busy
  <2> QED BY <1>3, <2>4, <2>5
<1>5. CASE WorkerExit(w)
  <2>1. Busy' = Busy
    BY <1>1, <1>5 DEF WorkerExit, Busy, TypeOK, WorkerTypeOK
  <2> QED BY <1>3, <1>5, <2>1 DEF WorkerExit, CountInv, InFlightExact, HeldTasks
<1>6. CASE WorkerGiveBack(w)
  <2>1. Busy' = Busy
    BY <1>1, <1>6, BusyStay DEF WorkerGiveBack, Busy
  <2> QED BY <1>3, <1>6, <2>1 DEF WorkerGiveBack, CountInv, InFlightExact, HeldTasks
<1>7. CASE WorkerFetch(w)
  <2>1. Busy' = Busy
    BY <1>1, <1>7, BusyStay DEF WorkerFetch, Busy
  <2> QED BY <1>3, <1>7, <2>1 DEF WorkerFetch, CountInv, InFlightExact, HeldTasks
<1>8. CASE WorkerResult(w)
  <2>1. Busy' = Busy
    BY <1>1, <1>8, BusyStay DEF WorkerResult, Busy
  <2> QED BY <1>3, <1>8, <2>1 DEF WorkerResult, CountInv, InFlightExact, HeldTasks
<1>9. CASE WorkerAnswer(w)
  <2>1. w \in Busy
    BY <1>9 DEF WorkerAnswer, Busy
  <2>2. Cardinality(Busy') = Cardinality(Busy) - 1
    BY <1>1, <1>9, <2>1, BusyLeave DEF WorkerAnswer
  <2>3. Len(discoveredCh') = Len(discoveredCh) + 1
    BY <1>1, <1>9 DEF WorkerAnswer
  <2>4. InFlightExact'
    BY <1>1, <1>2, <1>9, <2>2, <2>3, BusyNat DEF WorkerAnswer, InFlightExact
  <2>5. HeldTasks'
    BY <1>1, <1>9 DEF WorkerAnswer, CountInv, TypeOK, WorkerTypeOK, HeldTasks, Busy
  <2> QED BY <1>3, <2>4, <2>5
<1> QED BY <1>4, <1>5, <1>6, <1>7, <1>8, <1>9 DEF WorkerStep

\* ... and the indexer.
LEMMA CountIndexer == CountInv /\ IndexerStep => InFlightExact' /\ HeldTasks' /\ OverflowAtSelect'
<1> SUFFICES ASSUME CountInv, IndexerStep
             PROVE  InFlightExact' /\ HeldTasks' /\ OverflowAtSelect'
  OBVIOUS
<1>1. UNCHANGED <<pc, overflow, inFlight, taskCh, discoveredCh, wpc, wtask>>
  BY DEF IndexerStep, IndexError, IndexPage, IndexTick, IndexClosed, IndexSave, IndexAppend,
         coordVars, chanVars, workerVars
<1> QED BY <1>1, CountFrame DEF CountInv, OverflowAtSelect

\* Together: the invariant is inductive.
LEMMA CountStep == CountInv /\ [Next]_vars => CountInv'
<1> SUFFICES ASSUME CountInv, [Next]_vars PROVE CountInv'
  OBVIOUS
<1>1. CASE StartStep
  BY <1>1, TypeStart, CountStart DEF CountInv
<1>2. CASE SelectStep
  BY <1>2, TypeSelect, CountSelect DEF CountInv
<1>3. CASE \E w \in Workers : WorkerStep(w)
  BY <1>3, TypeWorker, CountWorker DEF CountInv
<1>4. CASE IndexerStep
  BY <1>4, TypeIndexer, CountIndexer DEF CountInv
<1>5. CASE Cancel \/ UNCHANGED vars
  <2>1. /\ UNCHANGED <<coordVars, chanVars, workerVars, indexVars, dbVars, metrics>>
        /\ cancelled' \in BOOLEAN
    BY <1>5 DEF Cancel, vars, CountInv, TypeOK
  <2>2. TypeOK'
    BY <2>1 DEF CountInv, TypeOK, CoordTypeOK, ChanTypeOK, WorkerTypeOK, IndexTypeOK, DbTypeOK,
                coordVars, chanVars, workerVars, indexVars, dbVars
  <2>3. InFlightExact' /\ HeldTasks' /\ OverflowAtSelect'
    BY <2>1, CountFrame DEF CountInv, OverflowAtSelect, coordVars, chanVars, workerVars
  <2> QED BY <2>2, <2>3 DEF CountInv
<1> QED BY <1>1, <1>2, <1>3, <1>4, <1>5 DEF Next, Terminated

\* Every variable keeps its type in every crawl.
THEOREM TypeCorrect == Spec => []TypeOK
<1>1. CountInv => TypeOK
  BY DEF CountInv
<1> QED BY <1>1, CountInit, CountStep, PTL DEF Spec

\* inFlight is always exactly the number of tasks that are in taskCh, held by
\* a worker, or answered in discoveredCh.
THEOREM InFlightIsExact == Spec => []InFlightExact
<1>1. CountInv => InFlightExact
  BY DEF CountInv
<1> QED BY <1>1, CountInit, CountStep, PTL DEF Spec

-----------------------------------------------------------------------------
(* The end of the crawl *)

EndPCs == {"finish", "clearQueue", "saveVisited", "wait", "resultsClosed", "done"}

\* The coordinator never leaves its loop with tasks in flight.
ZeroAtEnd == pc \in EndPCs => inFlight = 0

\* No step re-opens a task after the loop, or leaves the loop before the last one.
LEMMA ZeroAtEndStep == CountInv /\ ZeroAtEnd /\ [Next]_vars => ZeroAtEnd'
<1> SUFFICES ASSUME CountInv, ZeroAtEnd, [Next]_vars PROVE ZeroAtEnd'
  OBVIOUS
<1> USE DEF ZeroAtEnd, EndPCs, coordVars
<1>1. CASE StartStep
  BY <1>1 DEF StartStep, Start, Begin, LoopExit, LoopLimit, LoopSelect, DedupSkip, DedupBreak,
     DedupMark, AppendNew, BeginEnqueue, EnqueueSend, EnqueueOverflow, EnqueueDone, DrainRecv,
     SaveQueue, SaveVisited, FinishFlush, FinishClear, CloseResults, Finish, NothingLeft
<1>2. CASE SelectStep
  BY <1>2 DEF SelectStep, LimitRecv, SendOverflow, RecvBatch, PersistTick, CtxDone
<1>3. CASE \E w \in Workers : WorkerStep(w)
  BY <1>3 DEF WorkerStep, WorkerRecv, WorkerExit, WorkerGiveBack, WorkerFetch, WorkerResult,
     WorkerAnswer
<1>4. CASE IndexerStep
  BY <1>4 DEF IndexerStep, IndexError, IndexPage, IndexTick, IndexClosed, IndexSave, IndexAppend
<1>5. CASE Cancel \/ UNCHANGED vars
  BY <1>5 DEF Cancel, vars
<1> QED BY <1>1, <1>2, <1>3, <1>4, <1>5 DEF Next, Terminated

\* With no task in flight, none is in a channel or with a worker.
LEMMA ZeroIsQuiet == CountInv /\ ZeroAtEnd => QuietAtEnd
<1> SUFFICES ASSUME CountInv, ZeroAtEnd, pc \in EndPCs
             PROVE  taskCh = <<>> /\ discoveredCh = <<>> /\ Busy = {}
  BY DEF QuietAtEnd, EndPCs
<1>1. /\ taskCh \in Seq(Task) /\ discoveredCh \in Seq(Seq(Task))
      /\ 0 = Len(taskCh) + Cardinality(Busy) + Len(discoveredCh)
  BY DEF CountInv, TypeOK, ChanTypeOK, InFlightExact, ZeroAtEnd
<1>2. Len(taskCh) \in Nat /\ Len(discoveredCh) \in Nat
  BY <1>1
<1>3. Len(taskCh) = 0 /\ Len(discoveredCh) = 0 /\ Cardinality(Busy) = 0
  BY <1>1, <1>2, BusyNat
<1>4. Busy = {}
  BY <1>3, BusyNat, FS_EmptySet
<1> QED BY <1>1, <1>3, <1>4, EmptySeq

\* When the coordinator has left its loop, by completion, by the URL limit or
\* by cancellation, both task channels are empty and every worker is idle.
THEOREM QuietAtTheEnd == Spec => []QuietAtEnd
<1>1. Init => ZeroAtEnd
  BY DEF Init, ZeroAtEnd
<1> QED BY <1>1, ZeroIsQuiet, CountInit, CountStep, ZeroAtEndStep, PTL DEF Spec

-----------------------------------------------------------------------------
(* Queues of tasks as sets *)

Distinct(q) == \A i, j \in DOMAIN q : q[i].url = q[j].url => i = j

\* An empty queue holds nothing.
LEMMA EmptyQueue == Urls(<<>>) = {} /\ Range(<<>>) = {} /\ Distinct(<<>>)
BY DEF Urls, Range, Distinct

\* The URLs of a queue are those of the tasks in it.
LEMMA UrlsOfRange == \A q : Urls(q) = {t.url : t \in Range(q)}
BY DEF Urls, Range

\* What was appended to is not empty.
LEMMA AppendNotEmpty == \A S : \A q \in Seq(S), x \in S : Append(q, x) # <<>> /\ Append(q, x) \in Seq(S)
<1> SUFFICES ASSUME NEW S, NEW q \in Seq(S), NEW x \in S
             PROVE  Append(q, x) # <<>> /\ Append(q, x) \in Seq(S)
  OBVIOUS
<1>1. Append(q, x) \in Seq(S) /\ Len(Append(q, x)) = Len(q) + 1 /\ Len(q) \in Nat
  OBVIOUS
<1>2. Len(<<>>) = 0
  OBVIOUS
<1> QED BY <1>1, <1>2

\* Taking the head of a queue takes one element, ...
LEMMA QueueTail ==
    ASSUME NEW q \in Seq(Task), q # <<>>
    PROVE  /\ Head(q) \in Task /\ Tail(q) \in Seq(Task)
           /\ Range(q) = Range(Tail(q)) \cup {Head(q)}
           /\ Urls(q) = Urls(Tail(q)) \cup {Head(q).url}
           /\ Distinct(q) => Distinct(Tail(q)) /\ Head(q).url \notin Urls(Tail(q))
<1> DEFINE n == Len(q)
<1>1. n \in Nat /\ n > 0 /\ DOMAIN q = 1..n /\ Head(q) = q[1] /\ Head(q) \in Task
      /\ Tail(q) \in Seq(Task)
  OBVIOUS
<1>2. DOMAIN Tail(q) = 1..(n - 1) /\ \A i \in 1..(n - 1) : Tail(q)[i] = q[i + 1]
  BY <1>1, HeadTailProperties
<1> HIDE DEF n
<1>3. \A i \in 1..n : i = 1 \/ (i - 1 \in 1..(n - 1) /\ Tail(q)[i - 1] = q[i])
  BY <1>1, <1>2
<1>4. \A i \in 1..(n - 1) : i + 1 \in 1..n /\ 1 \in 1..n
  BY <1>1
<1>5. Range(q) = Range(Tail(q)) \cup {Head(q)}
  <2>1. ASSUME NEW x \in Range(q) PROVE x \in Range(Tail(q)) \cup {Head(q)}
    <3>1. PICK i \in 1..n : x = q[i]
      BY <1>1 DEF Range
    <3> QED BY <1>1, <1>2, <1>3, <3>1 DEF Range
  <2>2. ASSUME NEW x \in Range(Tail(q)) PROVE x \in Range(q)
    <3>1. PICK i \in 1..(n - 1) : x = q[i + 1]
      BY <1>2 DEF Range
    <3> QED BY <1>1, <1>4, <3>1 DEF Range
  <2>3. Head(q) \in Range(q)
    BY <1>1 DEF Range
  <2> QED BY <2>1, <2>2, <2>3
<1>6. Urls(q) = Urls(Tail(q)) \cup {Head(q).url}
  BY <1>5, UrlsOfRange
<1>7. ASSUME Distinct(q) PROVE Distinct(Tail(q)) /\ Head(q).url \notin Urls(Tail(q))
  BY <1>1, <1>2, <1>4, <1>7 DEF Distinct, Urls
<1> QED BY <1>1, <1>5, <1>6, <1>7

\* ... appending to it adds one, ...
LEMMA QueueAppend ==
    ASSUME NEW q \in Seq(Task), NEW t \in Task
    PROVE  /\ Append(q, t) \in Seq(Task)
           /\ Range(Append(q, t)) = Range(q) \cup {t}
           /\ Urls(Append(q, t)) = Urls(q) \cup {t.url}
           /\ Distinct(q) /\ t.url \notin Urls(q) => Distinct(Append(q, t))
<1> DEFINE n == Len(q)
           a == Append(q, t)
<1>1. n \in Nat /\ DOMAIN q = 1..n /\ a \in Seq(Task)
  OBVIOUS
<1>2. DOMAIN a = 1..(n + 1) /\ a[n + 1] = t /\ \A i \in 1..n : a[i] = q[i]
  BY <1>1, AppendProperties
<1> HIDE DEF n, a
<1>3. \A i \in 1..(n + 1) : i = n + 1 \/ i \in 1..n
  BY <1>1
<1>4. n + 1 \in 1..(n + 1) /\ \A i \in 1..n : i \in 1..(n + 1) /\ i # n + 1
  BY <1>1
<1>5. Range(a) = Range(q) \cup {t}
  BY <1>1, <1>2, <1>3, <1>4 DEF Range
<1>6. Urls(a) = Urls(q) \cup {t.url}
  BY <1>1, <1>2, <1>3, <1>4 DEF Urls
<1>7. ASSUME Distinct(q), t.url \notin Urls(q) PROVE Distinct(a)
  BY <1>1, <1>2, <1>3, <1>4, <1>7 DEF Distinct, Urls
<1> QED BY <1>1, <1>5, <1>6, <1>7 DEF a

\* ... concatenating two queues unites them, ...
LEMMA QueueConcat ==
    ASSUME NEW q \in Seq(Task), NEW r \in Seq(Task)
    PROVE  /\ q \o r \in Seq(Task)
           /\ Range(q \o r) = Range(q) \cup Range(r)
           /\ Urls(q \o r) = Urls(q) \cup Urls(r)
           /\ Distinct(q) /\ Distinct(r) /\ Urls(q) \cap Urls(r) = {} => Distinct(q \o r)
           /\ Distinct(q \o r) => Distinct(q) /\ Distinct(r) /\ Urls(q) \cap Urls(r) = {}
<1> DEFINE m == Len(q)
           n == Len(r)
           c == q \o r
<1>1. m \in Nat /\ n \in Nat /\ DOMAIN q = 1..m /\ DOMAIN r = 1..n /\ c \in Seq(Task)
  OBVIOUS
<1>2. DOMAIN c = 1..(m + n)
      /\ \A i \in 1..(m + n) : c[i] = IF i <= m THEN q[i] ELSE r[i - m]
  BY <1>1, ConcatProperties
<1> HIDE DEF m, n, c
<1>3. \A i \in 1..(m + n) : (i \in 1..m /\ c[i] = q[i]) \/ (i - m \in 1..n /\ c[i] = r[i - m])
  BY <1>1, <1>2
<1>4. \A i \in 1..m : i \in 1..(m + n) /\ c[i] = q[i]
  BY <1>1, <1>2
<1>5. \A i \in 1..n : m + i \in 1..(m + n) /\ c[m + i] = r[i]
  BY <1>1, <1>2
<1>6. Range(c) = Range(q) \cup Range(r)
  <2>1. ASSUME NEW x \in Range(c) PROVE x \in Range(q) \cup Range(r)
    <3>1. PICK i \in 1..(m + n) : x = c[i]
      BY <1>2 DEF Range
    <3> QED BY <1>1, <1>3, <3>1 DEF Range
  <2>2. ASSUME NEW x \in Range(q) PROVE x \in Range(c)
    BY <1>1, <1>2, <1>4 DEF Range
  <2>3. ASSUME NEW x \in Range(r) PROVE x \in Range(c)
    <3>1. PICK i \in 1..n : x = r[i]
      BY <1>1 DEF Range
    <3>2. m + i \in DOMAIN c /\ c[m + i] = x
      BY <1>2, <1>5, <3>1
    <3> QED BY <3>2 DEF Range
  <2> QED BY <2>1, <2>2, <2>3
<1>7. Urls(c) = Urls(q) \cup Urls(r)
  BY <1>6, UrlsOfRange
<1>8. ASSUME Distinct(q), Distinct(r), Urls(q) \cap Urls(r) = {} PROVE Distinct(c)
  <2> SUFFICES ASSUME NEW i \in 1..(m + n), NEW j \in 1..(m + n), c[i].url = c[j].url
               PROVE  i = j
    BY <1>2 DEF Distinct
  <2>1. CASE i \in 1..m /\ c[i] = q[i] /\ j \in 1..m /\ c[j] = q[j]
    BY <1>1, <1>8, <2>1 DEF Distinct
  <2>2. CASE i - m \in 1..n /\ c[i] = r[i - m] /\ j - m \in 1..n /\ c[j] = r[j - m]
    <3>1. i - m = j - m
      BY <1>1, <1>8, <2>2 DEF Distinct
    <3> QED BY <1>1, <3>1
  <2>3. CASE \/ i \in 1..m /\ c[i] = q[i] /\ j - m \in 1..n /\ c[j] = r[j - m]
             \/ j \in 1..m /\ c[j] = q[j] /\ i - m \in 1..n /\ c[i] = r[i - m]
    BY <1>1, <1>8, <2>3 DEF Urls
  <2> QED BY <1>3, <2>1, <2>2, <2>3
<1>9. ASSUME Distinct(c) PROVE Distinct(q) /\ Distinct(r) /\ Urls(q) \cap Urls(r) = {}
  <2>1. Distinct(q)
    BY <1>1, <1>2, <1>4, <1>9 DEF Distinct
  <2>2. Distinct(r)
    <3> SUFFICES ASSUME NEW i \in 1..n, NEW j \in 1..n, r[i].url = r[j].url
                 PROVE  i = j
      BY <1>1 DEF Distinct
    <3>1. m + i = m + j
      BY <1>2, <1>5, <1>9 DEF Distinct
    <3> QED BY <1>1, <3>1
  <2>3. ASSUME NEW i \in 1..m, NEW j \in 1..n, q[i].url = r[j].url PROVE FALSE
    <3>1. i = m + j
      BY <1>2, <1>4, <1>5, <1>9, <2>3 DEF Distinct
    <3> QED BY <1>1, <3>1
  <2> QED BY <1>1, <2>1, <2>2, <2>3 DEF Urls
<1> QED BY <1>1, <1>6, <1>7, <1>8, <1>9 DEF c

\* ... and Begin cuts one in two.
LEMMA QueueSplit ==
    ASSUME NEW q \in Seq(Task), NEW e \in 0..Len(q)
    PROVE  /\ SubSeq(q, 1, e) \in Seq(Task) /\ SubSeq(q, e + 1, Len(q)) \in Seq(Task)
           /\ Len(SubSeq(q, 1, e)) = e /\ Len(SubSeq(q, e + 1, Len(q))) = Len(q) - e
           /\ SubSeq(q, 1, e) \o SubSeq(q, e + 1, Len(q)) = q
<1>1. Len(q) \in Nat /\ e \in Nat /\ \A i \in 1..Len(q) : q[i] \in Task
  OBVIOUS
<1>2. SubSeq(q, 1, e) \in Seq(Task) /\ Len(SubSeq(q, 1, e)) = e
  BY <1>1, SubSeqProperties
<1>3. SubSeq(q, e + 1, Len(q)) \in Seq(Task) /\ Len(SubSeq(q, e + 1, Len(q))) = Len(q) - e
  BY <1>1, SubSeqProperties
<1>4. SubSeq(q, 1, e) \o SubSeq(q, e + 1, Len(q)) = SubSeq(q, 1, Len(q))
  <2>1. 1 \in 1..(Len(q) + 1) /\ e \in (1 - 1)..Len(q) /\ Len(q) \in e..Len(q)
    BY <1>1
  <2> QED BY <2>1, ConcatAdjacentSubSeq
<1>5. SubSeq(q, 1, Len(q)) = q
  BY SubSeqFull
<1> QED BY <1>2, <1>3, <1>4, <1>5

-----------------------------------------------------------------------------
(* What the steps of one goroutine leave alone *)

\* A worker touches nothing of the coordinator, the indexer and the storage.
LEMMA WorkerFrame ==
    ASSUME NEW w \in Workers, WorkerStep(w)
    PROVE  UNCHANGED <<coordVars, taskChClosed, indexVars, dbVars, cancelled, metrics>>
BY DEF WorkerStep, WorkerRecv, WorkerExit, WorkerGiveBack, WorkerFetch, WorkerResult, WorkerAnswer,
       chanVars

\* The indexer touches nothing of the coordinator and the workers.
LEMMA IndexerFrame ==
    ASSUME IndexerStep
    PROVE  UNCHANGED <<coordVars, taskCh, taskChClosed, discoveredCh, workerVars, dbVars, cancelled>>
BY DEF IndexerStep, IndexError, IndexPage, IndexTick, IndexClosed, IndexSave, IndexAppend, chanVars

\* The coordinator touches nothing of the indexer, once it has started it, and
\* only Start and the sends touch the workers.
LEMMA CoordFrame ==
    ASSUME StartStep \/ SelectStep
    PROVE  /\ UNCHANGED <<index, dbPostings, pdata, cancelled, fetched>>
           /\ Start \/ UNCHANGED <<resultsCh, indexVars>>
           /\ Start \/ EnqueueSend \/ SendOverflow \/ UNCHANGED <<taskCh, wpc, wtask>>
BY DEF StartStep, SelectStep, Start, LoopExit, LoopLimit, LoopSelect, DedupSkip, DedupBreak,
     DedupMark, AppendNew, BeginEnqueue, EnqueueSend, EnqueueOverflow, EnqueueDone, DrainRecv,
     SaveQueue, SaveVisited, FinishFlush, FinishClear, CloseResults, Finish,
     LimitRecv, SendOverflow, RecvBatch, PersistTick, CtxDone, chanVars, workerVars, indexVars

\* A cancelled crawl stays cancelled.
LEMMA CancelStable == cancelled /\ [Next]_vars => cancelled'
<1> SUFFICES ASSUME cancelled, [Next]_vars PROVE cancelled'
  OBVIOUS
<1>1. CASE StartStep \/ SelectStep
  BY <1>1, CoordFrame
<1>2. CASE \E w \in Workers : WorkerStep(w)
  BY <1>2, WorkerFrame
<1>3. CASE IndexerStep
  BY <1>3, IndexerFrame
<1> QED BY <1>1, <1>2, <1>3 DEF Next, Cancel, Terminated, vars

\* PagesProcessed never decreases, so the URL limit stays reached.
LEMMA LimitStable == TypeOK /\ urlLimitReached /\ [Next]_vars => urlLimitReached'
<1> SUFFICES ASSUME TypeOK, urlLimitReached, [Next]_vars PROVE urlLimitReached'
  OBVIOUS
<1> DEFINE P == metrics.PagesProcessed
<1>1. metrics \in Metrics /\ P \in Nat /\ MaxURLs \in Nat
  BY CrawlerAssumption DEF TypeOK, Metrics
<1> SUFFICES P' \in Nat /\ P' >= P
  BY <1>1 DEF urlLimitReached
<1>2. \A n, o : WithQueueMetrics(metrics, n, o).PagesProcessed = P
  BY <1>1 DEF WithQueueMetrics, Metrics
<1>3. CASE StartStep
  <2>1. CASE Start
    BY <1>1, <2>1 DEF Start, Metrics
  <2>2. CASE DedupMark
    BY <1>1, <2>2 DEF DedupMark, Metrics
  <2>3. CASE Finish
    BY <1>1, <2>3 DEF Finish, Metrics
  <2>4. CASE AppendNew \/ EnqueueDone
    BY <1>1, <1>2, <2>4 DEF AppendNew, EnqueueDone
  <2> QED BY <1>1, <1>3, <2>1, <2>2, <2>3, <2>4 DEF StartStep, LoopExit, LoopLimit, LoopSelect,
        DedupSkip, DedupBreak, BeginEnqueue, EnqueueSend, EnqueueOverflow, DrainRecv, SaveQueue,
        SaveVisited, FinishFlush, FinishClear, CloseResults
<1>4. CASE SelectStep
  <2>1. P' = P
    BY <1>2, <1>4 DEF SelectStep, LimitRecv, SendOverflow, RecvBatch, PersistTick, CtxDone
  <2> QED BY <1>1, <2>1
<1>5. CASE \E w \in Workers : WorkerStep(w)
  BY <1>1, <1>5, WorkerFrame
<1>6. CASE IndexerStep
  <2>1. CASE IndexError
    BY <1>1, <2>1 DEF IndexError, Metrics
  <2>2. CASE IndexPage
    <3>1. \/ metrics' = [metrics EXCEPT !.IndexedDocs = @ + 1]
          \/ metrics' = [metrics EXCEPT !.IndexedDocs = @ + 1, !.PagesProcessed = @ + 1]
      BY <2>2 DEF IndexPage
    <3>2. P' = P \/ P' = P + 1
      BY <1>1, <3>1 DEF Metrics
    <3> QED BY <1>1, <3>2
  <2>3. CASE IndexAppend
    BY <1>1, <2>3 DEF IndexAppend, Metrics
  <2> QED BY <1>1, <1>6, <2>1, <2>2, <2>3 DEF IndexerStep, IndexTick, IndexClosed, IndexSave
<1>7. CASE Cancel \/ UNCHANGED vars
  BY <1>1, <1>7 DEF Cancel, vars
<1> QED BY <1>3, <1>4, <1>5, <1>6, <1>7 DEF Next, Terminated

-----------------------------------------------------------------------------
(* The phases of the coordinator *)

\* Until Start is called everything is as it was made, apart from the context.
Fresh ==
    pc = "start" =>
        /\ inFlight = 0 /\ overflow = <<>> /\ visited = {} /\ newVisited = {}
        /\ taskCh = <<>> /\ discoveredCh = <<>> /\ resultsCh = <<>>
        /\ \A w \in Workers : wpc[w] = "exit"
        /\ ipc = "exit" /\ flushFor = "none" /\ pending = <<>>
        /\ index = [u \in URLs |-> 0] /\ pdata = index
        /\ dbPostings = {} /\ dbVisited = {}
        /\ metrics = ZeroMetrics
        /\ fetched = [u \in URLs |-> <<>>]

\* Nothing but Start and Cancel can happen before Start.
LEMMA FreshStep == Fresh /\ [Next]_vars => Fresh'
<1> SUFFICES ASSUME Fresh, [Next]_vars, pc' = "start"
             PROVE  pc = "start" /\ UNCHANGED <<coordVars, chanVars, workerVars, indexVars, dbVars, metrics>>
  BY DEF Fresh, coordVars, chanVars, workerVars, indexVars, dbVars
<1>1. ~(StartStep \/ SelectStep)
  BY DEF StartStep, SelectStep, Start, Begin, LoopExit, LoopLimit, LoopSelect, DedupSkip, DedupBreak,
     DedupMark, AppendNew, BeginEnqueue, EnqueueSend, EnqueueOverflow, EnqueueDone, DrainRecv,
     SaveQueue, SaveVisited, FinishFlush, FinishClear, CloseResults, Finish,
     LimitRecv, SendOverflow, RecvBatch, PersistTick, CtxDone
<1>2. ASSUME NEW w \in Workers, WorkerStep(w) PROVE FALSE
  BY <1>2, WorkerFrame DEF coordVars, Fresh, WorkerStep, WorkerRecv, WorkerExit, WorkerGiveBack,
     WorkerFetch, WorkerResult, WorkerAnswer
<1>3. ~IndexerStep
  BY IndexerFrame DEF coordVars, Fresh, IndexerStep, IndexError, IndexPage, IndexTick, IndexClosed,
     IndexSave, IndexAppend
<1> QED BY <1>1, <1>2, <1>3 DEF Next, Cancel, Terminated, vars, coordVars

\* Where the coordinator's buffers are empty, and what led it where it is.
Phases ==
    /\ pc \in {"drain", "saveVisited"} => cancelled
    /\ pc \notin {"dedup", "enqueue"} => newTasks = <<>>
    /\ pc # "dedup" => batch = <<>>
    /\ pc \in {"finish", "clearQueue"} => overflow = <<>>
    /\ pc \in {"wait", "resultsClosed", "done"} => overflow = <<>> \/ cancelled
    /\ pc \in {"resultsClosed", "done"} => \A w \in Workers : wpc[w] = "exit"

\* The phases follow one another as coordinatorLoop and Start say.
LEMMA PhasesStep == TypeOK /\ Fresh /\ Phases /\ [Next]_vars => Phases'
<1> SUFFICES ASSUME TypeOK, Fresh, Phases, [Next]_vars PROVE Phases'
  OBVIOUS
<1> USE DEF Phases
<1>1. CASE StartStep
  <2>1. UNCHANGED cancelled
    BY <1>1, CoordFrame
  <2>2. CASE Start
    BY <2>2 DEF Start, Begin
  <2>3. CASE EnqueueSend
    BY <2>1, <2>3 DEF EnqueueSend
  <2>4. CASE ~Start /\ ~EnqueueSend
    <3>1. UNCHANGED wpc
      BY <1>1, <2>4, CoordFrame DEF StartStep, SendOverflow, LoopExit, LoopLimit, LoopSelect,
         DedupSkip, DedupBreak, DedupMark, AppendNew, BeginEnqueue, EnqueueOverflow, EnqueueDone,
         DrainRecv, SaveQueue, SaveVisited, FinishFlush, FinishClear, CloseResults, Finish, workerVars
    <3> QED BY <1>1, <2>1, <2>4, <3>1 DEF StartStep, LoopExit, LoopLimit, LoopSelect, DedupSkip,
         DedupBreak, DedupMark, AppendNew, BeginEnqueue, EnqueueOverflow, EnqueueDone, DrainRecv,
         SaveQueue, SaveVisited, FinishFlush, FinishClear, CloseResults, Finish, NothingLeft
  <2> QED BY <2>2, <2>3, <2>4
<1>2. CASE SelectStep
  BY <1>2 DEF SelectStep, LimitRecv, SendOverflow, RecvBatch, PersistTick, CtxDone
<1>3. ASSUME NEW w \in Workers, WorkerStep(w) PROVE Phases'
  <2>1. UNCHANGED <<coordVars, cancelled>>
    BY <1>3, WorkerFrame
  <2>2. ~(\A v \in Workers : wpc[v] = "exit")
    BY <1>3 DEF WorkerStep, WorkerRecv, WorkerExit, WorkerGiveBack, WorkerFetch, WorkerResult, WorkerAnswer
  <2> QED BY <2>1, <2>2 DEF coordVars
<1>4. CASE IndexerStep
  BY <1>4, IndexerFrame DEF coordVars, workerVars
<1>5. CASE Cancel \/ UNCHANGED vars
  BY <1>5, CancelStable DEF Cancel, vars, coordVars, workerVars
<1> QED BY <1>1, <1>2, <1>3, <1>4, <1>5 DEF Next, Terminated

\* What every later proof may rely on.
BaseInv == CountInv /\ ZeroAtEnd /\ Fresh /\ Phases

\* The base invariant holds in every state of a crawl.
LEMMA BaseAlways == Spec => []BaseInv
<1>1. Init => ZeroAtEnd /\ Fresh /\ Phases
  BY DEF Init, ZeroAtEnd, EndPCs, Fresh, Phases
<1>2. CountInv => TypeOK
  BY DEF CountInv
<1> QED BY <1>1, <1>2, CountInit, CountStep, ZeroAtEndStep, FreshStep, PhasesStep, PTL
        DEF Spec, BaseInv

-----------------------------------------------------------------------------
(* Where the tasks are *)

LoopPCs == {"top", "limit", "overflow", "idle", "dedup", "enqueue"}

\* The workers that have a task and have not yet looked at the context.
Checking == {w \in Workers : wpc[w] = "check"}
CheckUrls == {wtask[w].url : w \in Checking}

\* The URLs handed to the workers and not yet fetched, each held once.
Handed == Urls(taskCh) \cup CheckUrls
Apart ==
    /\ Distinct(taskCh)
    /\ \A v, w \in Checking : wtask[v].url = wtask[w].url => v = w
    /\ Urls(taskCh) \cap CheckUrls = {}

\* The tasks handed to the workers, and those the coordinator still has.
Sent == Range(taskCh) \cup {wtask[w] : w \in Busy}
Waiting == Range(overflow) \cup Range(newTasks)
Live == Sent \cup (IF pc \in LoopPCs THEN Waiting ELSE {})

\* A send hands over one task.
LEMMA SendMoves ==
    ASSUME CountInv, NEW t \in Task, Send(t)
    PROVE  /\ Sent' = Sent \cup {t}
           /\ Handed' = Handed \cup {t.url}
           /\ Apart /\ t.url \notin Handed => Apart'
<1>1. taskCh \in Seq(Task) /\ wpc \in [Workers -> WorkerPCs] /\ wtask \in [Workers -> Task \cup {NoTask}]
  BY DEF CountInv, TypeOK, ChanTypeOK, WorkerTypeOK
<1>2. CASE taskCh' = Append(taskCh, t) /\ UNCHANGED <<wpc, wtask>>
  <2>1. Checking' = Checking /\ Busy' = Busy
    BY <1>2 DEF Checking, Busy
  <2>2. CheckUrls' = CheckUrls /\ {wtask[w] : w \in Busy}' = {wtask[w] : w \in Busy}
    BY <1>2, <2>1 DEF CheckUrls
  <2>3. /\ Range(taskCh') = Range(taskCh) \cup {t}
        /\ Urls(taskCh') = Urls(taskCh) \cup {t.url}
        /\ Distinct(taskCh) /\ t.url \notin Urls(taskCh) => Distinct(taskCh')
    BY <1>1, <1>2, QueueAppend
  <2>4. Sent' = Sent \cup {t} /\ Handed' = Handed \cup {t.url}
    BY <2>2, <2>3 DEF Sent, Handed
  <2>5. Apart /\ t.url \notin Handed => Apart'
    BY <1>2, <2>1, <2>2, <2>3 DEF Apart, Handed
  <2> QED BY <2>4, <2>5
<1>3. ASSUME NEW w \in Workers, wpc[w] = "recv",
             wpc' = [wpc EXCEPT ![w] = "check"], wtask' = [wtask EXCEPT ![w] = t],
             UNCHANGED taskCh
      PROVE  /\ Sent' = Sent \cup {t}
             /\ Handed' = Handed \cup {t.url}
             /\ Apart /\ t.url \notin Handed => Apart'
  <2>1. /\ Checking' = Checking \cup {w} /\ w \notin Checking
        /\ Busy' = Busy \cup {w} /\ w \notin Busy
    BY <1>1, <1>3 DEF Checking, Busy
  <2>2. wtask'[w] = t /\ \A v \in Workers : v # w => wtask'[v] = wtask[v]
    BY <1>1, <1>3
  <2>3. CheckUrls' = CheckUrls \cup {t.url}
    BY <2>1, <2>2 DEF CheckUrls, Checking
  <2>4. {wtask[v] : v \in Busy}' = {wtask[v] : v \in Busy} \cup {t}
    BY <2>1, <2>2 DEF Busy
  <2>5. ASSUME Apart, t.url \notin Handed PROVE Apart'
    <3>1. ASSUME NEW v \in Checking', NEW x \in Checking', wtask'[v].url = wtask'[x].url
          PROVE  v = x
      BY <2>1, <2>2, <2>5, <3>1 DEF Apart, Handed, CheckUrls, Checking
    <3>2. Distinct(taskCh') /\ Urls(taskCh') \cap CheckUrls' = {}
      BY <1>3, <2>3, <2>5 DEF Apart, Handed
    <3> QED BY <3>1, <3>2 DEF Apart
  <2> QED BY <1>3, <2>3, <2>4, <2>5 DEF Sent, Handed
<1> QED BY <1>2, <1>3 DEF Send

\* A worker only moves the tasks it was handed: it takes one, gives one back
\* because of the cancellation, or fetches one.
LEMMA WorkerMoves ==
    ASSUME CountInv, NEW w \in Workers, WorkerStep(w)
    PROVE  /\ Sent' \subseteq Sent
           /\ Apart => Apart'
           /\ \/ Handed' = Handed /\ fetched' = fetched
              \/ cancelled /\ Handed' \subseteq Handed /\ fetched' = fetched
              \/ /\ WorkerFetch(w) /\ wtask[w] \in Sent /\ wtask[w] \in Task
                 /\ Handed = Handed' \cup {wtask[w].url}
                 /\ Apart => wtask[w].url \notin Handed'
<1>1. taskCh \in Seq(Task) /\ wpc \in [Workers -> WorkerPCs] /\ wtask \in [Workers -> Task \cup {NoTask}]
  BY DEF CountInv, TypeOK, ChanTypeOK, WorkerTypeOK
<1>2. CASE WorkerRecv(w)
  <2> DEFINE t == Head(taskCh)
  <2>1. taskCh # <<>> /\ taskCh' = Tail(taskCh) /\ wpc[w] = "recv"
        /\ wpc' = [wpc EXCEPT ![w] = "check"] /\ wtask' = [wtask EXCEPT ![w] = t] /\ fetched' = fetched
    BY <1>2 DEF WorkerRecv
  <2>2. /\ Range(taskCh) = Range(taskCh') \cup {t}
        /\ Urls(taskCh) = Urls(taskCh') \cup {t.url}
        /\ Distinct(taskCh) => Distinct(taskCh') /\ t.url \notin Urls(taskCh')
    BY <1>1, <2>1, QueueTail
  <2> HIDE DEF t
  <2>3. /\ Checking' = Checking \cup {w} /\ w \notin Checking
        /\ Busy' = Busy \cup {w} /\ w \notin Busy
    BY <1>1, <2>1 DEF Checking, Busy
  <2>4. wtask'[w] = t /\ \A v \in Workers : v # w => wtask'[v] = wtask[v]
    BY <1>1, <2>1
  <2>5. CheckUrls' = CheckUrls \cup {t.url}
    BY <2>3, <2>4 DEF CheckUrls, Checking
  <2>6. {wtask[v] : v \in Busy}' = {wtask[v] : v \in Busy} \cup {t}
    BY <2>3, <2>4 DEF Busy
  <2>7. Sent' \subseteq Sent /\ Handed' = Handed
    BY <2>2, <2>5, <2>6 DEF Sent, Handed
  <2>8. ASSUME Apart PROVE Apart'
    <3>1. ASSUME NEW v \in Checking', NEW x \in Checking', wtask'[v].url = wtask'[x].url
          PROVE  v = x
      BY <2>2, <2>3, <2>4, <2>8, <3>1 DEF Apart, CheckUrls, Checking
    <3>2. Distinct(taskCh') /\ Urls(taskCh') \cap CheckUrls' = {}
      BY <2>2, <2>5, <2>8 DEF Apart
    <3> QED BY <3>1, <3>2 DEF Apart
  <2> QED BY <2>1, <2>7, <2>8
<1>3. CASE WorkerGiveBack(w) \/ WorkerFetch(w)
  <2>1. wpc[w] = "check" /\ UNCHANGED <<taskCh, wtask>>
        /\ (wpc' = [wpc EXCEPT ![w] = "return"] \/ wpc' = [wpc EXCEPT ![w] = "fetch"])
    BY <1>3 DEF WorkerGiveBack, WorkerFetch, chanVars
  <2>2. Checking' = Checking \ {w} /\ w \in Checking /\ Busy' = Busy /\ w \in Busy
    BY <1>1, <2>1 DEF Checking, Busy
  <2>3. CheckUrls = CheckUrls' \cup {wtask[w].url} /\ Handed = Handed' \cup {wtask[w].url}
    BY <2>1, <2>2 DEF CheckUrls, Handed
  <2>4. Sent' = Sent /\ wtask[w] \in Sent /\ wtask[w] \in Task
    BY <2>1, <2>2 DEF Sent, CountInv, HeldTasks
  <2>5. Apart => Apart'
    BY <2>1, <2>2, <2>3 DEF Apart
  <2>6. Apart => wtask[w].url \notin Handed'
    BY <2>1, <2>2 DEF Apart, Handed, CheckUrls
  <2>7. WorkerGiveBack(w) => cancelled /\ fetched' = fetched
    BY DEF WorkerGiveBack
  <2> QED BY <1>3, <2>3, <2>4, <2>5, <2>6, <2>7
<1>4. CASE WorkerExit(w) \/ WorkerResult(w) \/ WorkerAnswer(w)
  <2>1. wpc[w] # "check" /\ UNCHANGED <<taskCh, fetched>>
        /\ (\E x \in WorkerPCs \ {"check"} : wpc' = [wpc EXCEPT ![w] = x])
        /\ \A v \in Workers : v # w => wtask'[v] = wtask[v]
    BY <1>1, <1>4 DEF WorkerExit, WorkerResult, WorkerAnswer, chanVars, WorkerPCs
  <2>2. Checking' = Checking /\ w \notin Checking
    BY <1>1, <2>1 DEF Checking
  <2>3. \A v \in Busy' : v \in Busy /\ wtask'[v] = wtask[v]
    BY <1>1, <1>4 DEF Busy, WorkerExit, WorkerResult, WorkerAnswer
  <2>4. CheckUrls' = CheckUrls
    BY <2>1, <2>2 DEF CheckUrls, Checking
  <2>5. Sent' \subseteq Sent /\ Handed' = Handed
    BY <2>1, <2>3, <2>4 DEF Sent, Handed
  <2>6. Apart => Apart'
    BY <2>1, <2>2, <2>4 DEF Apart, Checking
  <2> QED BY <2>1, <2>5, <2>6
<1> QED BY <1>2, <1>3, <1>4 DEF WorkerStep

-----------------------------------------------------------------------------
(* No task is lost *)

\* The URLs the coordinator has not handed to a worker.
WaitUrls == Urls(overflow) \cup Urls(newTasks)

\* The seeds, as a set and as a queue.
LEMMA SeedQueueUrls == Urls(SeedQueue) = SeedSet /\ \A x \in Range(SeedQueue) : x.url \in SeedSet /\ x.depth = 0
BY DEF SeedQueue, SeedSet, Urls, Range

\* Start hands the seeds to the workers as far as taskCh has room, and keeps
\* the rest in overflow.
LEMMA StartMoves ==
    ASSUME Start
    PROVE  /\ Live' \subseteq Range(SeedQueue)
           /\ Handed' \cup WaitUrls' = SeedSet
           /\ Distinct(SeedQueue) => /\ Apart' /\ Distinct(overflow') /\ Distinct(newTasks')
                                     /\ Urls(overflow') \cap Urls(newTasks') = {}
                                     /\ Handed' \cap WaitUrls' = {}
<1> DEFINE e == IF Len(SeedQueue) < QueueSize THEN Len(SeedQueue) ELSE QueueSize
<1>1. SeedQueue \in Seq(Task) /\ Len(SeedQueue) \in Nat /\ QueueSize \in Nat
  BY SeedQueueType, CrawlerAssumption
<1>2. e \in 0..Len(SeedQueue)
  BY <1>1
<1>3. /\ taskCh' = SubSeq(SeedQueue, 1, e) /\ overflow' = SubSeq(SeedQueue, e + 1, Len(SeedQueue))
      /\ newTasks' = <<>> /\ wpc' = [w \in Workers |-> "recv"]
  BY DEF Start, Begin
<1> HIDE DEF e
<1>4. taskCh' \in Seq(Task) /\ overflow' \in Seq(Task) /\ taskCh' \o overflow' = SeedQueue
  BY <1>1, <1>2, <1>3, QueueSplit
<1>5. /\ Range(SeedQueue) = Range(taskCh') \cup Range(overflow')
      /\ SeedSet = Urls(taskCh') \cup Urls(overflow')
      /\ Distinct(SeedQueue) => Distinct(taskCh') /\ Distinct(overflow') /\ Urls(taskCh') \cap Urls(overflow') = {}
  BY <1>4, QueueConcat, SeedQueueUrls
<1>6. Checking' = {} /\ Busy' = {} /\ CheckUrls' = {}
  BY <1>3 DEF Checking, Busy, CheckUrls
<1>7. Range(newTasks') = {} /\ Urls(newTasks') = {} /\ Distinct(newTasks')
  BY <1>3, EmptyQueue
<1>8. Sent' = Range(taskCh') /\ Waiting' = Range(overflow') /\ Handed' = Urls(taskCh')
      /\ WaitUrls' = Urls(overflow')
  BY <1>6, <1>7 DEF Sent, Waiting, Handed, WaitUrls
<1>9. Live' \subseteq Range(SeedQueue) /\ Handed' \cup WaitUrls' = SeedSet
  BY <1>5, <1>8 DEF Live
<1>10. ASSUME Distinct(SeedQueue)
       PROVE  /\ Apart' /\ Distinct(overflow') /\ Distinct(newTasks')
              /\ Urls(overflow') \cap Urls(newTasks') = {} /\ Handed' \cap WaitUrls' = {}
  BY <1>5, <1>6, <1>7, <1>8, <1>10 DEF Apart
<1> QED BY <1>9, <1>10

\* Steps of the coordinator that leave the workers and taskCh alone leave the
\* handed tasks alone.
LEMMA HandedFrame ==
    ASSUME UNCHANGED <<taskCh, wpc, wtask>>
    PROVE  Sent' = Sent /\ Handed' = Handed /\ (Apart => Apart')
BY DEF Sent, Handed, CheckUrls, Checking, Busy, Apart

\* What the coordinator does to the waiting tasks while it loops: they are
\* handed over, kept, or joined by the task just marked; only the URL limit
\* and the drain break this.
LEMMA CoordMoves ==
    ASSUME BaseInv, StartStep \/ SelectStep, ~Start
    PROVE  /\ \/ Live' \subseteq Live
              \/ DedupMark /\ Live' \subseteq Live \cup {Head(batch)}
           /\ \/ Handed' \cup WaitUrls' = Handed \cup WaitUrls
              \/ pc = "drain" /\ Handed' = Handed
              \/ LoopLimit /\ Handed' = Handed /\ WaitUrls' = {}
              \/ DedupMark /\ Handed' \cup WaitUrls' = Handed \cup WaitUrls \cup {Head(batch).url}
           /\ \/ visited' = visited
              \/ DedupMark /\ visited' = visited \cup {Head(batch).url} /\ Head(batch).url \notin visited
           /\ fetched' = fetched /\ pc \in LoopPCs \cup {"drain"} \cup EndPCs
<1> USE DEF LoopPCs, EndPCs
<1>1. /\ overflow \in Seq(Task) /\ newTasks \in Seq(Task) /\ batch \in Seq(Task) /\ CountInv
      /\ pc \in StartPCs
  BY DEF BaseInv, CountInv, TypeOK, CoordTypeOK
<1>2. CASE LoopExit \/ LoopSelect \/ LimitRecv \/ PersistTick \/ DedupSkip \/ DedupBreak \/ BeginEnqueue \/ EnqueueDone
  <2>1. UNCHANGED <<overflow, newTasks, visited, taskCh, wpc, wtask, fetched>> /\ pc \in LoopPCs
    BY <1>2 DEF LoopExit, LoopSelect, LimitRecv, PersistTick, DedupSkip, DedupBreak, BeginEnqueue,
       EnqueueDone, chanVars, workerVars
  <2> QED BY <2>1, HandedFrame DEF Live, Waiting, WaitUrls
<1>3. CASE CtxDone \/ SaveQueue \/ SaveVisited \/ FinishFlush \/ FinishClear \/ CloseResults \/ Finish \/ DrainRecv
  <2>1. UNCHANGED <<newTasks, visited, taskCh, wpc, wtask, fetched>> /\ pc' \notin LoopPCs
        /\ pc \in LoopPCs \cup {"drain"} \cup EndPCs
        /\ (UNCHANGED overflow \/ pc = "drain")
    BY <1>3 DEF CtxDone, SaveQueue, SaveVisited, FinishFlush, FinishClear, CloseResults, Finish,
       DrainRecv, chanVars, workerVars
  <2>2. Live' \subseteq Live /\ Handed' = Handed
    BY <2>1, HandedFrame DEF Live
  <2> QED BY <2>1, <2>2 DEF WaitUrls
<1>4. CASE LoopLimit
  <2>1. UNCHANGED <<newTasks, visited, taskCh, wpc, wtask, fetched>> /\ pc = "top" /\ overflow' = <<>>
    BY <1>4 DEF LoopLimit, chanVars, workerVars
  <2>2. newTasks = <<>>
    BY <2>1 DEF BaseInv, Phases
  <2>3. Live' \subseteq Live /\ Handed' = Handed /\ WaitUrls' = {}
    BY <2>1, <2>2, HandedFrame, EmptyQueue DEF Live, Waiting, WaitUrls
  <2> QED BY <1>4, <2>1, <2>3
<1>5. CASE SendOverflow
  <2>1. /\ overflow # <<>> /\ Send(Head(overflow)) /\ overflow' = Tail(overflow) /\ pc = "overflow"
        /\ UNCHANGED <<newTasks, visited, fetched>>
    BY <1>5 DEF SendOverflow, BaseInv, CountInv, OverflowAtSelect
  <2>2. /\ Head(overflow) \in Task
        /\ Range(overflow) = Range(overflow') \cup {Head(overflow)}
        /\ Urls(overflow) = Urls(overflow') \cup {Head(overflow).url}
    BY <1>1, <2>1, QueueTail
  <2>3. Sent' = Sent \cup {Head(overflow)} /\ Handed' = Handed \cup {Head(overflow).url}
    BY <1>1, <2>1, <2>2, SendMoves
  <2> QED BY <2>1, <2>2, <2>3 DEF Live, Waiting, WaitUrls
<1>6. CASE EnqueueSend
  <2>1. /\ newTasks # <<>> /\ Send(Head(newTasks)) /\ newTasks' = Tail(newTasks) /\ pc = "enqueue"
        /\ UNCHANGED <<overflow, visited, fetched>>
    BY <1>6 DEF EnqueueSend
  <2>2. /\ Head(newTasks) \in Task
        /\ Range(newTasks) = Range(newTasks') \cup {Head(newTasks)}
        /\ Urls(newTasks) = Urls(newTasks') \cup {Head(newTasks).url}
    BY <1>1, <2>1, QueueTail
  <2>3. Sent' = Sent \cup {Head(newTasks)} /\ Handed' = Handed \cup {Head(newTasks).url}
    BY <1>1, <2>1, <2>2, SendMoves
  <2> QED BY <2>1, <2>2, <2>3 DEF Live, Waiting, WaitUrls
<1>7. CASE RecvBatch
  <2>1. UNCHANGED <<overflow, visited, taskCh, wpc, wtask, fetched>> /\ pc \in {"overflow", "idle"} /\ newTasks' = <<>>
    BY <1>7 DEF RecvBatch, workerVars
  <2>2. newTasks' = newTasks
    BY <2>1 DEF BaseInv, Phases
  <2> QED BY <2>1, <2>2, HandedFrame DEF Live, Waiting, WaitUrls
<1>8. CASE DedupMark
  <2>1. /\ UNCHANGED <<overflow, taskCh, wpc, wtask, fetched>> /\ pc = "dedup" /\ batch # <<>>
        /\ newTasks' = Append(newTasks, Head(batch)) /\ visited' = visited \cup {Head(batch).url}
        /\ Head(batch).url \notin visited
    BY <1>8 DEF DedupMark, chanVars, workerVars, Skipped
  <2>2. Head(batch) \in Task
    BY <1>1, <2>1
  <2>3. /\ Range(newTasks') = Range(newTasks) \cup {Head(batch)}
        /\ Urls(newTasks') = Urls(newTasks) \cup {Head(batch).url}
    BY <1>1, <2>1, <2>2, QueueAppend
  <2> QED BY <1>8, <2>1, <2>3, HandedFrame DEF Live, Waiting, WaitUrls
<1>9. CASE AppendNew
  <2>1. /\ UNCHANGED <<visited, taskCh, wpc, wtask, fetched>> /\ pc = "dedup"
        /\ newTasks' = <<>> /\ overflow' = overflow \o newTasks
    BY <1>9 DEF AppendNew, chanVars, workerVars
  <2>2. /\ Range(overflow') = Range(overflow) \cup Range(newTasks)
        /\ Urls(overflow') = Urls(overflow) \cup Urls(newTasks)
    BY <1>1, <2>1, QueueConcat
  <2> QED BY <2>1, <2>2, HandedFrame, EmptyQueue DEF Live, Waiting, WaitUrls
<1>10. CASE EnqueueOverflow
  <2>1. /\ UNCHANGED <<visited, taskCh, wpc, wtask, fetched>> /\ pc = "enqueue" /\ newTasks # <<>>
        /\ newTasks' = Tail(newTasks) /\ overflow' = Append(overflow, Head(newTasks))
    BY <1>10 DEF EnqueueOverflow, chanVars, workerVars
  <2>2. /\ Head(newTasks) \in Task
        /\ Range(newTasks) = Range(newTasks') \cup {Head(newTasks)}
        /\ Urls(newTasks) = Urls(newTasks') \cup {Head(newTasks).url}
    BY <1>1, <2>1, QueueTail
  <2>3. /\ Range(overflow') = Range(overflow) \cup {Head(newTasks)}
        /\ Urls(overflow') = Urls(overflow) \cup {Head(newTasks).url}
    BY <1>1, <2>1, <2>2, QueueAppend
  <2> QED BY <2>1, <2>2, <2>3, HandedFrame DEF Live, Waiting, WaitUrls
<1> QED BY <1>2, <1>3, <1>4, <1>5, <1>6, <1>7, <1>8, <1>9, <1>10 DEF StartStep, SelectStep

\* What was fetched stays in the history, which only a fetch adds to.
LEMMA FetchGrows ==
    ASSUME CountInv, [Next]_vars, NEW CONSTANT u \in URLs
    PROVE  /\ \A i \in DOMAIN fetched[u] : i \in DOMAIN fetched'[u] /\ fetched'[u][i] = fetched[u][i]
           /\ fetched[u] # <<>> => fetched'[u] # <<>>
           /\ \/ fetched'[u] = fetched[u]
              \/ \E w \in Workers : WorkerFetch(w) /\ wtask[w].url = u
<1>1. fetched \in [URLs -> Seq(Nat)]
  BY DEF CountInv, TypeOK, WorkerTypeOK
<1>2. CASE fetched'[u] = fetched[u]
  BY <1>2
<1>3. ASSUME NEW w \in Workers, WorkerFetch(w), wtask[w].url = u
      PROVE  /\ \A i \in DOMAIN fetched[u] : i \in DOMAIN fetched'[u] /\ fetched'[u][i] = fetched[u][i]
             /\ fetched'[u] # <<>>
  <2>1. wtask[w] \in Task
    BY <1>3 DEF WorkerFetch, CountInv, HeldTasks, Busy
  <2>2. PICK d \in Nat : d = wtask[w].depth
    BY <2>1 DEF Task
  <2>3. fetched'[u] = Append(fetched[u], d) /\ fetched[u] \in Seq(Nat)
    BY <1>1, <1>3, <2>2 DEF WorkerFetch
  <2> QED BY <2>3, AppendNotEmpty, AppendProperties
<1>4. ASSUME NEW w \in Workers, WorkerFetch(w), wtask[w].url # u PROVE fetched'[u] = fetched[u]
  BY <1>1, <1>4 DEF WorkerFetch
<1>5. ASSUME NEW w \in Workers, WorkerStep(w), ~WorkerFetch(w) PROVE fetched'[u] = fetched[u]
  BY <1>5 DEF WorkerStep, WorkerRecv, WorkerExit, WorkerGiveBack, WorkerResult, WorkerAnswer
<1>6. CASE StartStep \/ SelectStep \/ IndexerStep \/ Cancel \/ UNCHANGED vars
  <2>1. fetched' = fetched
    BY <1>6, CoordFrame, IndexerFrame DEF Cancel, vars, workerVars
  <2> QED BY <2>1
<1> QED BY <1>2, <1>3, <1>4, <1>5, <1>6 DEF Next, Terminated

\* A step that neither cancels the crawl nor gives up the overflow at the URL
\* limit leaves every page that waits for a worker where it is, or moves it on,
\* or fetches it; and what it marks waits.
LEMMA OutstandingStep ==
    ASSUME BaseInv, [Next]_vars, ~cancelled', ~LoopLimit, NEW CONSTANT u \in URLs
    PROVE  /\ u \in Handed \cup WaitUrls =>
                \/ u \in Handed' \cup WaitUrls'
                \/ \E w \in Workers : WorkerFetch(w) /\ wtask[w].url = u /\ fetched'[u] # <<>>
           /\ u \in visited' => u \in visited \/ u \in Handed' \cup WaitUrls'
<1>1. ~cancelled /\ CountInv
  BY CancelStable DEF BaseInv
<1>2. CASE Start
  <2>1. visited' = SeedSet
    BY <1>2 DEF Start, Begin
  <2>2. Handed \cup WaitUrls = {}
    <3>1. taskCh = <<>> /\ overflow = <<>> /\ newTasks = <<>> /\ \A w \in Workers : wpc[w] = "exit"
      BY <1>2 DEF Start, BaseInv, Fresh, Phases
    <3> QED BY <3>1, EmptyQueue DEF Handed, WaitUrls, CheckUrls, Checking
  <2> QED BY <1>2, <2>1, <2>2, StartMoves
<1>3. CASE (StartStep \/ SelectStep) /\ ~Start
  <2>1. pc # "drain"
    BY <1>1 DEF BaseInv, Phases
  <2>2. /\ \/ Handed' \cup WaitUrls' = Handed \cup WaitUrls
           \/ DedupMark /\ Handed' \cup WaitUrls' = Handed \cup WaitUrls \cup {Head(batch).url}
        /\ visited' = visited \/ (DedupMark /\ visited' = visited \cup {Head(batch).url})
    BY <1>3, <2>1, CoordMoves
  <2>3. CASE DedupMark
    <3>1. batch \in Seq(Task) /\ newTasks \in Seq(Task) /\ batch # <<>>
          /\ newTasks' = Append(newTasks, Head(batch))
      BY <2>3 DEF DedupMark, BaseInv, CountInv, TypeOK, CoordTypeOK
    <3>2. Urls(newTasks') = Urls(newTasks) \cup {Head(batch).url}
      BY <3>1, QueueTail, QueueAppend
    <3> QED BY <2>2, <3>2 DEF WaitUrls
  <2> QED BY <2>2, <2>3
<1>4. ASSUME NEW w \in Workers, WorkerStep(w)
      PROVE  /\ visited' = visited
             /\ u \in Handed \cup WaitUrls =>
                  \/ u \in Handed' \cup WaitUrls'
                  \/ WorkerFetch(w) /\ wtask[w].url = u /\ fetched'[u] # <<>>
  <2>1. WaitUrls' = WaitUrls /\ visited' = visited
    BY <1>4, WorkerFrame DEF coordVars, WaitUrls
  <2>2. CASE Handed' = Handed
    BY <2>1, <2>2
  <2>3. CASE WorkerFetch(w) /\ wtask[w] \in Task /\ Handed = Handed' \cup {wtask[w].url}
    <3>1. wtask[w].url \in URLs /\ wtask[w].depth \in Nat /\ fetched \in [URLs -> Seq(Nat)]
      BY <1>1, <2>3 DEF CountInv, TypeOK, WorkerTypeOK, Task
    <3>2. wtask[w].url = u => fetched'[u] = Append(fetched[u], wtask[w].depth)
      BY <2>3, <3>1 DEF WorkerFetch
    <3>3. wtask[w].url = u => fetched'[u] # <<>>
      BY <3>1, <3>2, AppendNotEmpty
    <3> QED BY <2>1, <2>3, <3>3
  <2> QED BY <1>1, <1>4, <2>2, <2>3, WorkerMoves
<1>5. CASE IndexerStep \/ Cancel \/ UNCHANGED vars
  <2>1. UNCHANGED <<taskCh, wpc, wtask, overflow, newTasks, visited>>
    BY <1>5, IndexerFrame DEF Cancel, vars, coordVars, chanVars, workerVars
  <2> QED BY <2>1, HandedFrame DEF WaitUrls
<1> QED BY <1>2, <1>3, <1>4, <1>5 DEF Next, Terminated

\* So no page that was marked visited is lost.
LEMMA NoTaskLostStep == BaseInv /\ NoTaskLost /\ [Next]_vars => NoTaskLost'
<1> SUFFICES ASSUME BaseInv, NoTaskLost, [Next]_vars, ~cancelled', ~urlLimitReached',
                    NEW CONSTANT u, u \in visited'
             PROVE  fetched'[u] # <<>> \/ u \in Outstanding'
  BY DEF NoTaskLost
<1>1. ~cancelled /\ ~urlLimitReached /\ ~LoopLimit
  BY CancelStable, LimitStable DEF BaseInv, CountInv, LoopLimit
<1>2. Outstanding = Handed \cup WaitUrls /\ Outstanding' = Handed' \cup WaitUrls'
  BY DEF Outstanding, Handed, WaitUrls, CheckUrls, Checking
<1>3. u \in URLs
  BY CountStep DEF BaseInv, CountInv, TypeOK, CoordTypeOK
<1>4. u \in visited => fetched[u] # <<>> \/ u \in Handed \cup WaitUrls
  BY <1>1, <1>2 DEF NoTaskLost
<1>5. fetched[u] # <<>> => fetched'[u] # <<>>
  BY <1>3, FetchGrows DEF BaseInv
<1> QED BY <1>1, <1>2, <1>3, <1>4, <1>5, OutstandingStep

\* While the crawl goes on, a URL that was marked visited has been fetched or
\* is in one of the queues or in the hands of a worker: none is forgotten,
\* whichever goroutine moves it.
THEOREM NoTaskIsLost == Spec => []NoTaskLost
<1>1. Init => NoTaskLost
  BY DEF Init, NoTaskLost
<1> QED BY <1>1, BaseAlways, NoTaskLostStep, PTL DEF Spec

-----------------------------------------------------------------------------
(* The visited set is ahead of everything *)

\* No step takes a mark away.
LEMMA VisitedGrows == ASSUME BaseInv, [Next]_vars PROVE visited \subseteq visited'
<1>1. CASE Start
  BY <1>1 DEF Start, BaseInv, Fresh
<1>2. CASE (StartStep \/ SelectStep) /\ ~Start
  BY <1>2, CoordMoves
<1>3. CASE (\E w \in Workers : WorkerStep(w)) \/ IndexerStep \/ Cancel \/ UNCHANGED vars
  BY <1>3, WorkerFrame, IndexerFrame DEF Cancel, vars, coordVars
<1> QED BY <1>1, <1>2, <1>3 DEF Next, Terminated

FetchedUrls == {u \in URLs : fetched[u] # <<>>}

\* Every task on its way was marked visited first and is within the depth
\* limit, and so is every page that was fetched.
Admitted ==
    /\ \A x \in Live : x.url \in visited /\ x.depth <= MaxDepth
    /\ FetchedUrls \subseteq visited

\* Only deduplicateAndMark lets a task through, and it marks it.
LEMMA AdmittedStep == BaseInv /\ Admitted /\ [Next]_vars => Admitted'
<1> SUFFICES ASSUME BaseInv, Admitted, [Next]_vars PROVE Admitted'
  OBVIOUS
<1>1. \A x \in Live : x.url \in visited /\ x.depth <= MaxDepth
  BY DEF Admitted
<1>2. CASE Start
  <2>1. Live' \subseteq Range(SeedQueue) /\ visited' = SeedSet /\ MaxDepth \in Nat
    BY <1>2, StartMoves, CrawlerAssumption DEF Start, Begin
  <2>2. FetchedUrls' = {}
    BY <1>2 DEF Start, BaseInv, Fresh, FetchedUrls
  <2> QED BY <2>1, <2>2, SeedQueueUrls DEF Admitted
<1>3. CASE (StartStep \/ SelectStep) /\ ~Start
  <2>1. FetchedUrls' = FetchedUrls /\ visited \subseteq visited'
    BY <1>3, CoordMoves DEF FetchedUrls
  <2>2. CASE Live' \subseteq Live
    BY <1>1, <2>1, <2>2 DEF Admitted
  <2>3. CASE DedupMark /\ Live' \subseteq Live \cup {Head(batch)}
    <3>1. batch \in Seq(Task) /\ batch # <<>> /\ MaxDepth \in Nat
      BY <2>3, CrawlerAssumption DEF DedupMark, BaseInv, CountInv, TypeOK, CoordTypeOK
    <3>2. Head(batch) \in Task
      BY <3>1
    <3>3. Head(batch).depth <= MaxDepth /\ Head(batch).url \in visited'
      BY <2>3, <3>1, <3>2 DEF DedupMark, Skipped, Task
    <3> QED BY <1>1, <2>1, <2>3, <3>3 DEF Admitted
  <2> QED BY <1>3, <2>2, <2>3, CoordMoves
<1>4. ASSUME NEW w \in Workers, WorkerStep(w) PROVE Admitted'
  <2>1. UNCHANGED <<pc, overflow, newTasks, visited>>
    BY <1>4, WorkerFrame DEF coordVars
  <2>2. Live' \subseteq Live
    BY <1>4, <2>1, WorkerMoves DEF BaseInv, Live, Waiting
  <2>3. CASE fetched' = fetched
    BY <1>1, <2>1, <2>2, <2>3 DEF Admitted, FetchedUrls
  <2>4. CASE WorkerFetch(w) /\ wtask[w] \in Sent
    <3>1. FetchedUrls' \subseteq FetchedUrls \cup {wtask[w].url}
      BY <2>4 DEF WorkerFetch, FetchedUrls, BaseInv, CountInv, TypeOK, WorkerTypeOK
    <3>2. wtask[w].url \in visited
      BY <1>1, <2>4 DEF Live
    <3> QED BY <1>1, <2>1, <2>2, <3>1, <3>2 DEF Admitted
  <2> QED BY <1>4, <2>3, <2>4, WorkerMoves DEF BaseInv
<1>5. CASE IndexerStep \/ Cancel \/ UNCHANGED vars
  <2>1. UNCHANGED <<pc, taskCh, wpc, wtask, overflow, newTasks, visited, fetched>>
    BY <1>5, IndexerFrame DEF Cancel, vars, coordVars, chanVars, workerVars
  <2>2. Live' = Live /\ FetchedUrls' = FetchedUrls
    BY <2>1, HandedFrame DEF Live, Waiting, FetchedUrls
  <2> QED BY <1>1, <2>1, <2>2 DEF Admitted
<1> QED BY <1>2, <1>3, <1>4, <1>5 DEF Next, Terminated

\* Admitted holds in every state of a crawl.
LEMMA AdmittedAlways == Spec => []Admitted
<1>1. Init => Admitted
  <2> SUFFICES ASSUME Init PROVE Admitted
    OBVIOUS
  <2>1. Live = {}
    BY EmptyQueue DEF Init, Live, Sent, Busy, LoopPCs
  <2> QED BY <2>1 DEF Init, Admitted, FetchedUrls
<1> QED BY <1>1, BaseAlways, AdmittedStep, PTL DEF Spec

-----------------------------------------------------------------------------
(* The URL limit *)

LimitNow == IF MaxURLs < Len(Seeds) THEN Len(Seeds) ELSE MaxURLs

\* The visited set stays within the limit, which is tested at every mark.
VisitedBounded ==
    IsFiniteSet(visited) /\ (MaxURLs > 0 => Cardinality(visited) <= LimitNow)

\* There are at most as many seed URLs as seeds.
LEMMA SeedSetBound == IsFiniteSet(SeedSet) /\ Cardinality(SeedSet) <= Len(Seeds)
<1>1. Len(Seeds) \in Nat /\ DOMAIN Seeds = 1..Len(Seeds)
  BY CrawlerAssumption
<1>2. IsFiniteSet(1..Len(Seeds)) /\ Cardinality(1..Len(Seeds)) = Len(Seeds)
  <2>1. ASSUME NEW n \in Nat PROVE IsFiniteSet(1..n) /\ Cardinality(1..n) = n
    <3>1. 1 \in Int /\ n \in Int
      OBVIOUS
    <3>2. IsFiniteSet(1..n) /\ Cardinality(1..n) = IF 1 > n THEN 0 ELSE n - 1 + 1
      BY <3>1, FS_Interval
    <3> QED BY <3>2
  <2> QED BY <1>1, <2>1
<1>3. SeedSet = {Seeds[i] : i \in 1..Len(Seeds)}
  BY <1>1 DEF SeedSet, Range
<1>4. Seeds \in [1..Len(Seeds) -> SeedSet] /\ \A u \in SeedSet : \E i \in 1..Len(Seeds) : Seeds[i] = u
  BY <1>1, <1>3, CrawlerAssumption
<1>5. Seeds \in Surjection(1..Len(Seeds), SeedSet)
  BY <1>4 DEF Surjection
<1>6. IsFiniteSet(SeedSet) /\ Cardinality(SeedSet) <= Cardinality(1..Len(Seeds))
  BY <1>2, <1>5, FS_Surjection
<1> QED BY <1>2, <1>6

\* Only Start and deduplicateAndMark add to the visited set.
LEMMA VisitedBoundedStep == BaseInv /\ VisitedBounded /\ [Next]_vars => VisitedBounded'
<1> SUFFICES ASSUME BaseInv, VisitedBounded, [Next]_vars PROVE VisitedBounded'
  OBVIOUS
<1>1. Len(Seeds) \in Nat /\ MaxURLs \in Nat /\ LimitNow \in Nat /\ MaxURLs <= LimitNow /\ Len(Seeds) <= LimitNow
  BY CrawlerAssumption DEF LimitNow
<1>2. IsFiniteSet(visited) /\ Cardinality(visited) \in Nat
  BY FS_CardinalityType DEF VisitedBounded
<1>3. CASE visited' = visited
  BY <1>3 DEF VisitedBounded
<1>4. CASE Start
  <2>1. visited' = SeedSet
    BY <1>4 DEF Start, Begin
  <2>2. IsFiniteSet(SeedSet) /\ Cardinality(SeedSet) <= Len(Seeds) /\ Cardinality(SeedSet) \in Nat
    BY SeedSetBound, FS_CardinalityType
  <2>3. Cardinality(SeedSet) <= LimitNow
    BY <1>1, <2>2
  <2> QED BY <2>1, <2>2, <2>3 DEF VisitedBounded
<1>5. CASE DedupMark /\ Head(batch).url \notin visited
  <2>1. visited' = visited \cup {Head(batch).url} /\ (MaxURLs > 0 => ~(Cardinality(visited) >= MaxURLs))
    BY <1>5 DEF DedupMark, VisitedFull
  <2>2. IsFiniteSet(visited') /\ Cardinality(visited') = Cardinality(visited) + 1
    BY <1>2, <1>5, <2>1, FS_AddElement
  <2> QED BY <1>1, <1>2, <2>1, <2>2 DEF VisitedBounded
<1>6. CASE (StartStep \/ SelectStep) /\ ~Start
  BY <1>3, <1>5, <1>6, CoordMoves
<1>7. ASSUME NEW w \in Workers, WorkerStep(w) PROVE visited' = visited
  BY <1>7, WorkerFrame DEF coordVars
<1>8. CASE IndexerStep \/ Cancel \/ UNCHANGED vars
  <2>1. visited' = visited
    BY <1>8, IndexerFrame DEF Cancel, vars, coordVars
  <2> QED BY <1>3, <2>1
<1> QED BY <1>3, <1>4, <1>6, <1>7, <1>8 DEF Next, Terminated

\* The visited set is finite and bounded in every state of a crawl.
LEMMA VisitedBoundedAlways == Spec => []VisitedBounded
<1>1. Init => VisitedBounded
  <2> SUFFICES ASSUME Init PROVE VisitedBounded
    OBVIOUS
  <2>1. visited = {} /\ IsFiniteSet({}) /\ Cardinality({}) = 0 /\ LimitNow \in Nat
    BY FS_EmptySet, CrawlerAssumption DEF Init, LimitNow
  <2> QED BY <2>1 DEF VisitedBounded
<1> QED BY <1>1, BaseAlways, VisitedBoundedStep, PTL DEF Spec

\* MaxURLs bounds the pages fetched, although what deduplicateAndMark compares
\* with it is the size of the visited set: every fetched page is in that set.
THEOREM URLLimitIsRespected == Spec => []URLLimitRespected
<1>1. VisitedBounded /\ Admitted => URLLimitRespected
  <2> SUFFICES ASSUME VisitedBounded, Admitted, MaxURLs > 0
               PROVE  Cardinality(FetchedUrls) <= LimitNow
    BY DEF URLLimitRespected, FetchedUrls, LimitNow
  <2>1. IsFiniteSet(visited) /\ FetchedUrls \subseteq visited
    BY DEF VisitedBounded, Admitted
  <2>2. IsFiniteSet(FetchedUrls) /\ Cardinality(FetchedUrls) <= Cardinality(visited)
    BY <2>1, FS_Subset
  <2>3. Cardinality(FetchedUrls) \in Nat /\ Cardinality(visited) \in Nat /\ LimitNow \in Nat
    BY <2>1, <2>2, FS_CardinalityType, CrawlerAssumption DEF LimitNow
  <2> QED BY <2>2, <2>3 DEF VisitedBounded
<1> QED BY <1>1, AdmittedAlways, VisitedBoundedAlways, PTL

-----------------------------------------------------------------------------
(* No page is fetched twice *)

\* A URL is in one place: in one of the queues, with one worker, or fetched.
Exclusive ==
    /\ Apart /\ Handed \cap FetchedUrls = {}
    /\ pc \in LoopPCs =>
        /\ Distinct(overflow) /\ Distinct(newTasks) /\ Urls(overflow) \cap Urls(newTasks) = {}
        /\ WaitUrls \cap (Handed \cup FetchedUrls) = {}
    /\ AtMostOnce

\* The hypothesis under which it holds: Config.Seeds() has no repetition.
DistinctSeeds == \A i, j \in DOMAIN Seeds : Seeds[i] = Seeds[j] => i = j

\* Distinct seeds are distinct tasks.
LEMMA SeedsDistinct == DistinctSeeds => Distinct(SeedQueue)
BY DEF DistinctSeeds, Distinct, SeedQueue

\* The coordinator moves a task from one place to the next and adds only tasks
\* whose URL was not visited, hence nowhere.
LEMMA ExclusiveCoord ==
    ASSUME BaseInv, Admitted, Exclusive, StartStep \/ SelectStep, ~Start
    PROVE  Exclusive'
<1> USE DEF LoopPCs
<1>1. /\ overflow \in Seq(Task) /\ newTasks \in Seq(Task) /\ batch \in Seq(Task) /\ CountInv
      /\ Apart /\ Handed \cap FetchedUrls = {} /\ AtMostOnce
  BY DEF BaseInv, CountInv, TypeOK, CoordTypeOK, Exclusive
<1>2. FetchedUrls' = FetchedUrls /\ AtMostOnce'
  BY <1>1, CoordFrame DEF FetchedUrls, AtMostOnce
<1>3. ASSUME pc \in LoopPCs
      PROVE  /\ Distinct(overflow) /\ Distinct(newTasks) /\ Urls(overflow) \cap Urls(newTasks) = {}
             /\ (Urls(overflow) \cup Urls(newTasks)) \cap (Handed \cup FetchedUrls) = {}
  BY <1>3 DEF Exclusive, WaitUrls
<1>4. CASE LoopExit \/ LoopSelect \/ LimitRecv \/ PersistTick \/ DedupSkip \/ DedupBreak \/ BeginEnqueue \/ EnqueueDone
  <2>1. UNCHANGED <<overflow, newTasks, taskCh, wpc, wtask>> /\ pc \in LoopPCs
    BY <1>4 DEF LoopExit, LoopSelect, LimitRecv, PersistTick, DedupSkip, DedupBreak, BeginEnqueue,
       EnqueueDone, chanVars, workerVars
  <2> QED BY <1>1, <1>2, <1>3, <2>1, HandedFrame DEF Exclusive, WaitUrls
<1>5. CASE CtxDone \/ SaveQueue \/ SaveVisited \/ FinishFlush \/ FinishClear \/ CloseResults \/ Finish \/ DrainRecv
  <2>1. UNCHANGED <<taskCh, wpc, wtask>> /\ pc' \notin LoopPCs
    BY <1>5 DEF CtxDone, SaveQueue, SaveVisited, FinishFlush, FinishClear, CloseResults, Finish,
       DrainRecv, chanVars, workerVars
  <2> QED BY <1>1, <1>2, <2>1, HandedFrame DEF Exclusive
<1>6. CASE LoopLimit \/ RecvBatch
  <2>1. /\ UNCHANGED <<taskCh, wpc, wtask>> /\ pc \in {"top", "overflow", "idle"}
        /\ overflow' = overflow \/ overflow' = <<>>
        /\ newTasks' = newTasks \/ newTasks' = <<>>
    BY <1>6 DEF LoopLimit, RecvBatch, chanVars, workerVars
  <2>2. /\ Distinct(overflow') /\ Urls(overflow') \subseteq Urls(overflow)
        /\ Distinct(newTasks') /\ Urls(newTasks') \subseteq Urls(newTasks)
    BY <1>3, <2>1, EmptyQueue
  <2> QED BY <1>1, <1>2, <1>3, <2>1, <2>2, HandedFrame DEF Exclusive, WaitUrls
<1>7. CASE SendOverflow
  <2>1. /\ overflow # <<>> /\ Send(Head(overflow)) /\ overflow' = Tail(overflow) /\ pc = "overflow"
        /\ UNCHANGED newTasks
    BY <1>7 DEF SendOverflow, BaseInv, CountInv, OverflowAtSelect
  <2>2. /\ Head(overflow) \in Task
        /\ Urls(overflow) = Urls(overflow') \cup {Head(overflow).url}
        /\ Distinct(overflow') /\ Head(overflow).url \notin Urls(overflow')
    BY <1>1, <1>3, <2>1, QueueTail
  <2>3. Handed' = Handed \cup {Head(overflow).url} /\ Apart'
    BY <1>1, <1>3, <2>1, <2>2, SendMoves
  <2> QED BY <1>1, <1>2, <1>3, <2>1, <2>2, <2>3 DEF Exclusive, WaitUrls
<1>8. CASE EnqueueSend
  <2>1. /\ newTasks # <<>> /\ Send(Head(newTasks)) /\ newTasks' = Tail(newTasks) /\ pc = "enqueue"
        /\ UNCHANGED overflow
    BY <1>8 DEF EnqueueSend
  <2>2. /\ Head(newTasks) \in Task
        /\ Urls(newTasks) = Urls(newTasks') \cup {Head(newTasks).url}
        /\ Distinct(newTasks') /\ Head(newTasks).url \notin Urls(newTasks')
    BY <1>1, <1>3, <2>1, QueueTail
  <2>3. Handed' = Handed \cup {Head(newTasks).url} /\ Apart'
    BY <1>1, <1>3, <2>1, <2>2, SendMoves
  <2> QED BY <1>1, <1>2, <1>3, <2>1, <2>2, <2>3 DEF Exclusive, WaitUrls
<1>9. CASE DedupMark
  <2> DEFINE t == Head(batch)
  <2>1. /\ UNCHANGED <<overflow, taskCh, wpc, wtask>> /\ pc = "dedup" /\ batch # <<>>
        /\ newTasks' = Append(newTasks, t) /\ t.url \notin visited
    BY <1>9 DEF DedupMark, chanVars, workerVars, Skipped
  <2>2. t \in Task
    BY <1>1, <2>1
  <2>3. t.url \notin Handed \cup WaitUrls \cup FetchedUrls
    <3>1. \A x \in Range(taskCh) \cup Range(overflow) \cup Range(newTasks) : x.url \in visited
      BY <2>1 DEF Admitted, Live, Sent, Waiting
    <3>2. Urls(taskCh) \cup Urls(overflow) \cup Urls(newTasks) \subseteq visited
      BY <3>1, UrlsOfRange
    <3>3. CheckUrls \subseteq visited
      BY DEF Admitted, Live, Sent, CheckUrls, Checking, Busy
    <3> QED BY <2>1, <3>2, <3>3 DEF Admitted, Handed, WaitUrls
  <2> HIDE DEF t
  <2>4. Urls(newTasks') = Urls(newTasks) \cup {t.url} /\ Distinct(newTasks')
    BY <1>1, <1>3, <2>1, <2>2, <2>3, QueueAppend DEF WaitUrls
  <2> QED BY <1>1, <1>2, <1>3, <2>1, <2>3, <2>4, HandedFrame DEF Exclusive, WaitUrls
<1>10. CASE AppendNew
  <2>1. /\ UNCHANGED <<taskCh, wpc, wtask>> /\ pc = "dedup"
        /\ newTasks' = <<>> /\ overflow' = overflow \o newTasks
    BY <1>10 DEF AppendNew, chanVars, workerVars
  <2>2. Urls(overflow') = Urls(overflow) \cup Urls(newTasks) /\ Distinct(overflow')
    BY <1>1, <1>3, <2>1, QueueConcat
  <2>3. Urls(newTasks') = {} /\ Distinct(newTasks')
    BY <2>1, EmptyQueue
  <2> QED BY <1>1, <1>2, <1>3, <2>1, <2>2, <2>3, HandedFrame DEF Exclusive, WaitUrls
<1>11. CASE EnqueueOverflow
  <2>1. /\ UNCHANGED <<taskCh, wpc, wtask>> /\ pc = "enqueue" /\ newTasks # <<>>
        /\ newTasks' = Tail(newTasks) /\ overflow' = Append(overflow, Head(newTasks))
    BY <1>11 DEF EnqueueOverflow, chanVars, workerVars
  <2>2. /\ Head(newTasks) \in Task
        /\ Urls(newTasks) = Urls(newTasks') \cup {Head(newTasks).url}
        /\ Distinct(newTasks') /\ Head(newTasks).url \notin Urls(newTasks')
    BY <1>1, <1>3, <2>1, QueueTail
  <2>3. Urls(overflow') = Urls(overflow) \cup {Head(newTasks).url} /\ Distinct(overflow')
    BY <1>1, <1>3, <2>1, <2>2, QueueAppend
  <2> QED BY <1>1, <1>2, <1>3, <2>1, <2>2, <2>3, HandedFrame DEF Exclusive, WaitUrls
<1> QED BY <1>4, <1>5, <1>6, <1>7, <1>8, <1>9, <1>10, <1>11 DEF StartStep, SelectStep

\* Every step keeps each URL in one place.
LEMMA ExclusiveStep ==
    DistinctSeeds /\ BaseInv /\ Admitted /\ Exclusive /\ [Next]_vars => Exclusive'
<1> SUFFICES ASSUME DistinctSeeds, BaseInv, Admitted, Exclusive, [Next]_vars PROVE Exclusive'
  OBVIOUS
<1>1. CASE Start
  <2>1. /\ Apart' /\ Distinct(overflow') /\ Distinct(newTasks')
        /\ Urls(overflow') \cap Urls(newTasks') = {} /\ Handed' \cap WaitUrls' = {}
    BY <1>1, SeedsDistinct, StartMoves
  <2>2. FetchedUrls' = {} /\ AtMostOnce'
    BY <1>1 DEF Start, BaseInv, Fresh, FetchedUrls, AtMostOnce
  <2> QED BY <2>1, <2>2 DEF Exclusive
<1>2. CASE (StartStep \/ SelectStep) /\ ~Start
  BY <1>2, ExclusiveCoord
<1>3. ASSUME NEW w \in Workers, WorkerStep(w) PROVE Exclusive'
  <2>1. UNCHANGED <<pc, overflow, newTasks>> /\ WaitUrls' = WaitUrls
    BY <1>3, WorkerFrame DEF coordVars, WaitUrls
  <2>2. Apart'
    BY <1>3, WorkerMoves DEF BaseInv, Exclusive
  <2>3. CASE Handed' \subseteq Handed /\ fetched' = fetched
    <3>1. FetchedUrls' = FetchedUrls /\ AtMostOnce'
      BY <2>3 DEF FetchedUrls, AtMostOnce, Exclusive
    <3> QED BY <2>1, <2>2, <2>3, <3>1 DEF Exclusive
  <2>4. CASE /\ WorkerFetch(w) /\ wtask[w] \in Task
             /\ Handed = Handed' \cup {wtask[w].url} /\ wtask[w].url \notin Handed'
    <3> DEFINE u == wtask[w].url
    <3>1. fetched \in [URLs -> Seq(Nat)] /\ u \in URLs /\ wtask[w].depth \in Nat
      BY <2>4 DEF BaseInv, CountInv, TypeOK, WorkerTypeOK, Task
    <3>2. fetched' = [fetched EXCEPT ![u] = Append(@, wtask[w].depth)]
      BY <2>4 DEF WorkerFetch
    <3>3. fetched[u] = <<>>
      BY <2>4, <3>1 DEF Exclusive, FetchedUrls
    <3>4. fetched'[u] = <<wtask[w].depth>> /\ \A v \in URLs : v # u => fetched'[v] = fetched[v]
      BY <3>1, <3>2, <3>3
    <3> HIDE DEF u
    <3>5. Len(fetched'[u]) = 1 /\ fetched'[u] # <<>>
      <4>1. \A d : Len(<<d>>) = 1 /\ <<d>> # <<>>
        OBVIOUS
      <4> QED BY <3>4, <4>1
    <3>6. AtMostOnce'
      <4>1. \A v \in URLs : Len(fetched[v]) <= 1
        BY DEF Exclusive, AtMostOnce
      <4>2. ASSUME NEW v \in URLs PROVE Len(fetched'[v]) <= 1
        <5>1. CASE v = u
          <6>1. Len(fetched'[v]) = 1
            BY <3>5, <5>1
          <6> QED BY <6>1
        <5>2. CASE v # u
          <6>1. fetched'[v] = fetched[v]
            BY <3>4, <5>2
          <6> QED BY <4>1, <6>1
        <5> QED BY <5>1, <5>2
      <4> QED BY <4>2 DEF AtMostOnce
    <3>7. FetchedUrls' = FetchedUrls \cup {u}
      <4>1. ASSUME NEW v \in URLs PROVE v \in FetchedUrls' <=> v \in FetchedUrls \cup {u}
        BY <3>4, <3>5 DEF FetchedUrls
      <4>2. u \in URLs
        BY <3>1
      <4> QED BY <4>1, <4>2 DEF FetchedUrls
    <3> QED BY <2>1, <2>2, <2>4, <3>6, <3>7 DEF Exclusive, u
  <2> QED BY <1>3, <2>3, <2>4, WorkerMoves DEF BaseInv, Exclusive
<1>4. CASE IndexerStep \/ Cancel \/ UNCHANGED vars
  <2>1. UNCHANGED <<pc, taskCh, wpc, wtask, overflow, newTasks, fetched>>
    BY <1>4, IndexerFrame DEF Cancel, vars, coordVars, chanVars, workerVars
  <2>2. WaitUrls' = WaitUrls /\ FetchedUrls' = FetchedUrls /\ (AtMostOnce => AtMostOnce')
    BY <2>1 DEF WaitUrls, FetchedUrls, AtMostOnce
  <2> QED BY <2>1, <2>2, HandedFrame DEF Exclusive
<1> QED BY <1>1, <1>2, <1>3, <1>4 DEF Next, Terminated

\* Exclusive holds in every state of a crawl with distinct seeds.
LEMMA ExclusiveAlways == ASSUME DistinctSeeds PROVE Spec => []Exclusive
<1>1. Init => Exclusive
  <2> SUFFICES ASSUME Init PROVE Exclusive
    OBVIOUS
  <2>1. Checking = {} /\ CheckUrls = {} /\ FetchedUrls = {} /\ pc \notin LoopPCs /\ AtMostOnce
    BY DEF Init, Checking, CheckUrls, FetchedUrls, LoopPCs, AtMostOnce
  <2> QED BY <2>1, EmptyQueue DEF Init, Exclusive, Apart, Handed
<1>2. BaseInv /\ Admitted /\ Exclusive /\ [Next]_vars => Exclusive'
  BY ExclusiveStep
<1> QED BY <1>1, <1>2, BaseAlways, AdmittedAlways, PTL DEF Spec

\* With distinct seeds no page is fetched twice in one crawl, whatever the
\* number of workers and however often a page is linked.
THEOREM FetchedAtMostOnce == ASSUME DistinctSeeds PROVE Spec => []AtMostOnce
<1>1. Exclusive => AtMostOnce
  BY DEF Exclusive
<1> QED BY <1>1, ExclusiveAlways, PTL

=============================================================================
