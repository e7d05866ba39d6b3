------------------------- MODULE CrawlerEndProofs --------------------------
(***************************************************************************)
(* What a crawl leaves behind: the dashboard's queue depth, the saved      *)
(* visited set, the tasks a drain collects, and the postings of the pages. *)
(***************************************************************************)
EXTENDS CrawlerProofs

-----------------------------------------------------------------------------
(* The queue depth *)

\* The metric is set by the last thing the coordinator does before it goes
\* round its loop, and stays right until it acts again.
DepthInv == pc \in {"top", "overflow", "idle"} => metrics.QueueDepth = inFlight + Len(overflow)

\* What updateQueueMetrics stores.
LEMMA QueueMetricsDepth ==
    ASSUME NEW m \in Metrics, NEW n, NEW o
    PROVE  WithQueueMetrics(m, n, o).QueueDepth = n + Len(o)
BY DEF WithQueueMetrics, Metrics

\* Every way back to the loop condition passes updateQueueMetrics or leaves
\* the counter and the overflow as they were.
LEMMA DepthStep == BaseInv /\ DepthInv /\ [Next]_vars => DepthInv'
<1> SUFFICES ASSUME BaseInv, DepthInv, [Next]_vars PROVE DepthInv'
  OBVIOUS
<1>1. metrics \in Metrics
  BY DEF BaseInv, CountInv, TypeOK
<1>2. CASE Start
  <2> DEFINE e == IF Len(SeedQueue) < QueueSize THEN Len(SeedQueue) ELSE QueueSize
  <2>1. SeedQueue \in Seq(Task) /\ Len(SeedQueue) \in Nat /\ QueueSize \in Nat
    BY SeedQueueType, CrawlerAssumption
  <2>2. e \in 0..Len(SeedQueue)
    BY <2>1
  <2>3. inFlight' = e /\ overflow' = SubSeq(SeedQueue, e + 1, Len(SeedQueue))
    BY <1>2 DEF Start, Begin
  <2>4. metrics'.QueueDepth = Len(SeedQueue)
    BY <1>1, <1>2 DEF Start, Metrics
  <2> HIDE DEF e
  <2>5. Len(overflow') = Len(SeedQueue) - e
    BY <2>1, <2>2, <2>3, QueueSplit
  <2> QED BY <2>1, <2>2, <2>3, <2>4, <2>5 DEF DepthInv
<1>3. CASE LimitRecv \/ SendOverflow \/ AppendNew \/ EnqueueDone
  <2>1. metrics' = WithQueueMetrics(metrics, inFlight', overflow')
    BY <1>3 DEF LimitRecv, SendOverflow, AppendNew, EnqueueDone
  <2> QED BY <1>1, <2>1, QueueMetricsDepth DEF DepthInv
<1>4. CASE LoopSelect \/ PersistTick
  BY <1>4 DEF LoopSelect, PersistTick, DepthInv
<1>5. CASE \/ LoopExit \/ LoopLimit \/ RecvBatch \/ CtxDone \/ DedupSkip \/ DedupBreak \/ DedupMark \/ BeginEnqueue
           \/ EnqueueSend \/ EnqueueOverflow \/ DrainRecv \/ SaveQueue \/ SaveVisited \/ FinishFlush
           \/ FinishClear \/ CloseResults \/ Finish
  BY <1>5 DEF LoopExit, LoopLimit, RecvBatch, CtxDone, DedupSkip, DedupBreak, DedupMark, BeginEnqueue,
     EnqueueSend, EnqueueOverflow, DrainRecv, SaveQueue, SaveVisited, FinishFlush, FinishClear,
     CloseResults, Finish, DepthInv
<1>6. ASSUME NEW w \in Workers, WorkerStep(w) PROVE DepthInv'
  BY <1>6, WorkerFrame DEF coordVars, DepthInv
<1>7. CASE IndexerStep
  <2>1. UNCHANGED <<pc, inFlight, overflow>>
    BY <1>7, IndexerFrame DEF coordVars
  <2>2. metrics'.QueueDepth = metrics.QueueDepth
    <3>1. CASE IndexPage
      <4>1. \/ metrics' = [metrics EXCEPT !.IndexedDocs = @ + 1]
            \/ metrics' = [metrics EXCEPT !.IndexedDocs = @ + 1, !.PagesProcessed = @ + 1]
        BY <3>1 DEF IndexPage
      <4> QED BY <1>1, <4>1 DEF Metrics
    <3>2. CASE ~IndexPage
      BY <1>1, <1>7, <3>2 DEF IndexerStep, IndexError, IndexTick, IndexClosed, IndexSave, IndexAppend, Metrics
    <3> QED BY <3>1, <3>2
  <2> QED BY <2>1, <2>2 DEF DepthInv
<1>8. CASE Cancel \/ UNCHANGED vars
  BY <1>8 DEF Cancel, vars, coordVars, DepthInv
<1> QED BY <1>2, <1>3, <1>4, <1>5, <1>6, <1>7, <1>8 DEF Next, Terminated, StartStep, SelectStep

\* Whenever the coordinator waits in a select, the queue depth on the
\* dashboard is the number of tasks in flight and in overflow.
THEOREM QueueDepthIsTruthful == Spec => []QueueDepthTruthful
<1>1. Init => DepthInv
  BY DEF Init, DepthInv
<1>2. DepthInv => QueueDepthTruthful
  BY DEF DepthInv, QueueDepthTruthful
<1> QED BY <1>1, <1>2, BaseAlways, DepthStep, PTL DEF Spec

-----------------------------------------------------------------------------
(* The saved visited set *)

\* What is marked is in storage or waits for the next flush, never neither,
\* and nothing waits once the coordinator has flushed for the last time.
SavedInv ==
    ~DBMayFail =>
        /\ pc # "start" => dbVisited \cup newVisited = visited \ SeedSet /\ SeedSet \subseteq visited
        /\ pc \in {"clearQueue", "wait", "resultsClosed", "done"} => newVisited = {}

\* flushVisited moves the marked URLs to storage.
LEMMA FlushMoves ==
    ASSUME ~DBMayFail, flushVisited
    PROVE  dbVisited' \cup newVisited' = dbVisited \cup newVisited /\ newVisited' = {}
BY DEF flushVisited, AddSessionVisitedURLs, Tx

\* Every mark goes to both sets, every flush moves them, nothing else touches them.
LEMMA SavedStep == BaseInv /\ SavedInv /\ [Next]_vars => SavedInv'
<1> SUFFICES ASSUME BaseInv, SavedInv, [Next]_vars, ~DBMayFail PROVE SavedInv'
  BY DEF SavedInv
<1>1. CASE Start
  <2>1. visited' = SeedSet /\ newVisited' = {} /\ pc' = "top" /\ dbVisited' = dbVisited /\ dbVisited = {}
    BY <1>1 DEF Start, Begin, BaseInv, Fresh, dbVars
  <2> QED BY <2>1 DEF SavedInv
<1>2. CASE PersistTick \/ SaveVisited \/ FinishFlush
  <2>1. flushVisited /\ pc # "start" /\ visited' = visited
    BY <1>2 DEF PersistTick, SaveVisited, FinishFlush
  <2> QED BY <2>1, FlushMoves DEF SavedInv
<1>3. CASE DedupMark
  <2>1. /\ visited' = visited \cup {Head(batch).url} /\ newVisited' = newVisited \cup {Head(batch).url}
        /\ dbVisited' = dbVisited /\ pc = "dedup" /\ pc' = "dedup" /\ Head(batch).url \notin visited
    BY <1>3 DEF DedupMark, Skipped, dbVars
  <2> QED BY <2>1 DEF SavedInv
<1>4. CASE \/ LoopExit \/ LoopLimit \/ LoopSelect \/ RecvBatch \/ CtxDone \/ DedupSkip \/ DedupBreak \/ BeginEnqueue
           \/ LimitRecv \/ SendOverflow \/ AppendNew \/ EnqueueDone \/ EnqueueSend \/ EnqueueOverflow
           \/ DrainRecv \/ SaveQueue \/ FinishClear \/ CloseResults \/ Finish
  <2>1. /\ UNCHANGED <<visited, newVisited, dbVisited>> /\ pc # "start"
        /\ pc' \in {"clearQueue", "wait", "resultsClosed", "done"}
              => pc \in {"clearQueue", "wait", "resultsClosed", "done"}
    BY <1>4 DEF LoopExit, LoopLimit, LoopSelect, RecvBatch, CtxDone, DedupSkip, DedupBreak, BeginEnqueue,
       LimitRecv, SendOverflow, AppendNew, EnqueueDone, EnqueueSend, EnqueueOverflow, DrainRecv,
       SaveQueue, FinishClear, CloseResults, Finish, dbVars
  <2> QED BY <2>1 DEF SavedInv
<1>5. CASE (\E w \in Workers : WorkerStep(w)) \/ IndexerStep \/ Cancel \/ UNCHANGED vars
  <2>1. UNCHANGED <<pc, visited, newVisited, dbVisited>>
    BY <1>5, WorkerFrame, IndexerFrame DEF Cancel, vars, coordVars, dbVars
  <2> QED BY <2>1 DEF SavedInv
<1> QED BY <1>1, <1>2, <1>3, <1>4, <1>5 DEF Next, Terminated, StartStep, SelectStep

\* When Start returns, and no write failed, session_visited_urls holds exactly
\* what the crawl marked beyond its seeds: a resume knows every one of them.
THEOREM VisitedIsSaved == Spec => []VisitedSaved
<1>1. Init => SavedInv
  BY DEF Init, SavedInv
<1>2. SavedInv => VisitedSaved
  BY DEF SavedInv, VisitedSaved
<1> QED BY <1>1, <1>2, BaseAlways, SavedStep, PTL DEF Spec

-----------------------------------------------------------------------------
(* The drain *)

\* The answers that wait, as one set of tasks.
Answered == UNION {Range(discoveredCh[i]) : i \in DOMAIN discoveredCh}
ToAnswer == UNION {Range(Answer(w)) : w \in Busy}

\* The parts of what drainInFlight may come to save.
LEMMA DrainableParts ==
    /\ Drainable = Range(overflow) \cup Range(taskCh) \cup Answered \cup ToAnswer
                       \cup {wtask[w] : w \in Checking}
    /\ Drainable' = Range(overflow') \cup Range(taskCh') \cup Answered' \cup ToAnswer'
                       \cup {wtask[w] : w \in Checking}'
BY DEF Drainable, Answered, ToAnswer, Checking

\* The answers of a queue of answers: one goes, ...
LEMMA AnsweredTail ==
    ASSUME discoveredCh \in Seq(Seq(Task)), discoveredCh # <<>>, discoveredCh' = Tail(discoveredCh)
    PROVE  Answered = Answered' \cup Range(Head(discoveredCh))
<1> DEFINE n == Len(discoveredCh)
<1>1. n \in Nat /\ n > 0 /\ DOMAIN discoveredCh = 1..n /\ Head(discoveredCh) = discoveredCh[1]
  OBVIOUS
<1>2. DOMAIN discoveredCh' = 1..(n - 1) /\ \A i \in 1..(n - 1) : discoveredCh'[i] = discoveredCh[i + 1]
  BY <1>1, HeadTailProperties
<1> HIDE DEF n
<1>3. \A i \in 1..n : i = 1 \/ (i - 1 \in 1..(n - 1) /\ discoveredCh'[i - 1] = discoveredCh[i])
  BY <1>1, <1>2
<1>4. ASSUME NEW x \in Answered PROVE x \in Answered' \cup Range(Head(discoveredCh))
  <2>1. PICK i \in 1..n : x \in Range(discoveredCh[i])
    BY <1>1 DEF Answered
  <2> QED BY <1>1, <1>2, <1>3, <2>1 DEF Answered
<1>5. ASSUME NEW x \in Answered' PROVE x \in Answered
  <2>1. PICK i \in 1..(n - 1) : x \in Range(discoveredCh[i + 1])
    BY <1>2 DEF Answered
  <2>2. i + 1 \in 1..n
    BY <1>1
  <2> QED BY <1>1, <2>1, <2>2 DEF Answered
<1>6. Range(Head(discoveredCh)) \subseteq Answered
  BY <1>1 DEF Answered
<1> QED BY <1>4, <1>5, <1>6

\* ... or one comes.
LEMMA AnsweredAppend ==
    ASSUME discoveredCh \in Seq(Seq(Task)), NEW a \in Seq(Task), discoveredCh' = Append(discoveredCh, a)
    PROVE  Answered' = Answered \cup Range(a)
<1> DEFINE n == Len(discoveredCh)
<1>1. n \in Nat /\ DOMAIN discoveredCh = 1..n
  OBVIOUS
<1>2. /\ DOMAIN discoveredCh' = 1..(n + 1) /\ discoveredCh'[n + 1] = a
      /\ \A i \in 1..n : discoveredCh'[i] = discoveredCh[i]
  BY <1>1, AppendProperties
<1> HIDE DEF n
<1>3. 1..(n + 1) = 1..n \cup {n + 1}
  BY <1>1
<1> QED BY <1>1, <1>2, <1>3 DEF Answered

\* What a busy worker answers is a sequence of tasks.
LEMMA AnswerType ==
    ASSUME CountInv, NEW w \in Busy
    PROVE  Answer(w) \in Seq(Task)
<1>1. wtask[w] \in Task
  BY DEF CountInv, HeldTasks
<1> QED BY <1>1, LinkTasksType, EmptySeq DEF Answer

\* The workers leave everything drainable, apart from what they fetch: a task
\* is taken, given back, or answered with its links.
LEMMA DrainWorker ==
    ASSUME CountInv, NEW w \in Workers, WorkerStep(w)
    PROVE  \/ Drainable \subseteq Drainable'
           \/ WorkerFetch(w) /\ Drainable \subseteq Drainable' \cup {wtask[w]}
<1>1. /\ taskCh \in Seq(Task) /\ wpc \in [Workers -> WorkerPCs] /\ wtask \in [Workers -> Task \cup {NoTask}]
      /\ discoveredCh \in Seq(Seq(Task))
  BY DEF CountInv, TypeOK, ChanTypeOK, WorkerTypeOK
<1>2. overflow' = overflow
  BY WorkerFrame DEF coordVars
<1>3. \A v \in Workers : v # w => /\ wpc'[v] = wpc[v] /\ wtask'[v] = wtask[v]
                                  /\ (v \in Busy <=> v \in Busy') /\ (v \in Checking <=> v \in Checking')
  BY <1>1 DEF WorkerStep, WorkerRecv, WorkerExit, WorkerGiveBack, WorkerFetch, WorkerResult, WorkerAnswer,
     Busy, Checking
<1>4. \A v \in Workers : v # w => Answer(v)' = Answer(v)
  BY <1>3 DEF Answer
<1>5. ASSUME NEW x \in ToAnswer, x \notin Range(Answer(w)) \/ w \notin Busy PROVE x \in ToAnswer'
  <2>1. PICK v \in Busy : x \in Range(Answer(v))
    BY <1>5 DEF ToAnswer
  <2>2. v # w /\ v \in Workers
    BY <1>5, <2>1 DEF Busy
  <2> QED BY <1>3, <1>4, <2>1, <2>2 DEF ToAnswer
<1>6. \A v \in Checking : v # w => wtask[v] \in {wtask[y] : y \in Checking}'
  BY <1>3 DEF Checking
<1>7. CASE WorkerRecv(w)
  <2>1. /\ taskCh # <<>> /\ taskCh' = Tail(taskCh) /\ wpc[w] = "recv" /\ wpc'[w] = "check"
        /\ wtask'[w] = Head(taskCh) /\ discoveredCh' = discoveredCh
    BY <1>1, <1>7 DEF WorkerRecv
  <2>2. Range(taskCh) = Range(taskCh') \cup {wtask'[w]} /\ w \in Checking'
    BY <1>1, <2>1, QueueTail DEF Checking
  <2>3. ToAnswer \subseteq ToAnswer' /\ {wtask[v] : v \in Checking} \subseteq {wtask[v] : v \in Checking}'
    BY <1>5, <1>6, <2>1 DEF Busy, Checking
  <2>4. wtask'[w] \in {wtask[v] : v \in Checking}' /\ Answered' = Answered
    BY <2>1, <2>2 DEF Answered
  <2> QED BY <1>2, <2>2, <2>3, <2>4, DrainableParts
<1>8. CASE WorkerExit(w)
  <2>1. wpc[w] = "recv" /\ UNCHANGED <<taskCh, discoveredCh>>
    BY <1>8 DEF WorkerExit, chanVars
  <2>2. ToAnswer \subseteq ToAnswer' /\ {wtask[v] : v \in Checking} \subseteq {wtask[v] : v \in Checking}'
    BY <1>5, <1>6, <2>1 DEF Busy, Checking
  <2> QED BY <1>2, <2>1, <2>2, DrainableParts DEF Answered
<1>9. CASE WorkerGiveBack(w)
  <2>1. wpc[w] = "check" /\ wpc'[w] = "return" /\ UNCHANGED <<taskCh, discoveredCh, wtask>>
    BY <1>1, <1>9 DEF WorkerGiveBack, chanVars
  <2>2. Answer(w) = <<>> /\ Answer(w)' = <<wtask[w]>> /\ w \in Busy'
    BY <2>1 DEF Answer, Busy
  <2>3. wtask[w] \in ToAnswer' /\ ToAnswer \subseteq ToAnswer'
    <3>1. Range(<<>>) = {} /\ wtask[w] \in Range(<<wtask[w]>>)
      BY DEF Range
    <3> QED BY <1>5, <2>2, <3>1 DEF ToAnswer
  <2> QED BY <1>2, <1>6, <2>1, <2>3, DrainableParts DEF Answered
<1>10. CASE WorkerFetch(w)
  <2>1. wpc[w] = "check" /\ UNCHANGED <<taskCh, discoveredCh, wtask>>
    BY <1>10 DEF WorkerFetch, chanVars
  <2>2. Answer(w) = <<>>
    BY <2>1 DEF Answer
  <2>3. /\ ToAnswer \subseteq ToAnswer'
        /\ {wtask[v] : v \in Checking} \subseteq {wtask[v] : v \in Checking}' \cup {wtask[w]}
    BY <1>5, <1>6, <2>2, EmptyQueue
  <2> QED BY <1>2, <1>10, <2>1, <2>3, DrainableParts DEF Answered
<1>11. CASE WorkerResult(w)
  <2>1. wpc[w] = "fetch" /\ UNCHANGED <<taskCh, discoveredCh>>
    BY <1>11 DEF WorkerResult
  <2>2. Answer(w) = <<>>
    BY <2>1 DEF Answer
  <2>3. ToAnswer \subseteq ToAnswer' /\ {wtask[v] : v \in Checking} \subseteq {wtask[v] : v \in Checking}'
    BY <1>5, <1>6, <2>1, <2>2, EmptyQueue DEF Checking
  <2> QED BY <1>2, <2>1, <2>3, DrainableParts DEF Answered
<1>12. CASE WorkerAnswer(w)
  <2>1. /\ w \in Busy /\ w \notin Checking /\ discoveredCh' = Append(discoveredCh, Answer(w))
        /\ taskCh' = taskCh
    BY <1>12 DEF WorkerAnswer, Busy, Checking
  <2>2. Answered' = Answered \cup Range(Answer(w))
    BY <1>1, <2>1, AnswerType, AnsweredAppend
  <2>3. ToAnswer \subseteq ToAnswer' \cup Range(Answer(w))
    BY <1>5
  <2> QED BY <1>2, <1>6, <2>1, <2>2, <2>3, DrainableParts
<1> QED BY <1>7, <1>8, <1>9, <1>10, <1>11, <1>12 DEF WorkerStep

\* From the cancellation on, no step loses a task on its way into the queue
\* that saveQueue writes: a resume finds all of them.
THEOREM DrainKeepsEveryTask == Spec => DrainKeepsTasks
<1>1. ASSUME BaseInv, [Next]_vars, pc = "drain" PROVE Drainable \subseteq Drainable'
  <2>1. CountInv /\ cancelled
    BY <1>1 DEF BaseInv, Phases
  <2>2. ASSUME UNCHANGED <<overflow, taskCh, discoveredCh, wpc, wtask>> PROVE Drainable' = Drainable
    BY <2>2 DEF Drainable, Busy, Answer
  <2>3. CASE StartStep \/ SelectStep
    <3>1. CASE DrainRecv
      <4>1. /\ discoveredCh # <<>> /\ overflow' = overflow \o Head(discoveredCh)
            /\ discoveredCh' = Tail(discoveredCh) /\ UNCHANGED <<taskCh, wpc, wtask>>
        BY <3>1 DEF DrainRecv, workerVars
      <4>2. overflow \in Seq(Task) /\ discoveredCh \in Seq(Seq(Task)) /\ Head(discoveredCh) \in Seq(Task)
        BY <2>1, <4>1 DEF CountInv, TypeOK, CoordTypeOK, ChanTypeOK
      <4>3. Range(overflow') = Range(overflow) \cup Range(Head(discoveredCh))
        BY <4>1, <4>2, QueueConcat
      <4>4. Answered = Answered' \cup Range(Head(discoveredCh))
        BY <4>1, <4>2, AnsweredTail
      <4>5. ToAnswer' = ToAnswer /\ {wtask[v] : v \in Checking}' = {wtask[v] : v \in Checking}
        BY <4>1 DEF ToAnswer, Busy, Answer, Checking
      <4> QED BY <4>1, <4>3, <4>4, <4>5, DrainableParts
    <3>2. CASE SaveQueue
      BY <2>2, <3>2 DEF SaveQueue, chanVars, workerVars
    <3> QED BY <1>1, <2>3, <3>1, <3>2 DEF StartStep, SelectStep, Start, LoopExit, LoopLimit, LoopSelect,
         DedupSkip, DedupBreak, DedupMark, AppendNew, BeginEnqueue, EnqueueSend, EnqueueOverflow,
         EnqueueDone, SaveVisited, FinishFlush, FinishClear, CloseResults, Finish,
         LimitRecv, SendOverflow, RecvBatch, PersistTick, CtxDone
  <2>4. CASE \E w \in Workers : WorkerStep(w)
    BY <2>1, <2>4, DrainWorker DEF WorkerFetch
  <2>5. CASE IndexerStep \/ Cancel \/ UNCHANGED vars
    BY <2>2, <2>5, IndexerFrame DEF Cancel, vars, coordVars, chanVars, workerVars
  <2> QED BY <1>1, <2>3, <2>4, <2>5 DEF Next, Terminated
<1>2. BaseInv /\ [Next]_vars => [pc = "drain" => Drainable \subseteq Drainable']_vars
  BY <1>1
<1> QED BY <1>2, BaseAlways, PTL DEF Spec, DrainKeepsTasks

-----------------------------------------------------------------------------
(* Counting in a sequence *)

\* The positions of q that hold an element of S.
Places(q, S) == {i \in DOMAIN q : q[i] \in S}
CountIn(q, S) == Cardinality(Places(q, S))

\* The positions of a sequence are finitely many.
LEMMA PlacesFinite ==
    ASSUME NEW T, NEW q \in Seq(T), NEW S
    PROVE  IsFiniteSet(Places(q, S)) /\ CountIn(q, S) \in Nat
<1>1. Len(q) \in Nat /\ DOMAIN q = 1..Len(q)
  OBVIOUS
<1>2. IsFiniteSet(DOMAIN q)
  BY <1>1, FS_Interval
<1>3. IsFiniteSet(Places(q, S))
  BY <1>2, FS_Subset DEF Places
<1> QED BY <1>3, FS_CardinalityType DEF CountIn

\* Nothing is counted in the empty sequence.
LEMMA CountEmpty == \A S : CountIn(<<>>, S) = 0
BY FS_EmptySet DEF CountIn, Places

\* Appending an element adds its position, ...
LEMMA CountAppend ==
    ASSUME NEW T, NEW q \in Seq(T), NEW x \in T, NEW S
    PROVE  CountIn(Append(q, x), S) = CountIn(q, S) + (IF x \in S THEN 1 ELSE 0)
<1> DEFINE n == Len(q)
           a == Append(q, x)
<1>1. n \in Nat /\ DOMAIN q = 1..n
  OBVIOUS
<1>2. DOMAIN a = 1..(n + 1) /\ a[n + 1] = x /\ \A i \in 1..n : a[i] = q[i]
  BY <1>1, AppendProperties
<1> HIDE DEF n, a
<1>3. 1..(n + 1) = 1..n \cup {n + 1} /\ n + 1 \notin 1..n
  BY <1>1
<1>4. IsFiniteSet(Places(q, S)) /\ CountIn(q, S) \in Nat /\ n + 1 \notin Places(q, S)
  BY <1>1, <1>3, PlacesFinite DEF Places
<1>5. CASE x \in S
  <2>1. Places(a, S) = Places(q, S) \cup {n + 1}
    BY <1>1, <1>2, <1>3, <1>5 DEF Places
  <2> QED BY <1>4, <1>5, <2>1, FS_AddElement DEF CountIn, a
<1>6. CASE x \notin S
  <2>1. Places(a, S) = Places(q, S)
    BY <1>1, <1>2, <1>3, <1>6 DEF Places
  <2> QED BY <1>4, <1>6, <2>1 DEF CountIn, a
<1> QED BY <1>5, <1>6

\* ... and taking the head removes the first one.
LEMMA CountTail ==
    ASSUME NEW T, NEW q \in Seq(T), q # <<>>, NEW S
    PROVE  CountIn(q, S) = CountIn(Tail(q), S) + (IF Head(q) \in S THEN 1 ELSE 0)
<1> DEFINE n == Len(q)
           r == Tail(q)
           A == Places(r, S)
           B == Places(q, S) \ {1}
           f == [i \in A |-> i + 1]
<1>1. n \in Nat /\ n > 0 /\ DOMAIN q = 1..n /\ Head(q) = q[1] /\ r \in Seq(T)
  OBVIOUS
<1>2. DOMAIN r = 1..(n - 1) /\ \A i \in 1..(n - 1) : r[i] = q[i + 1]
  BY <1>1, HeadTailProperties
<1>3. IsFiniteSet(A) /\ IsFiniteSet(Places(q, S)) /\ CountIn(r, S) \in Nat /\ CountIn(q, S) \in Nat
  BY <1>1, PlacesFinite
<1> HIDE DEF n, r
<1>4. f \in Bijection(A, B)
  <2>1. \A i \in A : i \in 1..(n - 1) /\ r[i] \in S
    BY <1>2 DEF Places
  <2>2. \A i \in A : f[i] = i + 1 /\ i + 1 \in 1..n /\ i + 1 # 1 /\ q[i + 1] \in S
    BY <1>1, <1>2, <2>1
  <2>3. \A i \in A : f[i] \in B
    BY <1>1, <2>2 DEF Places
  <2>4. f \in [A -> B]
    BY <2>3
  <2>5. ASSUME NEW i \in A, NEW j \in A, f[i] = f[j] PROVE i = j
    BY <1>1, <2>1, <2>2, <2>5
  <2>6. ASSUME NEW j \in B PROVE \E i \in A : f[i] = j
    <3>1. j \in 1..n /\ j # 1 /\ q[j] \in S
      BY <1>1 DEF Places
    <3>2. j - 1 \in 1..(n - 1) /\ (j - 1) + 1 = j
      BY <1>1, <3>1
    <3>3. j - 1 \in A
      BY <1>2, <3>1, <3>2 DEF Places
    <3> QED BY <2>2, <3>2, <3>3
  <2> HIDE DEF A, B, f
  <2>7. f \in Injection(A, B)
    BY <2>4, <2>5 DEF Injection, IsInjective
  <2>8. f \in Surjection(A, B)
    BY <2>4, <2>6 DEF Surjection
  <2> QED BY <2>7, <2>8 DEF Bijection
<1>5. IsFiniteSet(B)
  BY <1>3, FS_RemoveElement
<1>6. Cardinality(A) = Cardinality(B)
  BY <1>3, <1>4, FS_Bijection DEF ExistsBijection
<1>7. 1 \in Places(q, S) <=> Head(q) \in S
  BY <1>1 DEF Places
<1>8. Cardinality(B) = IF 1 \in Places(q, S) THEN CountIn(q, S) - 1 ELSE CountIn(q, S)
  BY <1>3, FS_RemoveElement DEF CountIn
<1>9. CountIn(r, S) = Cardinality(A)
  BY DEF CountIn
<1> QED BY <1>3, <1>6, <1>7, <1>8, <1>9 DEF r

-----------------------------------------------------------------------------
(* The indexer's phases and counters *)

\* Only the indexer counts pages, and only Finish sets the stop reason.
LEMMA MetricsFrame ==
    ASSUME TypeOK, [Next]_vars, ~IndexerStep
    PROVE  /\ metrics'.PagesProcessed = metrics.PagesProcessed
           /\ metrics'.IndexedDocs = metrics.IndexedDocs
           /\ metrics'.PagesErrored = metrics.PagesErrored
           /\ Finish \/ metrics'.StopReason = metrics.StopReason
<1>1. metrics \in Metrics
  BY DEF TypeOK
<1>2. \A n, o : /\ WithQueueMetrics(metrics, n, o).PagesProcessed = metrics.PagesProcessed
                /\ WithQueueMetrics(metrics, n, o).IndexedDocs = metrics.IndexedDocs
                /\ WithQueueMetrics(metrics, n, o).PagesErrored = metrics.PagesErrored
                /\ WithQueueMetrics(metrics, n, o).StopReason = metrics.StopReason
  BY <1>1 DEF WithQueueMetrics, Metrics
<1>3. CASE Start
  BY <1>1, <1>3 DEF Start, Metrics
<1>4. CASE DedupMark
  BY <1>1, <1>4 DEF DedupMark, Metrics
<1>5. CASE Finish
  BY <1>1, <1>5 DEF Finish, Metrics
<1>6. CASE LimitRecv \/ SendOverflow \/ AppendNew \/ EnqueueDone
  BY <1>2, <1>6 DEF LimitRecv, SendOverflow, AppendNew, EnqueueDone
<1>7. CASE \/ LoopExit \/ LoopLimit \/ LoopSelect \/ RecvBatch \/ CtxDone \/ DedupSkip \/ DedupBreak \/ BeginEnqueue
           \/ EnqueueSend \/ EnqueueOverflow \/ DrainRecv \/ SaveQueue \/ SaveVisited \/ FinishFlush
           \/ FinishClear \/ CloseResults \/ PersistTick
  BY <1>7 DEF LoopExit, LoopLimit, LoopSelect, RecvBatch, CtxDone, DedupSkip, DedupBreak, BeginEnqueue,
     EnqueueSend, EnqueueOverflow, DrainRecv, SaveQueue, SaveVisited, FinishFlush, FinishClear,
     CloseResults, PersistTick
<1>8. CASE (\E w \in Workers : WorkerStep(w)) \/ Cancel \/ UNCHANGED vars
  BY <1>8, WorkerFrame DEF Cancel, vars
<1> QED BY <1>3, <1>4, <1>5, <1>6, <1>7, <1>8 DEF Next, Terminated, StartStep, SelectStep

\* The indexer flushes for a reason, leaves with nothing pending, and leaves
\* only after resultsCh was closed and emptied.
IndexPhases ==
    /\ ipc \in {"select", "exit"} <=> flushFor = "none"
    /\ ipc = "exit" => pending = <<>>
    /\ ipc = "exit" /\ pc # "start" => pc \in {"resultsClosed", "done"} /\ resultsCh = <<>>
    /\ flushFor = "close" => pc \in {"resultsClosed", "done"} /\ resultsCh = <<>>
    /\ pc = "done" => ipc = "exit"

\* Once resultsCh is closed no worker is left that could send on it.
LEMMA IndexPhasesStep == BaseInv /\ IndexPhases /\ [Next]_vars => IndexPhases'
<1> SUFFICES ASSUME BaseInv, IndexPhases, [Next]_vars PROVE IndexPhases'
  OBVIOUS
<1> USE DEF IndexPhases
<1>1. CASE Start
  BY <1>1 DEF Start, Begin
<1>2. CASE (StartStep \/ SelectStep) /\ ~Start
  <2>1. UNCHANGED <<resultsCh, indexVars>>
    BY <1>2, CoordFrame
  <2>2. /\ pc' = "start" => pc = "start"
        /\ pc \in {"resultsClosed", "done"} => pc' \in {"resultsClosed", "done"}
        /\ pc # "start"
        /\ pc' = "done" => ipc = "exit"
    BY <1>2 DEF StartStep, SelectStep, LoopExit, LoopLimit, LoopSelect, DedupSkip, DedupBreak,
     DedupMark, AppendNew, BeginEnqueue, EnqueueSend, EnqueueOverflow, EnqueueDone, DrainRecv,
     SaveQueue, SaveVisited, FinishFlush, FinishClear, CloseResults, Finish,
     LimitRecv, SendOverflow, RecvBatch, PersistTick, CtxDone
  <2> QED BY <2>1, <2>2 DEF indexVars
<1>3. ASSUME NEW w \in Workers, WorkerStep(w) PROVE IndexPhases'
  <2>1. UNCHANGED <<pc, ipc, flushFor, pending>>
    BY <1>3, WorkerFrame DEF coordVars, indexVars
  <2>2. wpc[w] # "exit"
    BY <1>3 DEF WorkerStep, WorkerRecv, WorkerExit, WorkerGiveBack, WorkerFetch, WorkerResult, WorkerAnswer
  <2>3. pc \notin {"resultsClosed", "done"}
    BY <2>2 DEF BaseInv, Phases
  <2> QED BY <2>1, <2>3
<1>4. CASE IndexerStep
  <2>1. pc' = pc
    BY <1>4, IndexerFrame DEF coordVars
  <2>2. pc # "start"
    BY <1>4 DEF BaseInv, Fresh, IndexerStep, IndexError, IndexPage, IndexTick, IndexClosed, IndexSave, IndexAppend
  <2> QED BY <1>4, <2>1, <2>2 DEF IndexerStep, IndexError, IndexPage, IndexTick, IndexClosed, IndexSave,
       IndexAppend, indexVars, chanVars
<1>5. CASE Cancel \/ UNCHANGED vars
  BY <1>5 DEF Cancel, vars, coordVars, indexVars, chanVars
<1> QED BY <1>1, <1>2, <1>3, <1>4, <1>5 DEF Next, Terminated

\* PagesProcessed lags behind the other two counters only during the flush of
\* a full batch.
CounterInv ==
    metrics.PagesProcessed + (IF flushFor = "batch" THEN 1 ELSE 0)
        = metrics.IndexedDocs + metrics.PagesErrored

\* Every record is counted once as processed and once as indexed or failed.
LEMMA CounterStep == BaseInv /\ IndexPhases /\ CounterInv /\ [Next]_vars => CounterInv'
<1> SUFFICES ASSUME BaseInv, IndexPhases, CounterInv, [Next]_vars PROVE CounterInv'
  OBVIOUS
<1>1. /\ TypeOK /\ metrics \in Metrics /\ metrics.PagesProcessed \in Nat /\ metrics.IndexedDocs \in Nat
      /\ metrics.PagesErrored \in Nat
  BY DEF BaseInv, CountInv, TypeOK, Metrics
<1>2. CASE ~IndexerStep
  <2>1. UNCHANGED flushFor \/ (flushFor = "none" /\ flushFor' = "none")
    BY <1>2, CoordFrame, WorkerFrame DEF Next, Start, Begin, BaseInv, Fresh, Cancel, Terminated, vars, indexVars
  <2> QED BY <1>1, <1>2, <2>1, MetricsFrame DEF CounterInv
<1>3. CASE IndexError
  <2>1. metrics' = [metrics EXCEPT !.PagesErrored = @ + 1, !.PagesProcessed = @ + 1] /\ flushFor' = flushFor
    BY <1>3 DEF IndexError, indexVars
  <2>2. /\ metrics'.PagesProcessed = metrics.PagesProcessed + 1 /\ metrics'.IndexedDocs = metrics.IndexedDocs
        /\ metrics'.PagesErrored = metrics.PagesErrored + 1
    BY <1>1, <2>1 DEF Metrics
  <2> QED BY <1>1, <2>1, <2>2 DEF CounterInv
<1>4. CASE IndexPage
  <2>1. flushFor = "none"
    BY <1>4 DEF IndexPage, IndexPhases
  <2>2. \/ metrics' = [metrics EXCEPT !.IndexedDocs = @ + 1] /\ flushFor' = "batch"
        \/ metrics' = [metrics EXCEPT !.IndexedDocs = @ + 1, !.PagesProcessed = @ + 1] /\ flushFor' = flushFor
    BY <1>4 DEF IndexPage
  <2>3. /\ metrics'.IndexedDocs = metrics.IndexedDocs + 1
        /\ metrics'.PagesErrored = metrics.PagesErrored
        /\ \/ flushFor' = "batch" /\ metrics'.PagesProcessed = metrics.PagesProcessed
           \/ flushFor' = "none" /\ metrics'.PagesProcessed = metrics.PagesProcessed + 1
    BY <1>1, <2>1, <2>2 DEF Metrics
  <2> QED BY <1>1, <2>1, <2>3 DEF CounterInv
<1>5. CASE IndexAppend
  <2>1. /\ metrics' = [metrics EXCEPT !.PagesProcessed = @ + (IF flushFor = "batch" THEN 1 ELSE 0)]
        /\ flushFor' = "none"
    BY <1>5 DEF IndexAppend
  <2>2. /\ metrics'.PagesProcessed = metrics.PagesProcessed + (IF flushFor = "batch" THEN 1 ELSE 0)
        /\ metrics'.IndexedDocs = metrics.IndexedDocs /\ metrics'.PagesErrored = metrics.PagesErrored
    BY <1>1, <2>1 DEF Metrics
  <2> QED BY <1>1, <2>1, <2>2 DEF CounterInv
<1>6. CASE IndexTick \/ IndexClosed \/ IndexSave
  <2>1. metrics' = metrics /\ (flushFor' = flushFor \/ (flushFor = "none" /\ flushFor' # "batch"))
    BY <1>6 DEF IndexTick, IndexClosed, IndexSave, IndexPhases
  <2> QED BY <1>1, <2>1 DEF CounterInv
<1> QED BY <1>2, <1>3, <1>4, <1>5, <1>6 DEF IndexerStep

-----------------------------------------------------------------------------
(* From the fetch to the index *)

\* The workers at work on the page u, and the records about it.
FetchingUrl(u) == {w \in Workers : wpc[w] = "fetch" /\ wtask[w].url = u}
RecordsOf(u) == {r \in Record : r.url = u}

\* A fetch of u is at one place: with its worker, in resultsCh or in the index.
IndexedFetched ==
    \A u \in URLs :
        index[u] + CountIn(resultsCh, RecordsOf(u)) + Cardinality(FetchingUrl(u)) <= Len(fetched[u])

\* The numbers in it are numbers.
LEMMA IndexedNumbers ==
    ASSUME TypeOK, NEW u \in URLs
    PROVE  /\ index[u] \in Nat /\ CountIn(resultsCh, RecordsOf(u)) \in Nat /\ Len(fetched[u]) \in Nat
           /\ IsFiniteSet(FetchingUrl(u)) /\ Cardinality(FetchingUrl(u)) \in Nat
<1>1. index \in [URLs -> Nat] /\ resultsCh \in Seq(Record) /\ fetched \in [URLs -> Seq(Nat)]
  BY DEF TypeOK, IndexTypeOK, ChanTypeOK, WorkerTypeOK
<1>2. fetched[u] \in Seq(Nat)
  BY <1>1
<1>3. Len(fetched[u]) \in Nat /\ CountIn(resultsCh, RecordsOf(u)) \in Nat
  BY <1>1, <1>2, PlacesFinite
<1>4. IsFiniteSet(FetchingUrl(u))
  BY CrawlerAssumption, FS_Subset DEF FetchingUrl
<1> QED BY <1>1, <1>3, <1>4, FS_CardinalityType

\* A worker adds its fetch to the history, then hands it to resultsCh.
LEMMA IndexedFetchedWorker ==
    ASSUME CountInv, IndexedFetched, NEW w \in Workers, WorkerStep(w)
    PROVE  IndexedFetched'
<1>1. /\ wpc \in [Workers -> WorkerPCs] /\ wtask \in [Workers -> Task \cup {NoTask}]
      /\ fetched \in [URLs -> Seq(Nat)] /\ resultsCh \in Seq(Record) /\ TypeOK
  BY DEF CountInv, TypeOK, ChanTypeOK, WorkerTypeOK
<1>2. index' = index
  BY WorkerFrame DEF indexVars
<1>3. CASE WorkerRecv(w) \/ WorkerExit(w) \/ WorkerGiveBack(w) \/ WorkerAnswer(w)
  <2>1. UNCHANGED <<resultsCh, fetched>>
    BY <1>3 DEF WorkerRecv, WorkerExit, WorkerGiveBack, WorkerAnswer, chanVars
  <2>2. \A u \in URLs : FetchingUrl(u)' = FetchingUrl(u)
    BY <1>1, <1>3 DEF FetchingUrl, WorkerRecv, WorkerExit, WorkerGiveBack, WorkerAnswer
  <2> QED BY <1>2, <2>1, <2>2 DEF IndexedFetched
<1>4. CASE WorkerFetch(w)
  <2> DEFINE v == wtask[w].url
  <2>1. wpc[w] = "check" /\ wpc' = [wpc EXCEPT ![w] = "fetch"] /\ UNCHANGED <<resultsCh, wtask>>
        /\ fetched' = [fetched EXCEPT ![v] = Append(@, wtask[w].depth)]
    BY <1>4 DEF WorkerFetch, chanVars
  <2>2. v \in URLs /\ wtask[w].depth \in Nat
    BY <2>1 DEF CountInv, HeldTasks, Busy, Task
  <2> HIDE DEF v
  <2> SUFFICES ASSUME NEW u \in URLs
               PROVE  (index[u] + CountIn(resultsCh, RecordsOf(u)) + Cardinality(FetchingUrl(u)) <= Len(fetched[u]))'
    BY DEF IndexedFetched
  <2>3. CASE u = v
    <3>1. fetched'[u] = Append(fetched[u], wtask[w].depth)
      BY <1>1, <2>1, <2>2, <2>3
    <3>2. Len(fetched'[u]) = Len(fetched[u]) + 1
      BY <1>1, <2>2, <3>1
    <3>3. FetchingUrl(u)' = FetchingUrl(u) \cup {w} /\ w \notin FetchingUrl(u)
      BY <1>1, <2>1, <2>3 DEF FetchingUrl, v
    <3>4. Cardinality(FetchingUrl(u)') = Cardinality(FetchingUrl(u)) + 1
      BY <1>1, <3>3, IndexedNumbers, FS_AddElement
    <3>5. index[u] + CountIn(resultsCh, RecordsOf(u)) + Cardinality(FetchingUrl(u)) <= Len(fetched[u])
      BY DEF IndexedFetched
    <3>6. CountIn(resultsCh', RecordsOf(u)) = CountIn(resultsCh, RecordsOf(u))
      BY <2>1
    <3> QED BY <1>1, <1>2, <3>2, <3>4, <3>5, <3>6, IndexedNumbers
  <2>4. CASE u # v
    <3>1. fetched'[u] = fetched[u] /\ FetchingUrl(u)' = FetchingUrl(u)
      BY <1>1, <2>1, <2>2, <2>4 DEF FetchingUrl, v
    <3> QED BY <1>2, <2>1, <3>1 DEF IndexedFetched
  <2> QED BY <2>3, <2>4
<1>5. CASE WorkerResult(w)
  <2> DEFINE v == wtask[w].url
  <2>1. PICK ok \in BOOLEAN : /\ resultsCh' = Append(resultsCh, [url |-> v, ok |-> ok])
                              /\ wpc' = [wpc EXCEPT ![w] = IF ok THEN "found" ELSE "failed"]
    BY <1>5 DEF WorkerResult, FetchOutcomes
  <2>2. wpc[w] = "fetch" /\ UNCHANGED <<fetched, wtask>>
    BY <1>5 DEF WorkerResult
  <2>3. v \in URLs
    BY <2>2 DEF CountInv, HeldTasks, Busy, Task
  <2> DEFINE r == [url |-> v, ok |-> ok]
  <2>4. r \in Record /\ r.url = v
    BY <2>3 DEF Record
  <2> SUFFICES ASSUME NEW u \in URLs
               PROVE  (index[u] + CountIn(resultsCh, RecordsOf(u)) + Cardinality(FetchingUrl(u)) <= Len(fetched[u]))'
    BY DEF IndexedFetched
  <2>5. CountIn(resultsCh', RecordsOf(u)) = CountIn(resultsCh, RecordsOf(u)) + IF r \in RecordsOf(u) THEN 1 ELSE 0
    BY <1>1, <2>1, <2>4, CountAppend
  <2>6. r \in RecordsOf(u) <=> u = v
    BY <2>4 DEF RecordsOf
  <2> HIDE DEF r, v
  <2>7. CASE u = v
    <3>1. FetchingUrl(u)' = FetchingUrl(u) \ {w} /\ w \in FetchingUrl(u)
      BY <1>1, <2>1, <2>2, <2>7 DEF FetchingUrl, v
    <3>2. Cardinality(FetchingUrl(u)') = Cardinality(FetchingUrl(u)) - 1
      BY <1>1, <3>1, IndexedNumbers, FS_RemoveElement
    <3>3. index[u] + CountIn(resultsCh, RecordsOf(u)) + Cardinality(FetchingUrl(u)) <= Len(fetched[u])
      BY DEF IndexedFetched
    <3> QED BY <1>1, <1>2, <2>2, <2>5, <2>6, <2>7, <3>2, <3>3, IndexedNumbers
  <2>8. CASE u # v
    <3>1. FetchingUrl(u)' = FetchingUrl(u)
      BY <1>1, <2>1, <2>2, <2>8 DEF FetchingUrl, v
    <3>2. CountIn(resultsCh', RecordsOf(u)) = CountIn(resultsCh, RecordsOf(u))
      BY <1>1, <2>5, <2>6, <2>8, IndexedNumbers
    <3> QED BY <1>2, <2>2, <3>1, <3>2 DEF IndexedFetched
  <2> QED BY <2>7, <2>8
<1> QED BY <1>3, <1>4, <1>5 DEF WorkerStep

\* The indexer takes a record from resultsCh and indexes it or drops it.
LEMMA IndexedFetchedIndexer ==
    ASSUME CountInv, IndexedFetched, IndexerStep
    PROVE  IndexedFetched'
<1>1. /\ resultsCh \in Seq(Record) /\ index \in [URLs -> Nat] /\ TypeOK
  BY DEF CountInv, TypeOK, ChanTypeOK, IndexTypeOK
<1>2. fetched' = fetched /\ \A u \in URLs : FetchingUrl(u)' = FetchingUrl(u)
  BY IndexerFrame DEF workerVars, FetchingUrl
<1>3. CASE UNCHANGED <<resultsCh, index>>
  BY <1>2, <1>3 DEF IndexedFetched
<1>4. CASE IndexError \/ IndexPage
  <2> DEFINE r == Head(resultsCh)
  <2>1. resultsCh # <<>> /\ resultsCh' = Tail(resultsCh)
        /\ (index' = index \/ index' = [index EXCEPT ![r.url] = @ + 1])
    BY <1>4 DEF IndexError, IndexPage, indexVars
  <2>2. r \in Record
    BY <1>1, <2>1
  <2> SUFFICES ASSUME NEW u \in URLs
               PROVE  (index[u] + CountIn(resultsCh, RecordsOf(u)) + Cardinality(FetchingUrl(u)) <= Len(fetched[u]))'
    BY DEF IndexedFetched
  <2>3. CountIn(resultsCh, RecordsOf(u)) = CountIn(resultsCh', RecordsOf(u)) + IF r \in RecordsOf(u) THEN 1 ELSE 0
    BY <1>1, <2>1, CountTail
  <2>4. r \in RecordsOf(u) <=> r.url = u
    BY <2>2 DEF RecordsOf
  <2>5. CountIn(resultsCh', RecordsOf(u)) \in Nat
    <3>1. resultsCh' \in Seq(Record)
      BY <1>1, <2>1
    <3> QED BY <3>1, PlacesFinite
  <2> HIDE DEF r
  <2>6. index'[u] = index[u] \/ (r.url = u /\ index'[u] = index[u] + 1)
    BY <1>1, <2>1
  <2>7. index[u] + CountIn(resultsCh, RecordsOf(u)) + Cardinality(FetchingUrl(u)) <= Len(fetched[u])
    BY DEF IndexedFetched
  <2>8. Cardinality(FetchingUrl(u)') = Cardinality(FetchingUrl(u))
    BY <1>2
  <2> QED BY <1>1, <1>2, <2>3, <2>4, <2>5, <2>6, <2>7, <2>8, IndexedNumbers
<1> QED BY <1>3, <1>4 DEF IndexerStep, IndexTick, IndexClosed, IndexSave, IndexAppend, chanVars

\* Every step keeps a fetch at one place.
LEMMA IndexedFetchedStep == BaseInv /\ IndexedFetched /\ [Next]_vars => IndexedFetched'
<1> SUFFICES ASSUME BaseInv, IndexedFetched, [Next]_vars PROVE IndexedFetched'
  OBVIOUS
<1>1. CASE Start
  <2>1. /\ resultsCh' = <<>> /\ index' = [u \in URLs |-> 0] /\ fetched' = [u \in URLs |-> <<>>]
        /\ wpc' = [w \in Workers |-> "recv"]
    BY <1>1 DEF Start, Begin, BaseInv, Fresh
  <2>2. \A u \in URLs : FetchingUrl(u)' = {}
    BY <2>1 DEF FetchingUrl
  <2>3. \A u \in URLs : CountIn(resultsCh', RecordsOf(u)) = 0 /\ Cardinality(FetchingUrl(u)') = 0
    BY <2>1, <2>2, CountEmpty, FS_EmptySet
  <2>4. \A u \in URLs : index'[u] = 0 /\ Len(fetched'[u]) = 0
    BY <2>1
  <2> QED BY <2>3, <2>4 DEF IndexedFetched
<1>2. CASE (StartStep \/ SelectStep) /\ ~Start
  <2>1. UNCHANGED <<index, resultsCh, fetched>>
    BY <1>2, CoordFrame
  <2>2. wpc \in [Workers -> WorkerPCs] /\ wtask \in [Workers -> Task \cup {NoTask}]
    BY DEF BaseInv, CountInv, TypeOK, WorkerTypeOK
  <2>3. \A u \in URLs : FetchingUrl(u)' = FetchingUrl(u)
    <3>1. CASE UNCHANGED <<wpc, wtask>>
      BY <3>1 DEF FetchingUrl
    <3>2. CASE EnqueueSend \/ SendOverflow
      BY <2>2, <3>2 DEF EnqueueSend, SendOverflow, Send, FetchingUrl
    <3> QED BY <1>2, <3>1, <3>2, CoordFrame
  <2> QED BY <2>1, <2>3 DEF IndexedFetched
<1>3. CASE Cancel \/ UNCHANGED vars
  BY <1>3 DEF Cancel, vars, indexVars, chanVars, workerVars, IndexedFetched, FetchingUrl
<1> QED BY <1>1, <1>2, <1>3, IndexedFetchedWorker, IndexedFetchedIndexer DEF Next, Terminated, BaseInv

-----------------------------------------------------------------------------
(* From the index to storage *)

\* What is indexed is in storage or pending, and what was pending when the
\* flush began is in the postings table before it is in p.data.
FlushInv ==
    ~DBMayFail =>
        /\ \A u \in URLs : pdata[u] + CountIn(pending, {u}) = index[u]
        /\ dbPostings \cup Range(pending) = {u \in URLs : index[u] > 0}
        /\ ipc = "append" => Range(pending) \subseteq dbPostings

\* The rows that AppendPostingsToFile adds for a page.
LEMMA CountSame == \A q, u : Cardinality({i \in DOMAIN q : q[i] = u}) = CountIn(q, {u})
<1> SUFFICES ASSUME NEW q, NEW u PROVE {i \in DOMAIN q : q[i] = u} = Places(q, {u})
  BY DEF CountIn
<1> QED BY DEF Places

\* Appending to a sequence adds one to its range.
LEMMA RangeAppend ==
    ASSUME NEW T, NEW q \in Seq(T), NEW u \in T
    PROVE  Range(Append(q, u)) = Range(q) \cup {u}
<1> DEFINE n == Len(q)
           a == Append(q, u)
<1>1. n \in Nat /\ DOMAIN q = 1..n
  OBVIOUS
<1>2. DOMAIN a = 1..(n + 1) /\ a[n + 1] = u /\ \A i \in 1..n : a[i] = q[i]
  BY <1>1, AppendProperties
<1> HIDE DEF n, a
<1>3. 1..(n + 1) = 1..n \cup {n + 1}
  BY <1>1
<1>4. Range(a) = Range(q) \cup {u}
  BY <1>1, <1>2, <1>3 DEF Range
<1> QED BY <1>4 DEF a

\* Each flush writes what is pending to both places, and only then forgets it.
LEMMA FlushStep == BaseInv /\ FlushInv /\ [Next]_vars => FlushInv'
<1> SUFFICES ASSUME BaseInv, FlushInv, [Next]_vars, ~DBMayFail PROVE FlushInv'
  BY DEF FlushInv
<1>1. /\ index \in [URLs -> Nat] /\ pdata \in [URLs -> Nat] /\ pending \in Seq(URLs)
      /\ resultsCh \in Seq(Record)
  BY DEF BaseInv, CountInv, TypeOK, IndexTypeOK, ChanTypeOK
<1>2. /\ \A u \in URLs : pdata[u] + CountIn(pending, {u}) = index[u]
      /\ dbPostings \cup Range(pending) = {u \in URLs : index[u] > 0}
      /\ ipc = "append" => Range(pending) \subseteq dbPostings
  BY DEF FlushInv
<1>3. ASSUME UNCHANGED <<index, pdata, pending, dbPostings>>, ipc' = ipc \/ ipc' # "append"
      PROVE  FlushInv'
  BY <1>2, <1>3 DEF FlushInv
<1>4. CASE Start
  <2>1. UNCHANGED <<index, pdata, dbPostings>> /\ pending' = <<>> /\ pending = <<>> /\ ipc' = "select"
    BY <1>4 DEF Start, Begin, BaseInv, Fresh
  <2> QED BY <1>3, <2>1
<1>5. CASE (StartStep \/ SelectStep) /\ ~Start
  BY <1>3, <1>5, CoordFrame DEF indexVars
<1>6. CASE (\E w \in Workers : WorkerStep(w)) \/ Cancel \/ UNCHANGED vars
  BY <1>3, <1>6, WorkerFrame DEF Cancel, vars, indexVars
<1>7. CASE IndexError \/ IndexTick \/ IndexClosed
  BY <1>3, <1>7 DEF IndexError, IndexTick, IndexClosed, indexVars
<1>8. CASE IndexPage
  <2> DEFINE v == Head(resultsCh).url
  <2>1. /\ resultsCh # <<>> /\ index' = [index EXCEPT ![v] = @ + 1] /\ pending' = Append(pending, v)
        /\ UNCHANGED <<dbPostings, pdata>> /\ ipc' # "append"
    BY <1>8 DEF IndexPage
  <2>2. v \in URLs
    <3>1. Head(resultsCh) \in Record
      BY <1>1, <2>1
    <3> QED BY <3>1 DEF Record
  <2> HIDE DEF v
  <2>3. ASSUME NEW u \in URLs PROVE pdata'[u] + CountIn(pending', {u}) = index'[u]
    <3>1. CountIn(pending', {u}) = CountIn(pending, {u}) + IF v \in {u} THEN 1 ELSE 0
      BY <1>1, <2>1, <2>2, CountAppend
    <3>2. CountIn(pending, {u}) \in Nat /\ pdata[u] \in Nat /\ index[u] \in Nat
      BY <1>1, PlacesFinite
    <3>3. index'[u] = IF u = v THEN index[u] + 1 ELSE index[u]
      BY <1>1, <2>1, <2>2
    <3>4. pdata'[u] = pdata[u] /\ pdata[u] + CountIn(pending, {u}) = index[u]
      BY <1>2, <2>1
    <3>5. CASE u = v
      BY <3>1, <3>2, <3>3, <3>4, <3>5
    <3>6. CASE u # v
      BY <3>1, <3>2, <3>3, <3>4, <3>6
    <3> QED BY <3>5, <3>6
  <2>4. dbPostings' \cup Range(pending') = {u \in URLs : index'[u] > 0}
    <3>1. Range(pending') = Range(pending) \cup {v}
      BY <1>1, <2>1, <2>2, RangeAppend
    <3>2. {u \in URLs : index'[u] > 0} = {u \in URLs : index[u] > 0} \cup {v}
      BY <1>1, <2>1, <2>2
    <3> QED BY <1>2, <2>1, <3>1, <3>2
  <2> QED BY <2>1, <2>3, <2>4 DEF FlushInv
<1>9. CASE IndexSave
  <2>1. dbPostings' = dbPostings \cup Range(pending) /\ UNCHANGED <<index, pdata, pending>>
    BY <1>9 DEF IndexSave, SavePostingsBatch, Tx
  <2> QED BY <1>2, <2>1 DEF FlushInv
<1>10. CASE IndexAppend
  <2>1. /\ ipc = "append" /\ pending' = <<>> /\ ipc' # "append" /\ UNCHANGED <<index, dbPostings>>
        /\ pdata' = [u \in URLs |-> pdata[u] + Cardinality({i \in DOMAIN pending : pending[i] = u})]
    BY <1>10 DEF IndexAppend, AppendPostingsToFile, Tx
  <2>2. ASSUME NEW u \in URLs PROVE pdata'[u] + CountIn(pending', {u}) = index'[u]
    <3>1. pdata'[u] = pdata[u] + CountIn(pending, {u})
      BY <2>1, CountSame
    <3>2. CountIn(pending', {u}) = 0
      BY <2>1, CountEmpty
    <3>3. index[u] \in Nat
      BY <1>1
    <3> QED BY <1>2, <2>1, <3>1, <3>2, <3>3
  <2>3. Range(pending') = {}
    BY <2>1, EmptyQueue
  <2> QED BY <1>2, <2>1, <2>2, <2>3 DEF FlushInv
<1> QED BY <1>4, <1>5, <1>6, <1>7, <1>8, <1>9, <1>10 DEF Next, Terminated, IndexerStep

\* What holds of the indexer and of its storage.
Flushed == IndexPhases /\ CounterInv /\ IndexedFetched /\ FlushInv

\* It holds in every state of a crawl.
LEMMA FlushedAlways == Spec => []Flushed
<1>1. Init => Flushed
  <2> SUFFICES ASSUME Init PROVE Flushed
    OBVIOUS
  <2>1. IndexPhases /\ CounterInv
    BY DEF Init, IndexPhases, CounterInv, ZeroMetrics
  <2>2. ASSUME NEW u \in URLs
        PROVE  /\ index[u] = 0 /\ pdata[u] = 0 /\ CountIn(resultsCh, RecordsOf(u)) = 0
               /\ Cardinality(FetchingUrl(u)) = 0 /\ Len(fetched[u]) = 0 /\ CountIn(pending, {u}) = 0
    <3>1. FetchingUrl(u) = {}
      BY DEF Init, FetchingUrl
    <3>2. Cardinality(FetchingUrl(u)) = 0
      BY <3>1, FS_EmptySet
    <3> QED BY <3>2, CountEmpty DEF Init
  <2>3. IndexedFetched
    <3> SUFFICES ASSUME NEW u \in URLs
                 PROVE  index[u] + CountIn(resultsCh, RecordsOf(u)) + Cardinality(FetchingUrl(u)) <= Len(fetched[u])
      BY DEF IndexedFetched
    <3>1. /\ index[u] = 0 /\ CountIn(resultsCh, RecordsOf(u)) = 0
          /\ Cardinality(FetchingUrl(u)) = 0 /\ Len(fetched[u]) = 0
      BY <2>2
    <3> QED BY <3>1
  <2>4. FlushInv
    <3>1. dbPostings = {} /\ Range(pending) = {} /\ ipc = "exit"
      BY EmptyQueue DEF Init
    <3>2. ASSUME NEW u \in URLs PROVE pdata[u] + CountIn(pending, {u}) = index[u] /\ ~(index[u] > 0)
      BY <2>2
    <3> QED BY <3>1, <3>2 DEF FlushInv
  <2> QED BY <2>1, <2>3, <2>4 DEF Flushed
<1>2. BaseInv /\ Flushed /\ [Next]_vars => Flushed'
  BY IndexPhasesStep, CounterStep, IndexedFetchedStep, FlushStep DEF Flushed
<1> QED BY <1>1, <1>2, BaseAlways, PTL DEF Spec

\* When Start returns, every page that was processed was indexed or counted as
\* failed, none was indexed more often than it was fetched, and with a storage
\* that works the postings table and p.data hold exactly what the index holds:
\* the last batch is not forgotten.
THEOREM EverythingIsFlushed == Spec => []EverythingFlushed
<1>1. BaseInv /\ Flushed => EverythingFlushed
  <2> SUFFICES ASSUME BaseInv, Flushed, pc = "done"
               PROVE  /\ metrics.PagesProcessed = metrics.IndexedDocs + metrics.PagesErrored
                      /\ \A u \in URLs : index[u] <= Len(fetched[u])
                      /\ ~DBMayFail => pdata = index /\ dbPostings = {u \in URLs : index[u] > 0}
    BY DEF EverythingFlushed
  <2>1. flushFor = "none" /\ pending = <<>>
    BY DEF Flushed, IndexPhases
  <2>2. metrics.PagesProcessed = metrics.IndexedDocs + metrics.PagesErrored
    <3>1. metrics.PagesProcessed \in Nat
      BY DEF BaseInv, CountInv, TypeOK, Metrics
    <3> QED BY <2>1, <3>1 DEF Flushed, CounterInv
  <2>3. ASSUME NEW u \in URLs PROVE index[u] <= Len(fetched[u])
    <3>1. index[u] + CountIn(resultsCh, RecordsOf(u)) + Cardinality(FetchingUrl(u)) <= Len(fetched[u])
      BY DEF Flushed, IndexedFetched
    <3> QED BY <3>1, IndexedNumbers DEF BaseInv, CountInv
  <2>4. ASSUME ~DBMayFail PROVE pdata = index /\ dbPostings = {u \in URLs : index[u] > 0}
    <3>1. index \in [URLs -> Nat] /\ pdata \in [URLs -> Nat]
      BY DEF BaseInv, CountInv, TypeOK, IndexTypeOK
    <3>2. \A u \in URLs : pdata[u] = index[u]
      <4> SUFFICES ASSUME NEW u \in URLs PROVE pdata[u] = index[u]
        OBVIOUS
      <4>1. pdata[u] + CountIn(pending, {u}) = index[u] /\ CountIn(pending, {u}) = 0
        BY <2>1, <2>4, CountEmpty DEF Flushed, FlushInv
      <4> QED BY <3>1, <4>1
    <3>3. Range(pending) = {}
      BY <2>1, EmptyQueue
    <3> QED BY <2>4, <3>1, <3>2, <3>3 DEF Flushed, FlushInv
  <2> QED BY <2>2, <2>3, <2>4
<1> QED BY <1>1, BaseAlways, FlushedAlways, PTL

-----------------------------------------------------------------------------
(* A page that was fetched with success *)

\* A page whose fetch succeeded: indexed, or its record on the way there.
OkPage(u) == index[u] > 0 \/ [url |-> u, ok |-> TRUE] \in Range(resultsCh)

\* A fetch succeeds only when a worker says so.
LEMMA OkPageNew ==
    ASSUME TypeOK, [Next]_vars, NEW CONSTANT u \in URLs, OkPage(u)'
    PROVE  \/ OkPage(u)
           \/ \E w \in Workers : WorkerResult(w) /\ wtask[w].url = u /\ wpc'[w] = "found"
<1>1. /\ resultsCh \in Seq(Record) /\ index \in [URLs -> Nat] /\ wpc \in [Workers -> WorkerPCs]
  BY DEF TypeOK, ChanTypeOK, IndexTypeOK, WorkerTypeOK
<1>2. CASE UNCHANGED <<index, resultsCh>>
  BY <1>2 DEF OkPage
<1>3. CASE StartStep \/ SelectStep
  <2>1. CASE Start
    <3>1. resultsCh' = <<>> /\ index' = index
      BY <2>1 DEF Start, Begin
    <3> QED BY <3>1, EmptyQueue DEF OkPage
  <2> QED BY <1>2, <1>3, <2>1, CoordFrame DEF indexVars
<1>4. ASSUME NEW w \in Workers, WorkerStep(w)
      PROVE  OkPage(u) \/ (WorkerResult(w) /\ wtask[w].url = u /\ wpc'[w] = "found")
  <2>1. index' = index
    BY <1>4, WorkerFrame DEF indexVars
  <2>2. CASE WorkerResult(w)
    <3>1. PICK ok \in BOOLEAN : /\ resultsCh' = Append(resultsCh, [url |-> wtask[w].url, ok |-> ok])
                                /\ wpc' = [wpc EXCEPT ![w] = IF ok THEN "found" ELSE "failed"]
      BY <2>2 DEF WorkerResult, FetchOutcomes
    <3>2. Range(resultsCh') \subseteq Range(resultsCh) \cup {[url |-> wtask[w].url, ok |-> ok]}
      BY <1>1, <3>1 DEF Range
    <3>3. CASE [url |-> u, ok |-> TRUE] = [url |-> wtask[w].url, ok |-> ok]
      <4>1. u = wtask[w].url /\ ok = TRUE
        BY <3>3
      <4> QED BY <1>1, <2>2, <3>1, <4>1
    <3> QED BY <2>1, <3>2, <3>3 DEF OkPage
  <2>3. CASE ~WorkerResult(w)
    <3>1. resultsCh' = resultsCh
      BY <1>4, <2>3 DEF WorkerStep, WorkerRecv, WorkerExit, WorkerGiveBack, WorkerFetch, WorkerAnswer, chanVars
    <3> QED BY <2>1, <3>1 DEF OkPage
  <2> QED BY <2>2, <2>3
<1>5. CASE IndexerStep
  <2>1. CASE IndexPage \/ IndexError
    <3>1. /\ resultsCh # <<>> /\ resultsCh' = Tail(resultsCh)
          /\ index' = index \/ (Head(resultsCh).ok /\ index' = [index EXCEPT ![Head(resultsCh).url] = @ + 1])
      BY <2>1 DEF IndexPage, IndexError, indexVars
    <3>2. Range(Tail(resultsCh)) \subseteq Range(resultsCh) /\ Head(resultsCh) \in Range(resultsCh)
      BY <1>1, <3>1 DEF Range
    <3>3. CASE index'[u] = index[u]
      BY <3>1, <3>2, <3>3 DEF OkPage
    <3>4. CASE index'[u] # index[u]
      <4>1. Head(resultsCh).ok /\ Head(resultsCh).url = u /\ Head(resultsCh) \in Record
        BY <1>1, <3>1, <3>4
      <4>2. Head(resultsCh) = [url |-> u, ok |-> TRUE]
        BY <4>1 DEF Record
      <4> QED BY <3>2, <4>2 DEF OkPage
    <3> QED BY <3>3, <3>4
  <2>2. CASE IndexTick \/ IndexClosed \/ IndexSave \/ IndexAppend
    BY <1>2, <2>2 DEF IndexTick, IndexClosed, IndexSave, IndexAppend, chanVars
  <2> QED BY <1>5, <2>1, <2>2 DEF IndexerStep
<1>6. CASE Cancel \/ UNCHANGED vars
  BY <1>2, <1>6 DEF Cancel, vars, indexVars, chanVars
<1> QED BY <1>3, <1>4, <1>5, <1>6 DEF Next, Terminated

=============================================================================
