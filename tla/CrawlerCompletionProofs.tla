---------------------- MODULE CrawlerCompletionProofs ----------------------
(***************************************************************************)
(* What a crawl that ends as "completed" has fetched and, with a single    *)
(* worker, in which order: proofs about Crawler and CrawlerClaims, for     *)
(* every web with distinct seeds.                                          *)
(***************************************************************************)
EXTENDS CrawlerRefinementProofs, CrawlerClaims, WellFoundedInduction

-----------------------------------------------------------------------------
(* Completed crawls *)

\* The coordinator waits at the limit only once it is reached.
LimitPhase == pc = "limit" => urlLimitReached

\* Nothing takes the limit back while the coordinator waits there.
LEMMA LimitPhaseAlways == Spec => []LimitPhase
<1>1. Init => LimitPhase
  BY DEF Init, LimitPhase
<1>2. ASSUME TypeOK, LimitPhase, [Next]_vars PROVE LimitPhase'
  <2>1. CASE pc = "limit"
    BY <1>2, <2>1, LimitStable DEF LimitPhase
  <2>2. CASE LoopLimit
    BY <1>2, <2>2, LimitStable DEF LoopLimit, LimitPhase
  <2>3. CASE pc # "limit" /\ ~LoopLimit
    <3>1. CASE (\E w \in Workers : WorkerStep(w)) \/ IndexerStep \/ Cancel \/ UNCHANGED vars
      BY <2>3, <3>1, WorkerFrame, IndexerFrame DEF LimitPhase, Cancel, vars, coordVars
    <3>2. CASE (StartStep \/ SelectStep) /\ ~LoopLimit
      BY <2>3, <3>2 DEF LimitPhase, StartStep, SelectStep, Start, Begin, LoopExit, LoopSelect, DedupSkip,
         DedupBreak, DedupMark, AppendNew, BeginEnqueue, EnqueueSend, EnqueueOverflow, EnqueueDone, DrainRecv,
         SaveQueue, SaveVisited, FinishFlush, FinishClear, CloseResults, Finish, LimitRecv, SendOverflow,
         RecvBatch, PersistTick, CtxDone
    <3> QED BY <1>2, <2>3, <3>1, <3>2 DEF Next, Terminated
  <2> QED BY <2>1, <2>2, <2>3
<1> QED BY <1>1, <1>2, TypeCorrect, PTL DEF Spec

\* Such a page was fetched.
LEMMA OkPageFetched ==
    ASSUME CrawlInv, NEW u \in URLs, OkPage(u)
    PROVE  u \in FetchedUrls
<1>1. TypeOK /\ IndexedFetched
  BY DEF CrawlInv, BaseInv, CountInv, Flushed
<1>2. resultsCh \in Seq(Record) /\ fetched[u] \in Seq(Nat)
  BY <1>1 DEF TypeOK, ChanTypeOK, WorkerTypeOK
<1>3. CountIn(resultsCh, RecordsOf(u)) \in Nat /\ IsFiniteSet(Places(resultsCh, RecordsOf(u)))
  BY <1>2, PlacesFinite
<1>4. index[u] + CountIn(resultsCh, RecordsOf(u)) > 0
  <2>1. CASE index[u] > 0
    BY <1>1, <1>3, <2>1, IndexedNumbers
  <2>2. CASE [url |-> u, ok |-> TRUE] \in Range(resultsCh)
    <3>1. [url |-> u, ok |-> TRUE] \in RecordsOf(u)
      BY DEF RecordsOf, Record
    <3>2. Places(resultsCh, RecordsOf(u)) # {}
      BY <2>2, <3>1 DEF Places, Range
    <3>3. CountIn(resultsCh, RecordsOf(u)) # 0
      BY <1>3, <3>2, FS_EmptySet DEF CountIn
    <3> QED BY <1>1, <1>3, <3>3, IndexedNumbers
  <2> QED BY <2>1, <2>2 DEF OkPage
<1>5. Len(fetched[u]) > 0
  <2>1. index[u] + CountIn(resultsCh, RecordsOf(u)) + Cardinality(FetchingUrl(u)) <= Len(fetched[u])
    BY <1>1 DEF IndexedFetched
  <2>2. Cardinality(FetchingUrl(u)) \in Nat /\ Len(fetched[u]) \in Nat /\ index[u] \in Nat
    BY <1>1, IndexedNumbers
  <2> QED BY <1>3, <1>4, <2>1, <2>2
<1> QED BY <1>2, <1>5 DEF FetchedUrls

\* The answers that the coordinator has not dealt with.
FoundTasks == UNION {Range(LinkTasks(wtask[w])) : w \in {v \in Workers : wpc[v] = "found"}}
Answers == Range(batch) \cup Answered \cup FoundTasks

\* The crawl is not stopped, not all URLs are marked, and the coordinator does
\* not yet act on the URL limit: it has looked before it waits, and not since.
Open ==
    /\ ~cancelled /\ ~VisitedFull
    /\ urlLimitReached => pc \in {"overflow", "idle", "dedup"}

\* A crawl that is stopped or at a limit stays so.
LEMMA OpenBefore == ASSUME CrawlInv, VisitedBounded', [Next]_vars, Open' PROVE Open
<1>1. ~cancelled
  BY CancelStable DEF Open
<1>2. ASSUME urlLimitReached PROVE pc \in {"overflow", "idle", "dedup"}
  <2>1. urlLimitReached' /\ pc' \in {"overflow", "idle", "dedup"}
    BY <1>2, LimitStable DEF Open, CrawlInv, BaseInv, CountInv
  <2>2. CASE (\E w \in Workers : WorkerStep(w)) \/ IndexerStep \/ Cancel \/ UNCHANGED vars
    BY <2>1, <2>2, WorkerFrame, IndexerFrame DEF Cancel, vars, coordVars
  <2>3. CASE StartStep \/ SelectStep
    BY <1>2, <2>1, <2>3 DEF StartStep, SelectStep, Start, Begin, LoopExit, LoopLimit, LoopSelect, DedupSkip,
       DedupBreak, DedupMark, AppendNew, BeginEnqueue, EnqueueSend, EnqueueOverflow, EnqueueDone, DrainRecv,
       SaveQueue, SaveVisited, FinishFlush, FinishClear, CloseResults, Finish, LimitRecv, SendOverflow,
       RecvBatch, PersistTick, CtxDone
  <2> QED BY <2>2, <2>3 DEF Next, Terminated
<1>3. ~VisitedFull
  <2>1. visited \subseteq visited' /\ IsFiniteSet(visited')
    BY VisitedGrows DEF CrawlInv, VisitedBounded
  <2>2. /\ Cardinality(visited) <= Cardinality(visited')
        /\ Cardinality(visited) \in Nat /\ Cardinality(visited') \in Nat
    BY <2>1, FS_Subset, FS_CardinalityType
  <2> QED BY <2>2, CrawlerAssumption DEF Open, VisitedFull
<1> QED BY <1>1, <1>2, <1>3 DEF Open

\* While the crawl is open, the coordinator passes over an answer within the
\* depth limit only when its URL is marked.
LEMMA AnswersKept ==
    ASSUME CrawlInv, LimitPhase, [Next]_vars, Open, NEW CONSTANT x, x \in Answers, x.depth <= MaxDepth
    PROVE  x \in Answers' \/ x.url \in visited'
<1>1. /\ BaseInv /\ CountInv /\ batch \in Seq(Task) /\ discoveredCh \in Seq(Seq(Task))
      /\ wpc \in [Workers -> WorkerPCs] /\ wtask \in [Workers -> Task \cup {NoTask}]
  BY DEF CrawlInv, BaseInv, CountInv, TypeOK, CoordTypeOK, ChanTypeOK, WorkerTypeOK
<1>2. pc # "limit" /\ pc # "drain" /\ pc # "saveVisited"
  BY <1>1 DEF Open, LimitPhase, BaseInv, Phases
<1>3. CASE x \in Range(batch)
  <2>1. batch # <<>> /\ pc = "dedup"
    BY <1>1, <1>3, EmptyQueue DEF BaseInv, Phases
  <2>2. Range(batch) = Range(Tail(batch)) \cup {Head(batch)} /\ Head(batch) \in Task
    BY <1>1, <2>1, QueueTail
  <2>3. CASE DedupSkip \/ DedupMark
    <3>1. batch' = Tail(batch)
      BY <2>3 DEF DedupSkip, DedupMark
    <3>2. CASE x = Head(batch)
      <4>1. x.url \in visited \/ visited' = visited \cup {x.url}
        BY <1>1, <2>2, <2>3, <3>2, CrawlerAssumption DEF DedupSkip, DedupMark, Skipped, Task
      <4> QED BY <1>1, <4>1, VisitedGrows
    <3> QED BY <1>3, <2>2, <3>1, <3>2 DEF Answers
  <2>4. ~DedupBreak
    BY DEF DedupBreak, Open
  <2>5. CASE batch' = batch
    BY <1>3, <2>5 DEF Answers
  <2>6. CASE (StartStep \/ SelectStep) /\ ~DedupSkip /\ ~DedupMark
    BY <2>1, <2>4, <2>5, <2>6 DEF StartStep, SelectStep, Start, LoopExit, LoopLimit, LoopSelect, AppendNew,
       BeginEnqueue, EnqueueSend, EnqueueOverflow, EnqueueDone, DrainRecv, SaveQueue, SaveVisited, FinishFlush,
       FinishClear, CloseResults, Finish, LimitRecv, SendOverflow, RecvBatch, PersistTick, CtxDone
  <2>7. CASE (\E w \in Workers : WorkerStep(w)) \/ IndexerStep \/ Cancel \/ UNCHANGED vars
    <3>1. batch' = batch
      BY <2>7, WorkerFrame, IndexerFrame DEF Cancel, vars, coordVars
    <3> QED BY <2>5, <3>1
  <2> QED BY <2>3, <2>6, <2>7 DEF Next, Terminated
<1>4. CASE x \in Answered
  <2>1. CASE discoveredCh' = discoveredCh
    BY <1>4, <2>1 DEF Answers, Answered
  <2>2. CASE Start
    <3>1. discoveredCh = <<>>
      BY <1>1, <2>2 DEF Start, BaseInv, Fresh
    <3> QED BY <1>4, <3>1 DEF Answered
  <2>3. CASE RecvBatch
    <3>1. discoveredCh # <<>> /\ discoveredCh' = Tail(discoveredCh) /\ batch' = Head(discoveredCh)
      BY <2>3 DEF RecvBatch
    <3>2. Answered = Answered' \cup Range(batch')
      BY <1>1, <3>1, AnsweredTail
    <3> QED BY <1>4, <3>2 DEF Answers
  <2>4. ASSUME NEW w \in Workers, WorkerAnswer(w) PROVE x \in Answers'
    <3>1. w \in Busy /\ discoveredCh' = Append(discoveredCh, Answer(w))
      BY <2>4 DEF WorkerAnswer, Busy
    <3>2. Answered' = Answered \cup Range(Answer(w))
      BY <1>1, <3>1, AnswerType, AnsweredAppend
    <3> QED BY <1>4, <3>2 DEF Answers
  <2>5. CASE (StartStep \/ SelectStep) /\ ~Start /\ ~RecvBatch
    BY <1>2, <2>1, <2>5 DEF StartStep, SelectStep, LoopExit, LoopLimit, LoopSelect, AppendNew,
       DedupSkip, DedupBreak, DedupMark, BeginEnqueue, EnqueueSend, EnqueueOverflow, EnqueueDone, DrainRecv,
       SaveQueue, SaveVisited, FinishFlush, FinishClear, CloseResults, Finish, LimitRecv, SendOverflow,
       PersistTick, CtxDone, chanVars
  <2>6. CASE \E w \in Workers : WorkerStep(w) /\ ~WorkerAnswer(w)
    BY <2>1, <2>6 DEF WorkerStep, WorkerRecv, WorkerExit, WorkerGiveBack, WorkerFetch, WorkerResult, chanVars
  <2>7. CASE IndexerStep \/ Cancel \/ UNCHANGED vars
    BY <2>1, <2>7, IndexerFrame DEF Cancel, vars, chanVars
  <2> QED BY <2>2, <2>3, <2>4, <2>5, <2>6, <2>7 DEF Next, Terminated
<1>5. CASE x \in FoundTasks
  <2>1. PICK w \in Workers : wpc[w] = "found" /\ x \in Range(LinkTasks(wtask[w]))
    BY <1>5 DEF FoundTasks
  <2>2. CASE wpc'[w] = wpc[w] /\ wtask'[w] = wtask[w]
    <3>1. LinkTasks(wtask[w])' = LinkTasks(wtask'[w])
      BY DEF LinkTasks
    <3>2. x \in FoundTasks'
      BY <2>1, <2>2, <3>1 DEF FoundTasks
    <3> QED BY <3>2 DEF Answers
  <2>3. CASE WorkerAnswer(w)
    <3>1. w \in Busy /\ discoveredCh' = Append(discoveredCh, Answer(w)) /\ Answer(w) = LinkTasks(wtask[w])
      BY <2>1, <2>3 DEF WorkerAnswer, Busy, Answer
    <3>2. Answered' = Answered \cup Range(Answer(w))
      BY <1>1, <3>1, AnswerType, AnsweredAppend
    <3> QED BY <2>1, <3>1, <3>2 DEF Answers
  <2>4. ASSUME NEW v \in Workers, WorkerStep(v), ~WorkerAnswer(w) PROVE wpc'[w] = wpc[w] /\ wtask'[w] = wtask[w]
    BY <1>1, <2>1, <2>4 DEF WorkerStep, WorkerRecv, WorkerExit, WorkerGiveBack, WorkerFetch, WorkerResult, WorkerAnswer
  <2>5. CASE StartStep \/ SelectStep
    <3>1. ~Start
      BY <1>1, <2>1 DEF Start, BaseInv, Fresh
    <3>2. UNCHANGED <<wpc, wtask>> \/
          \E v \in Workers : /\ wpc[v] = "recv" /\ wpc' = [wpc EXCEPT ![v] = "check"]
                             /\ \E t : wtask' = [wtask EXCEPT ![v] = t]
      BY <2>5, <3>1, CoordFrame DEF EnqueueSend, SendOverflow, Send
    <3>3. wpc'[w] = wpc[w] /\ wtask'[w] = wtask[w]
      BY <1>1, <2>1, <3>2
    <3> QED BY <2>2, <3>3
  <2>6. CASE IndexerStep \/ Cancel \/ UNCHANGED vars
    BY <2>2, <2>6, IndexerFrame DEF Cancel, vars, workerVars
  <2> QED BY <2>2, <2>3, <2>4, <2>5, <2>6 DEF Next, Terminated
<1> QED BY <1>3, <1>4, <1>5 DEF Answers

\* The seeds are marked from the start.
SeedsMarked == pc # "start" => SeedSet \subseteq visited

\* The seeds stay marked.
LEMMA SeedsMarkedAlways == Spec => []SeedsMarked
<1>1. Init => SeedsMarked
  BY DEF Init, SeedsMarked
<1>2. ASSUME BaseInv, SeedsMarked, [Next]_vars PROVE SeedsMarked'
  <2>1. CASE Start
    BY <2>1 DEF Start, Begin, SeedsMarked
  <2>2. CASE pc # "start"
    BY <1>2, <2>2, VisitedGrows DEF SeedsMarked
  <2>3. CASE pc = "start" /\ ~Start
    <3>1. CASE (\E w \in Workers : WorkerStep(w)) \/ IndexerStep \/ Cancel \/ UNCHANGED vars
      BY <2>3, <3>1, WorkerFrame, IndexerFrame DEF SeedsMarked, Cancel, vars, coordVars
    <3>2. ~((StartStep \/ SelectStep) /\ ~Start)
      BY <1>2, <2>3, CoordMoves DEF LoopPCs, EndPCs
    <3> QED BY <1>2, <2>3, <3>1, <3>2 DEF Next, Terminated
  <2> QED BY <2>1, <2>2, <2>3
<1> QED BY <1>1, <1>2, BaseAlways, PTL DEF Spec

\* While the crawl is open, every link of a page that was fetched with success
\* above the depth limit is marked or on its way to the coordinator.
LinksFollowed ==
    Open => \A u \in URLs : OkPage(u) /\ fetched[u][1] < MaxDepth =>
        \A v \in Range(Links[u]) : v \in visited \/ [url |-> v, depth |-> fetched[u][1] + 1] \in Answers

\* A worker's record and its links, an answer and its marks: no link gets lost
\* between them.
LEMMA LinksFollowedStep ==
    CrawlInv /\ VisitedBounded' /\ LimitPhase /\ LinksFollowed /\ [Next]_vars => LinksFollowed'
<1> SUFFICES ASSUME CrawlInv, VisitedBounded', LimitPhase, LinksFollowed, [Next]_vars, Open',
                    NEW CONSTANT u \in URLs, OkPage(u)', fetched'[u][1] < MaxDepth,
                    NEW CONSTANT v \in Range(Links[u])
             PROVE  v \in visited' \/ [url |-> v, depth |-> fetched'[u][1] + 1] \in Answers'
  BY DEF LinksFollowed
<1>1. Open /\ BaseInv /\ Exclusive /\ Provenance
  BY OpenBefore DEF CrawlInv
<1>2. CASE OkPage(u)
  <2>1. u \in FetchedUrls /\ fetched[u] \in Seq(Nat) /\ fetched[u] # <<>>
    BY <1>2, OkPageFetched DEF CrawlInv, BaseInv, CountInv, TypeOK, WorkerTypeOK, FetchedUrls
  <2>2. fetched'[u] = fetched[u] /\ fetched[u][1] \in Nat
    BY <1>1, <2>1, HistoryStable
  <2>3. v \in visited \/ [url |-> v, depth |-> fetched[u][1] + 1] \in Answers
    BY <1>1, <1>2, <2>2 DEF LinksFollowed
  <2>4. CASE v \in visited
    BY <1>1, <2>4, VisitedGrows
  <2>5. CASE [url |-> v, depth |-> fetched[u][1] + 1] \in Answers
    <3> DEFINE n == fetched[u][1] + 1
    <3>1. n <= MaxDepth /\ n \in Nat
      BY <2>2, CrawlerAssumption
    <3>2. PICK m \in Nat : m = n
      BY <3>1
    <3> HIDE DEF n
    <3>3. [url |-> v, depth |-> m] \in Answers' \/ v \in visited'
      BY <1>1, <2>5, <3>1, <3>2, AnswersKept DEF n
    <3>4. m = fetched'[u][1] + 1
      BY <2>2, <3>2 DEF n
    <3> QED BY <3>3, <3>4
  <2> QED BY <2>3, <2>4, <2>5
<1>3. CASE ~OkPage(u)
  <2>1. PICK w \in Workers : WorkerResult(w) /\ wtask[w].url = u /\ wpc'[w] = "found"
    BY <1>1, <1>3, OkPageNew DEF BaseInv, CountInv
  <2>2. wpc[w] = "fetch" /\ wtask' = wtask /\ fetched' = fetched
    BY <2>1 DEF WorkerResult
  <2>3. fetched[u] = <<wtask[w].depth>>
    BY <1>1, <2>1, <2>2 DEF Provenance
  <2>4. fetched[u][1] = wtask[w].depth
    BY <2>3
  <2>5. PICK i \in DOMAIN Links[u] : v = Links[u][i]
    BY DEF Range
  <2>6. [url |-> v, depth |-> wtask[w].depth + 1] \in Range(LinkTasks(wtask[w]))
    BY <2>1, <2>5 DEF LinkTasks, Range
  <2>7. LinkTasks(wtask'[w]) = LinkTasks(wtask[w]) /\ LinkTasks(wtask[w])' = LinkTasks(wtask'[w])
    BY <2>2 DEF LinkTasks
  <2>8. [url |-> v, depth |-> wtask[w].depth + 1] \in FoundTasks'
    BY <2>1, <2>6, <2>7 DEF FoundTasks
  <2> QED BY <2>2, <2>4, <2>8 DEF Answers
<1> QED BY <1>2, <1>3

\* The links are followed in every state.
LEMMA LinksFollowedAlways == ASSUME DistinctSeeds PROVE Spec => []LinksFollowed
<1>1. Init => LinksFollowed
  <2> SUFFICES ASSUME Init, NEW u \in URLs PROVE ~OkPage(u)
    BY DEF LinksFollowed
  <2> QED BY EmptyQueue DEF Init, OkPage
<1> QED BY <1>1, CrawlInvAlways, VisitedBoundedAlways, LimitPhaseAlways, LinksFollowedStep, PTL DEF Spec

\* When Start is about to report "completed", nothing is left to look at.
LEMMA QuietAtFinish ==
    ASSUME CrawlInv, Finish, ~cancelled, ~urlLimitReached
    PROVE  /\ Open /\ Answers = {} /\ visited = FetchedUrls
           /\ pc = "resultsClosed" /\ \A w \in Workers : wpc[w] = "exit"
<1>1. /\ pc = "resultsClosed" /\ ipc = "exit"
      /\ metrics.PagesProcessed = Cardinality(FetchedUrls) /\ visited = FetchedUrls
  BY ClosedBooks DEF Finish
<1>2. Open
  BY <1>1 DEF Open, VisitedFull, urlLimitReached
<1>3. batch = <<>> /\ \A w \in Workers : wpc[w] = "exit"
  BY <1>1 DEF CrawlInv, BaseInv, Phases
<1>4. discoveredCh = <<>>
  <2>1. inFlight = 0 /\ inFlight = Len(taskCh) + Cardinality(Busy) + Len(discoveredCh)
        /\ taskCh \in Seq(Task) /\ discoveredCh \in Seq(Seq(Task))
    BY <1>1 DEF CrawlInv, BaseInv, CountInv, InFlightExact, ZeroAtEnd, EndPCs, TypeOK, ChanTypeOK
  <2>2. Len(discoveredCh) = 0
    BY <2>1, BusyNat
  <2> QED BY <2>1, <2>2, EmptySeq
<1>5. Answers = {}
  BY <1>3, <1>4, EmptyQueue DEF Answers, Answered, FoundTasks
<1> QED BY <1>1, <1>2, <1>3, <1>5

\* Then everything was followed.
LEMMA CompletedAtFinish ==
    ASSUME CrawlInv, LinksFollowed, SeedsMarked, Finish, ~cancelled, ~urlLimitReached
    PROVE  /\ \A u \in SeedSet : fetched[u] # <<>>
           /\ \A u \in URLs : index[u] > 0 /\ (\E i \in DOMAIN fetched[u] : fetched[u][i] < MaxDepth)
                 => \A i \in DOMAIN Links[u] : fetched[Links[u][i]] # <<>>
<1>1. Open /\ Answers = {} /\ visited = FetchedUrls /\ pc = "resultsClosed"
  BY QuietAtFinish
<1>4. \A u \in SeedSet : fetched[u] # <<>>
  BY <1>1 DEF SeedsMarked, FetchedUrls
<1>5. ASSUME NEW u \in URLs, index[u] > 0, NEW j \in DOMAIN fetched[u], fetched[u][j] < MaxDepth,
             NEW i \in DOMAIN Links[u]
      PROVE  fetched[Links[u][i]] # <<>>
  <2>1. fetched[u] \in Seq(Nat) /\ Len(fetched[u]) <= 1
    BY DEF CrawlInv, BaseInv, CountInv, TypeOK, WorkerTypeOK, Exclusive, AtMostOnce
  <2>2. j = 1
    BY <2>1
  <2>3. Links[u][i] \in Range(Links[u])
    BY DEF Range
  <2>4. Links[u][i] \in visited
    BY <1>1, <1>5, <2>2, <2>3 DEF LinksFollowed, OkPage
  <2> QED BY <1>1, <2>4 DEF FetchedUrls
<1> QED BY <1>4, <1>5

\* For every web with distinct seeds: the reason "completed" means that the
\* crawl is closed under the links of the indexed pages within the depth limit.
THEOREM CompletedCrawlsAreClosed == ASSUME DistinctSeeds PROVE Spec => []CompletedIsClosed
<1>1. Init => CompletedIsClosed
  BY DEF Init, CompletedIsClosed, ZeroMetrics
<1>2. ASSUME CrawlInv, LinksFollowed, SeedsMarked, CompletedIsClosed, [Next]_vars PROVE CompletedIsClosed'
  <2>1. TypeOK /\ BaseInv /\ IndexPhases
    BY <1>2 DEF CrawlInv, BaseInv, CountInv, Flushed
  <2>2. CASE pc = "done"
    <3>1. UNCHANGED <<metrics, fetched, index>>
      BY <1>2, <2>1, <2>2, DoneIsQuiet DEF vars, workerVars, indexVars
    <3> QED BY <1>2, <3>1 DEF CompletedIsClosed
  <2>3. CASE pc # "done" /\ ~Finish
    <3>1. metrics'.StopReason = metrics.StopReason /\ metrics.StopReason = "none"
      BY <1>2, <2>1, <2>3, MetricsFrame, IndexerKeepsReason DEF CrawlInv, ReasonLast
    <3> QED BY <3>1 DEF CompletedIsClosed
  <2>4. CASE Finish
    <3>1. UNCHANGED <<fetched, index>> /\ metrics'.StopReason = StopReasonNow
      BY <2>1, <2>4 DEF Finish, workerVars, indexVars, TypeOK, Metrics
    <3>2. CASE ~cancelled /\ ~urlLimitReached
      BY <1>2, <2>4, <3>1, <3>2, CompletedAtFinish DEF CompletedIsClosed
    <3>3. CASE cancelled \/ urlLimitReached
      <4>1. metrics'.StopReason # "completed"
        BY <3>1, <3>3 DEF StopReasonNow
      <4> QED BY <4>1 DEF CompletedIsClosed
    <3> QED BY <3>2, <3>3
  <2> QED BY <2>2, <2>3, <2>4
<1> QED BY <1>1, <1>2, CrawlInvAlways, LinksFollowedAlways, SeedsMarkedAlways, PTL DEF Spec

-----------------------------------------------------------------------------
(* The pages within n links of the seeds *)

\* A set of numbers that is not empty has a least one.
LEMMA LeastOf ==
    ASSUME NEW S, S \subseteq Nat, S # {}
    PROVE  \E x \in S : \A y \in S : x <= y
<1> DEFINE R == {ss \in Nat \X Nat : ss[1] < ss[2]}
<1>1. IsWellFoundedOn(R, Nat)
  <2>1. R = OpToRel(<, Nat)
    BY Zenon DEF OpToRel
  <2> QED BY <2>1, NatLessThanWellFounded, Zenon
<1>2. \A x, y \in Nat : x < y => <<x, y>> \in R
  OBVIOUS
<1> HIDE DEF R
<1>3. PICK x \in S : \A y \in S : ~ (<<y, x>> \in R)
  BY <1>1, WFMin
<1>4. \A y \in S : ~(y < x)
  BY <1>2, <1>3
<1> QED BY <1>3, <1>4

\* What the definition of Within computes at n from its value at n - 1.
Layer(g, n) == IF n = 0 THEN Range(Seeds) ELSE g[n - 1] \cup UNION {Range(Links[u]) : u \in g[n - 1]}

\* There is a function that satisfies the definition up to any depth: the least
\* depth without one would be one more than a depth with one.
LEMMA LayersExist == \A m \in Nat : \E g : g = [n \in 0..m |-> Layer(g, n)]
<1> DEFINE Bad == {m \in Nat : ~ \E g : g = [n \in 0..m |-> Layer(g, n)]}
<1> SUFFICES ASSUME Bad # {} PROVE FALSE
  OBVIOUS
<1>1. PICK k \in Bad : \A y \in Bad : k <= y
  BY LeastOf
<1>2. k \in Nat /\ ~ \E g : g = [n \in 0..k |-> Layer(g, n)]
  OBVIOUS
<1>3. CASE k = 0
  <2> DEFINE g == [n \in 0..0 |-> Range(Seeds)]
  <2>1. g = [n \in 0..0 |-> Layer(g, n)]
    BY DEF Layer
  <2> HIDE DEF g
  <2> QED BY <1>2, <1>3, <2>1
<1>4. CASE k # 0
  <2>1. k - 1 \in Nat /\ k - 1 \notin Bad
    BY <1>1, <1>2, <1>4
  <2>2. PICK h : h = [n \in 0..(k - 1) |-> Layer(h, n)]
    BY <2>1
  <2> DEFINE g == [n \in 0..k |-> IF n = k THEN Layer(h, k) ELSE h[n]]
  <2>3. ASSUME NEW n \in 0..k PROVE g[n] = Layer(g, n)
    <3>1. n # 0 => n - 1 \in 0..k /\ g[n - 1] = h[n - 1]
      BY <1>2
    <3>2. Layer(g, n) = Layer(h, n)
      BY <3>1 DEF Layer
    <3>3. n # k => n \in 0..(k - 1)
      BY <1>2
    <3> QED BY <2>2, <3>2, <3>3
  <2>4. g = [n \in 0..k |-> g[n]]
    OBVIOUS
  <2> HIDE DEF g
  <2>5. g = [n \in 0..k |-> Layer(g, n)]
    BY <2>3, <2>4
  <2> QED BY <1>2, <2>5
<1> QED BY <1>3, <1>4

\* Within is such a function.
LEMMA WithinUnfold == \A n \in 0..MaxDepth : Within[n] = Layer(Within, n)
<1>1. \E g : g = [n \in 0..MaxDepth |-> Layer(g, n)]
  BY LayersExist, CrawlerAssumption
<1>2. Within = CHOOSE g : g = [n \in 0..MaxDepth |-> Layer(g, n)]
  BY DEF Within, Layer
<1> QED BY <1>1, <1>2

\* The seeds are at distance 0; one link takes a page one further, and only a
\* link does.
LEMMA WithinSteps ==
    /\ Within[0] = SeedSet
    /\ \A n \in 1..MaxDepth :
        /\ Within[n - 1] \subseteq Within[n]
        /\ \A p \in Within[n - 1] : Range(Links[p]) \subseteq Within[n]
        /\ \A u \in Within[n] \ Within[n - 1] : \E p \in Within[n - 1] : u \in Range(Links[p])
<1>0. MaxDepth \in Nat
  BY CrawlerAssumption
<1>1. Within[0] = SeedSet
  <2>1. Within[0] = Layer(Within, 0)
    BY <1>0, WithinUnfold
  <2> QED BY <2>1 DEF Layer, SeedSet
<1>2. ASSUME NEW n \in 1..MaxDepth
      PROVE  Within[n] = Within[n - 1] \cup UNION {Range(Links[u]) : u \in Within[n - 1]}
  <2>1. n \in 0..MaxDepth /\ n # 0
    BY <1>0
  <2>2. Within[n] = Layer(Within, n)
    BY <2>1, WithinUnfold
  <2> QED BY <2>1, <2>2 DEF Layer
<1> QED BY <1>1, <1>2

\* Only pages of the web are within any distance.
LEMMA WithinPages == \A n \in 0..MaxDepth : Within[n] \subseteq URLs
<1> DEFINE Bad == {n \in 0..MaxDepth : ~(Within[n] \subseteq URLs)}
<1> SUFFICES ASSUME Bad # {} PROVE FALSE
  OBVIOUS
<1>0. Bad \subseteq Nat
  BY CrawlerAssumption
<1>1. PICK k \in Bad : \A y \in Bad : k <= y
  BY <1>0, LeastOf
<1>2. k \in 0..MaxDepth /\ ~(Within[k] \subseteq URLs) /\ MaxDepth \in Nat
  BY CrawlerAssumption
<1>3. SeedSet \subseteq URLs /\ \A p \in URLs : Range(Links[p]) \subseteq URLs
  BY CrawlerAssumption DEF SeedSet, Range
<1>4. CASE k = 0
  BY <1>2, <1>3, <1>4, WithinSteps
<1>5. CASE k # 0
  <2>1. k \in 1..MaxDepth /\ k - 1 \in 0..MaxDepth /\ k - 1 \notin Bad
    BY <1>1, <1>2, <1>5
  <2>2. Within[k - 1] \subseteq URLs
    BY <2>1
  <2>3. \A u \in Within[k] \ Within[k - 1] : u \in URLs
    BY <1>3, <2>1, <2>2, WithinSteps
  <2> QED BY <1>2, <2>2, <2>3
<1> QED BY <1>4, <1>5

\* The sets grow with the distance.
LEMMA WithinGrows == \A m, n \in 0..MaxDepth : m <= n => Within[m] \subseteq Within[n]
<1> SUFFICES ASSUME NEW m \in 0..MaxDepth PROVE \A n \in m..MaxDepth : Within[m] \subseteq Within[n]
  BY CrawlerAssumption
<1> DEFINE Bad == {n \in m..MaxDepth : ~(Within[m] \subseteq Within[n])}
<1> SUFFICES ASSUME Bad # {} PROVE FALSE
  OBVIOUS
<1>1. Bad \subseteq Nat
  BY CrawlerAssumption
<1>2. PICK k \in Bad : \A y \in Bad : k <= y
  BY <1>1, LeastOf
<1>3. k \in m..MaxDepth /\ ~(Within[m] \subseteq Within[k]) /\ k # m /\ MaxDepth \in Nat /\ m \in Nat
  BY CrawlerAssumption
<1>4. k \in 1..MaxDepth /\ k - 1 \in m..MaxDepth /\ k - 1 \notin Bad
  BY <1>2, <1>3
<1>5. Within[m] \subseteq Within[k - 1] /\ Within[k - 1] \subseteq Within[k]
  BY <1>4, WithinSteps
<1> QED BY <1>3, <1>5
-----------------------------------------------------------------------------
(* No fetch fails *)

\* A page that was fetched with success stays one: its record only leaves
\* resultsCh to be counted in the index.
LEMMA OkPageStays ==
    ASSUME BaseInv, [Next]_vars, NEW CONSTANT u \in URLs, OkPage(u)
    PROVE  OkPage(u)'
<1> DEFINE rec == [url |-> u, ok |-> TRUE]
<1>1. /\ resultsCh \in Seq(Record) /\ index \in [URLs -> Nat] /\ rec \in Record /\ rec.url = u /\ rec.ok = TRUE
  BY DEF BaseInv, CountInv, TypeOK, ChanTypeOK, IndexTypeOK, Record
<1>2. index[u] > 0 \/ rec \in Range(resultsCh)
  BY DEF OkPage
<1> HIDE DEF rec
<1>3. SUFFICES index'[u] > 0 \/ rec \in Range(resultsCh')
  BY DEF OkPage, rec
<1>4. CASE UNCHANGED <<index, resultsCh>>
  BY <1>2, <1>4
<1>5. CASE StartStep \/ SelectStep
  <2>1. ~Start
    <3>1. CASE Start
      <4>1. resultsCh = <<>> /\ index[u] = 0
        BY <3>1 DEF Start, BaseInv, Fresh
      <4> QED BY <1>2, <4>1, EmptyQueue
    <3> QED BY <3>1
  <2> QED BY <1>4, <1>5, <2>1, CoordFrame DEF indexVars
<1>6. ASSUME NEW w \in Workers, WorkerStep(w) PROVE index'[u] > 0 \/ rec \in Range(resultsCh')
  <2>1. index' = index
    BY <1>6, WorkerFrame DEF indexVars
  <2>2. CASE WorkerResult(w)
    <3>1. PICK ok \in BOOLEAN : resultsCh' = Append(resultsCh, [url |-> wtask[w].url, ok |-> ok])
      BY <2>2 DEF WorkerResult, FetchOutcomes
    <3>2. w \in Busy
      BY <2>2 DEF WorkerResult, Busy
    <3>3. [url |-> wtask[w].url, ok |-> ok] \in Record
      BY <3>2 DEF BaseInv, CountInv, HeldTasks, Task, Record
    <3>4. Range(resultsCh) \subseteq Range(resultsCh')
      BY <1>1, <3>1, <3>3, RangeAppend
    <3> QED BY <1>2, <2>1, <3>4
  <2>3. CASE ~WorkerResult(w)
    <3>1. resultsCh' = resultsCh
      BY <1>6, <2>3 DEF WorkerStep, WorkerRecv, WorkerExit, WorkerGiveBack, WorkerFetch, WorkerAnswer, chanVars
    <3> QED BY <1>4, <2>1, <3>1
  <2> QED BY <2>2, <2>3
<1>7. CASE IndexerStep
  <2>1. CASE IndexPage \/ IndexError
    <3>1. resultsCh # <<>> /\ resultsCh' = Tail(resultsCh)
      BY <2>1 DEF IndexPage, IndexError
    <3>2. \A r \in Range(resultsCh) : r = Head(resultsCh) \/ r \in Range(resultsCh')
      <4>1. /\ DOMAIN resultsCh = 1..Len(resultsCh) /\ Len(resultsCh) \in Nat /\ Head(resultsCh) = resultsCh[1]
            /\ DOMAIN resultsCh' = 1..(Len(resultsCh) - 1)
            /\ \A i \in 1..(Len(resultsCh) - 1) : resultsCh'[i] = resultsCh[i + 1]
        BY <1>1, <3>1, HeadTailProperties
      <4>2. \A i \in 1..Len(resultsCh) : i = 1 \/ (i - 1 \in 1..(Len(resultsCh) - 1) /\ resultsCh'[i - 1] = resultsCh[i])
        BY <4>1
      <4> QED BY <4>1, <4>2 DEF Range
    <3>3. index[u] \in Nat /\ (index'[u] = index[u] \/ index'[u] = index[u] + 1)
      <4>1. index' = index \/ index' = [index EXCEPT ![Head(resultsCh).url] = @ + 1]
        BY <2>1 DEF IndexPage, IndexError, indexVars
      <4>2. Head(resultsCh) \in Record
        BY <1>1, <3>1
      <4>3. Head(resultsCh).url \in URLs
        BY <4>2 DEF Record
      <4> QED BY <1>1, <4>1, <4>3
    <3>4. CASE rec = Head(resultsCh)
      <4>1. ~IndexError
        BY <1>1, <3>4 DEF IndexError
      <4>2. index' = [index EXCEPT ![u] = @ + 1]
        BY <1>1, <2>1, <3>4, <4>1 DEF IndexPage
      <4> QED BY <1>1, <4>2
    <3>5. CASE index[u] > 0
      BY <1>1, <3>3, <3>5
    <3> QED BY <1>2, <3>2, <3>4, <3>5
  <2>2. CASE IndexTick \/ IndexClosed \/ IndexSave \/ IndexAppend
    BY <1>4, <2>2 DEF IndexTick, IndexClosed, IndexSave, IndexAppend, chanVars
  <2> QED BY <1>7, <2>1, <2>2 DEF IndexerStep
<1>8. CASE Cancel \/ UNCHANGED vars
  BY <1>4, <1>8 DEF Cancel, vars, indexVars, chanVars
<1> QED BY <1>5, <1>6, <1>7, <1>8 DEF Next, Terminated

\* When no page is flaky and nobody cancels, a page that a worker has begun to
\* fetch is still being fetched or was fetched with success.
NoFailure ==
    Flaky = {} /\ ~cancelled =>
        \A u \in FetchedUrls : OkPage(u) \/ \E w \in Workers : wpc[w] = "fetch" /\ wtask[w].url = u

\* Such a fetch ends well.
LEMMA NoFailureStep == BaseInv /\ Exclusive /\ NoFailure /\ [Next]_vars => NoFailure'
<1> SUFFICES ASSUME BaseInv, Exclusive, NoFailure, [Next]_vars, Flaky = {}, ~cancelled', NEW CONSTANT u \in FetchedUrls'
             PROVE  OkPage(u)' \/ \E w \in Workers : wpc'[w] = "fetch" /\ wtask'[w].url = u
  BY DEF NoFailure
<1>1. /\ ~cancelled /\ u \in URLs /\ resultsCh \in Seq(Record)
      /\ wpc \in [Workers -> WorkerPCs] /\ wtask \in [Workers -> Task \cup {NoTask}]
  BY CancelStable DEF FetchedUrls, BaseInv, CountInv, TypeOK, WorkerTypeOK, ChanTypeOK
<1>2. CASE OkPage(u)
  BY <1>1, <1>2, OkPageStays
<1>3. ASSUME NEW w \in Workers, WorkerFetch(w), u = wtask[w].url
      PROVE  \E v \in Workers : wpc'[v] = "fetch" /\ wtask'[v].url = u
  BY <1>1, <1>3 DEF WorkerFetch
<1>4. ASSUME NEW w \in Workers, wpc[w] = "fetch", wtask[w].url = u
      PROVE  OkPage(u)' \/ \E v \in Workers : wpc'[v] = "fetch" /\ wtask'[v].url = u
  <2>1. CASE WorkerResult(w)
    <3>1. resultsCh' = Append(resultsCh, [url |-> u, ok |-> TRUE])
      BY <1>1, <1>4, <2>1 DEF WorkerResult, FetchOutcomes
    <3>2. [url |-> u, ok |-> TRUE] \in Range(resultsCh')
      <4>1. [url |-> u, ok |-> TRUE] \in Record
        BY <1>1 DEF Record
      <4> QED BY <1>1, <3>1, <4>1, RangeAppend
    <3> QED BY <3>2 DEF OkPage
  <2>2. CASE wpc'[w] = "fetch" /\ wtask'[w] = wtask[w]
    BY <1>4, <2>2
  <2>3. ASSUME NEW v \in Workers, WorkerStep(v), ~WorkerResult(w) PROVE wpc'[w] = wpc[w] /\ wtask'[w] = wtask[w]
    <3>1. CASE v = w
      BY <1>4, <2>3, <3>1 DEF WorkerStep, WorkerRecv, WorkerExit, WorkerGiveBack, WorkerFetch, WorkerAnswer
    <3>2. CASE v # w
      BY <1>1, <2>3, <3>2 DEF WorkerStep, WorkerRecv, WorkerExit, WorkerGiveBack, WorkerFetch, WorkerResult, WorkerAnswer
    <3> QED BY <3>1, <3>2
  <2>4. CASE StartStep \/ SelectStep
    <3>1. ~Start
      BY <1>1, <1>4 DEF Start, BaseInv, Fresh
    <3>2. UNCHANGED <<wpc, wtask>> \/
          \E v \in Workers : /\ wpc[v] = "recv" /\ wpc' = [wpc EXCEPT ![v] = "check"]
                             /\ \E t : wtask' = [wtask EXCEPT ![v] = t]
      BY <2>4, <3>1, CoordFrame DEF EnqueueSend, SendOverflow, Send
    <3>3. wpc'[w] = wpc[w] /\ wtask'[w] = wtask[w]
      BY <1>1, <1>4, <3>2
    <3> QED BY <1>4, <2>2, <3>3
  <2>5. CASE IndexerStep \/ Cancel \/ UNCHANGED vars
    BY <1>4, <2>2, <2>5, IndexerFrame DEF Cancel, vars, workerVars
  <2> QED BY <1>4, <2>1, <2>2, <2>3, <2>4, <2>5 DEF Next, Terminated
<1>5. CASE \E w \in Workers : WorkerFetch(w)
  <2>1. PICK w \in Workers : WorkerFetch(w)
    BY <1>5
  <2>2. u \in FetchedUrls \/ u = wtask[w].url
    BY <2>1, FetchMoves
  <2> QED BY <1>1, <1>2, <1>3, <1>4, <2>1, <2>2 DEF NoFailure
<1>6. CASE \A w \in Workers : ~WorkerFetch(w)
  <2>1. u \in FetchedUrls
    BY <1>6, HistoryFrame DEF FetchedUrls
  <2> QED BY <1>1, <1>2, <1>4, <2>1 DEF NoFailure
<1> QED BY <1>5, <1>6

\* No fetch fails in a crawl without flaky pages.
LEMMA NoFailureAlways == ASSUME DistinctSeeds PROVE Spec => []NoFailure
<1>1. Init => NoFailure
  BY DEF Init, NoFailure, FetchedUrls
<1> QED BY <1>1, BaseAlways, ExclusiveAlways, NoFailureStep, PTL DEF Spec
-----------------------------------------------------------------------------
(* The depths in the queues *)

NoLater(S, T) == \A x \in S, y \in T : x.depth <= y.depth
Ascending(q) == \A i, j \in DOMAIN q : i <= j => q[i].depth <= q[j].depth

\* A queue whose tasks all have one depth ascends.
LEMMA AscendingLevel == \A q : NoLater(Range(q), Range(q)) => Ascending(q)
BY DEF NoLater, Range, Ascending

\* The head of an ascending queue is no later than the rest, which ascends.
LEMMA AscendingTail ==
    ASSUME NEW q \in Seq(Task), q # <<>>, Ascending(q)
    PROVE  Ascending(Tail(q)) /\ NoLater({Head(q)}, Range(Tail(q)))
<1> DEFINE n == Len(q)
<1>1. n \in Nat /\ n > 0 /\ DOMAIN q = 1..n /\ Head(q) = q[1]
  OBVIOUS
<1>2. DOMAIN Tail(q) = 1..(n - 1) /\ \A i \in 1..(n - 1) : Tail(q)[i] = q[i + 1]
  BY <1>1, HeadTailProperties
<1> HIDE DEF n
<1>3. ASSUME NEW i \in 1..(n - 1), NEW j \in 1..(n - 1), i <= j PROVE q[i + 1].depth <= q[j + 1].depth
  <2>1. i + 1 \in 1..n /\ j + 1 \in 1..n /\ i + 1 <= j + 1
    BY <1>1, <1>3
  <2> QED BY <1>1, <2>1 DEF Ascending
<1>4. ASSUME NEW j \in 1..(n - 1) PROVE q[1].depth <= q[j + 1].depth
  <2>1. 1 \in 1..n /\ j + 1 \in 1..n /\ 1 <= j + 1
    BY <1>1
  <2> QED BY <1>1, <2>1 DEF Ascending
<1>5. Ascending(Tail(q))
  BY <1>2, <1>3 DEF Ascending
<1>6. NoLater({Head(q)}, Range(Tail(q)))
  BY <1>1, <1>2, <1>4 DEF NoLater, Range
<1> QED BY <1>5, <1>6

\* An ascending queue goes on ascending with what is no earlier.
LEMMA AscendingConcat ==
    ASSUME NEW q \in Seq(Task), NEW r \in Seq(Task), Ascending(q), Ascending(r), NoLater(Range(q), Range(r))
    PROVE  Ascending(q \o r)
<1> DEFINE m == Len(q)
           n == Len(r)
           c == q \o r
<1>1. m \in Nat /\ n \in Nat /\ DOMAIN q = 1..m /\ DOMAIN r = 1..n
  OBVIOUS
<1>2. DOMAIN c = 1..(m + n) /\ \A i \in 1..(m + n) : c[i] = IF i <= m THEN q[i] ELSE r[i - m]
  BY <1>1, ConcatProperties
<1> HIDE DEF m, n, c
<1>3. SUFFICES ASSUME NEW i \in 1..(m + n), NEW j \in 1..(m + n), i <= j
               PROVE  c[i].depth <= c[j].depth
  BY <1>2 DEF Ascending, c
<1>4. CASE j <= m
  <2>1. i \in 1..m /\ j \in 1..m /\ c[i] = q[i] /\ c[j] = q[j]
    BY <1>1, <1>2, <1>3, <1>4
  <2> QED BY <1>1, <1>3, <2>1 DEF Ascending
<1>5. CASE i > m
  <2>1. i - m \in 1..n /\ j - m \in 1..n /\ i - m <= j - m /\ c[i] = r[i - m] /\ c[j] = r[j - m]
    BY <1>1, <1>2, <1>3, <1>5
  <2> QED BY <1>1, <2>1 DEF Ascending
<1>6. CASE i <= m /\ ~(j <= m)
  <2>1. i \in 1..m /\ j - m \in 1..n /\ c[i] = q[i] /\ c[j] = r[j - m]
    BY <1>1, <1>2, <1>3, <1>6
  <2> QED BY <1>1, <2>1 DEF NoLater, Range
<1> QED BY <1>1, <1>4, <1>5, <1>6

\* In particular with one task more.
LEMMA AscendingAppend ==
    ASSUME NEW q \in Seq(Task), NEW t \in Task, Ascending(q), NoLater(Range(q), {t})
    PROVE  Ascending(Append(q, t))
<1>1. <<t>> \in Seq(Task) /\ Append(q, t) = q \o <<t>>
  OBVIOUS
<1>2. Range(<<t>>) = {t} /\ Ascending(<<t>>)
  <2>1. t.depth \in Nat
    BY DEF Task
  <2> QED BY <2>1 DEF Range, Ascending
<1> QED BY <1>1, <1>2, AscendingConcat

\* The channel taskCh never holds more than its capacity.
BufferBound == Len(taskCh) <= QueueSize

\* Every send looks at the capacity first.
LEMMA BufferBoundAlways == Spec => []BufferBound
<1>1. Init => BufferBound
  BY CrawlerAssumption DEF Init, BufferBound
<1>2. ASSUME BaseInv, BufferBound, [Next]_vars PROVE BufferBound'
  <2>1. taskCh \in Seq(Task) /\ Len(taskCh) \in Nat /\ QueueSize \in Nat /\ Len(taskCh) <= QueueSize
    BY <1>2, CrawlerAssumption DEF BaseInv, CountInv, TypeOK, ChanTypeOK, BufferBound
  <2>2. CASE taskCh' = taskCh
    BY <1>2, <2>2 DEF BufferBound
  <2>3. CASE Start
    <3> DEFINE e == IF Len(SeedQueue) < QueueSize THEN Len(SeedQueue) ELSE QueueSize
    <3>1. taskCh' = SubSeq(SeedQueue, 1, e)
      BY <2>3 DEF Start, Begin
    <3>2. SeedQueue \in Seq(Task) /\ e \in 0..Len(SeedQueue) /\ e <= QueueSize
      BY <2>1, SeedQueueType
    <3> HIDE DEF e
    <3> QED BY <3>1, <3>2, QueueSplit DEF BufferBound
  <2>4. CASE EnqueueSend \/ SendOverflow
    <3>1. taskCh' = taskCh \/ \E t : Len(taskCh) < QueueSize /\ taskCh' = Append(taskCh, t)
      BY <2>4 DEF EnqueueSend, SendOverflow, Send
    <3> QED BY <2>1, <2>2, <3>1 DEF BufferBound
  <2>5. ASSUME NEW w \in Workers, WorkerStep(w) PROVE BufferBound'
    <3>1. taskCh' = taskCh \/ (taskCh # <<>> /\ taskCh' = Tail(taskCh))
      BY <2>5 DEF WorkerStep, WorkerRecv, WorkerExit, WorkerGiveBack, WorkerFetch, WorkerResult, WorkerAnswer, chanVars
    <3> QED BY <2>1, <2>2, <3>1 DEF BufferBound
  <2>6. CASE IndexerStep \/ Cancel \/ UNCHANGED vars
    BY <2>2, <2>6, IndexerFrame DEF Cancel, vars, chanVars
  <2>7. CASE (StartStep \/ SelectStep) /\ ~Start /\ ~EnqueueSend /\ ~SendOverflow
    BY <2>2, <2>7, CoordFrame
  <2> QED BY <1>2, <2>3, <2>4, <2>5, <2>6, <2>7 DEF Next, Terminated
<1> QED BY <1>1, <1>2, BaseAlways, PTL DEF Spec

\* A worker gives a task back only after a cancellation.
GivenBack == \A w \in Workers : wpc[w] = "return" => cancelled

\* The workers look at the context.
LEMMA GivenBackAlways == Spec => []GivenBack
<1>1. Init => GivenBack
  BY DEF Init, GivenBack
<1>2. ASSUME BaseInv, GivenBack, [Next]_vars PROVE GivenBack'
  <2> SUFFICES ASSUME NEW w \in Workers, wpc'[w] = "return" PROVE cancelled
    BY <1>2, CancelStable DEF GivenBack
  <2>1. wpc \in [Workers -> WorkerPCs]
    BY <1>2 DEF BaseInv, CountInv, TypeOK, WorkerTypeOK
  <2>2. CASE wpc'[w] = wpc[w]
    BY <1>2, <2>2 DEF GivenBack
  <2>3. CASE StartStep \/ SelectStep
    <3>1. CASE Start
      BY <3>1 DEF Start, Begin
    <3>2. CASE EnqueueSend \/ SendOverflow
      <4>1. wpc' = wpc \/ \E v \in Workers : wpc' = [wpc EXCEPT ![v] = "check"]
        BY <3>2 DEF EnqueueSend, SendOverflow, Send
      <4> QED BY <2>1, <2>2, <4>1
    <3> QED BY <2>2, <2>3, <3>1, <3>2, CoordFrame
  <2>4. ASSUME NEW v \in Workers, WorkerStep(v) PROVE wpc'[w] = wpc[w] \/ cancelled
    BY <2>1, <2>4 DEF WorkerStep, WorkerRecv, WorkerExit, WorkerGiveBack, WorkerFetch, WorkerResult, WorkerAnswer
  <2>5. CASE IndexerStep \/ Cancel \/ UNCHANGED vars
    BY <2>2, <2>5, IndexerFrame DEF Cancel, vars, workerVars
  <2> QED BY <1>2, <2>2, <2>3, <2>4, <2>5 DEF Next, Terminated
<1> QED BY <1>1, <1>2, BaseAlways, PTL DEF Spec

\* The answers on discoveredCh are no later than those behind them, and all
\* tasks of one answer have the same depth.
AnswersAscend ==
    \A i, j \in DOMAIN discoveredCh : i <= j => NoLater(Range(discoveredCh[i]), Range(discoveredCh[j]))

\* Taking the first answer keeps that, ...
LEMMA AnswersAscendTail ==
    ASSUME discoveredCh \in Seq(Seq(Task)), discoveredCh # <<>>, discoveredCh' = Tail(discoveredCh), AnswersAscend
    PROVE  /\ AnswersAscend'
           /\ NoLater(Range(Head(discoveredCh)), Range(Head(discoveredCh)) \cup Answered')
<1> DEFINE n == Len(discoveredCh)
<1>1. n \in Nat /\ n > 0 /\ DOMAIN discoveredCh = 1..n /\ Head(discoveredCh) = discoveredCh[1]
  OBVIOUS
<1>2. DOMAIN discoveredCh' = 1..(n - 1) /\ \A i \in 1..(n - 1) : discoveredCh'[i] = discoveredCh[i + 1]
  BY <1>1, HeadTailProperties
<1> HIDE DEF n
<1>3. ASSUME NEW i \in 1..(n - 1), NEW j \in 1..(n - 1), i <= j
      PROVE  NoLater(Range(discoveredCh[i + 1]), Range(discoveredCh[j + 1]))
  <2>1. i + 1 \in 1..n /\ j + 1 \in 1..n /\ i + 1 <= j + 1
    BY <1>1, <1>3
  <2> QED BY <1>1, <2>1 DEF AnswersAscend
<1>4. AnswersAscend'
  BY <1>2, <1>3 DEF AnswersAscend
<1>5. \A j \in 1..n : NoLater(Range(discoveredCh[1]), Range(discoveredCh[j]))
  <2>1. 1 \in 1..n /\ \A j \in 1..n : 1 <= j
    BY <1>1
  <2> QED BY <1>1, <2>1 DEF AnswersAscend
<1>6. Answered = Answered' \cup Range(Head(discoveredCh))
  BY AnsweredTail
<1>7. \A y \in Answered : \E j \in 1..n : y \in Range(discoveredCh[j])
  BY <1>1 DEF Answered
<1>8. NoLater(Range(Head(discoveredCh)), Answered)
  BY <1>1, <1>5, <1>7 DEF NoLater
<1> QED BY <1>4, <1>6, <1>8

\* ... and so does an answer of one depth that is no earlier than the others.
LEMMA AnswersAscendAppend ==
    ASSUME discoveredCh \in Seq(Seq(Task)), NEW a \in Seq(Task), discoveredCh' = Append(discoveredCh, a),
           AnswersAscend, NoLater(Range(a), Range(a)), NoLater(Answered, Range(a))
    PROVE  AnswersAscend'
<1> DEFINE n == Len(discoveredCh)
<1>1. n \in Nat /\ DOMAIN discoveredCh = 1..n
  OBVIOUS
<1>2. /\ DOMAIN discoveredCh' = 1..(n + 1) /\ discoveredCh'[n + 1] = a
      /\ \A i \in 1..n : discoveredCh'[i] = discoveredCh[i]
  BY <1>1, AppendProperties
<1> HIDE DEF n
<1>3. \A i \in 1..n : NoLater(Range(discoveredCh[i]), Range(a))
  BY <1>1 DEF NoLater, Answered
<1>4. \A i, j \in 1..n : i <= j => NoLater(Range(discoveredCh[i]), Range(discoveredCh[j]))
  BY <1>1 DEF AnswersAscend
<1>5. \A i, j \in 1..(n + 1) : i <= j => (i = n + 1 /\ j = n + 1) \/ (i \in 1..n /\ (j = n + 1 \/ j \in 1..n))
  BY <1>1
<1>6. ASSUME NEW i \in 1..(n + 1), NEW j \in 1..(n + 1), i <= j
      PROVE  NoLater(Range(discoveredCh'[i]), Range(discoveredCh'[j]))
  BY <1>2, <1>3, <1>4, <1>5, <1>6
<1> QED BY <1>2, <1>6 DEF AnswersAscend

\* The tasks the workers hold, the answers the coordinator has not dealt with,
\* and all tasks there are.
Held == {wtask[w] : w \in Busy}
Late == Range(batch) \cup Answered
OnTheWay == Held \cup Range(taskCh) \cup Waiting \cup Late

\* From the worker back to the answers, no task is of a later depth than one
\* behind it, and all depths are one of two neighbours.
InOrder ==
    /\ NoLater(Held, Range(taskCh) \cup Waiting \cup Late)
    /\ NoLater(Range(taskCh), Waiting \cup Late)
    /\ NoLater(Range(overflow), Range(newTasks) \cup Late)
    /\ NoLater(Range(newTasks) \cup Range(batch), Range(newTasks) \cup Late)
    /\ pc = "enqueue" => NoLater(Range(newTasks), Range(overflow))
    /\ Ascending(taskCh) /\ Ascending(overflow) /\ AnswersAscend
    /\ \A x, y \in OnTheWay : x.depth <= y.depth + 1

\* A single worker keeps the tasks in order until the crawl is cancelled.
OneWorker == Cardinality(Workers) = 1
DepthOrder == ~cancelled => InOrder

\* There is one worker.
LEMMA OneWorkerOnly == ASSUME OneWorker PROVE \A v, w \in Workers : v = w
<1>1. PICK x : Workers = {x}
  BY FS_Singleton, CrawlerAssumption DEF OneWorker
<1> QED BY <1>1

\* Everything on the way is a task.
LEMMA OnTheWayTasks == ASSUME BaseInv PROVE \A x \in OnTheWay : x \in Task /\ x.depth \in Nat
<1>1. /\ taskCh \in Seq(Task) /\ overflow \in Seq(Task) /\ newTasks \in Seq(Task) /\ batch \in Seq(Task)
      /\ discoveredCh \in Seq(Seq(Task)) /\ HeldTasks
  BY DEF BaseInv, CountInv, TypeOK, ChanTypeOK, CoordTypeOK
<1>2. \A q \in Seq(Task) : Range(q) \subseteq Task
  BY DEF Range
<1>3. \A i \in DOMAIN discoveredCh : discoveredCh[i] \in Seq(Task)
  BY <1>1
<1>4. Answered \subseteq Task
  BY <1>2, <1>3 DEF Answered
<1> QED BY <1>1, <1>2, <1>4 DEF OnTheWay, Late, Waiting, Held, HeldTasks, Task

\* The order is kept when tasks only leave.
LEMMA OrderShrinks ==
    ASSUME InOrder, Held' \subseteq Held, Range(taskCh') \subseteq Range(taskCh),
           Range(overflow') \subseteq Range(overflow), Range(newTasks') \subseteq Range(newTasks),
           Range(batch') \subseteq Range(batch), Answered' \subseteq Answered,
           pc' = "enqueue" => pc = "enqueue" \/ Range(overflow') = {},
           Ascending(taskCh'), Ascending(overflow'), AnswersAscend'
    PROVE  InOrder'
<1>1. Waiting' \subseteq Waiting /\ Late' \subseteq Late /\ OnTheWay' \subseteq OnTheWay
  BY DEF Waiting, Late, OnTheWay
<1>2. \A x, y \in OnTheWay' : x.depth <= y.depth + 1
  BY <1>1 DEF InOrder
<1>3. /\ NoLater(Held', Range(taskCh') \cup Waiting' \cup Late') /\ NoLater(Range(taskCh'), Waiting' \cup Late')
      /\ NoLater(Range(overflow'), Range(newTasks') \cup Late')
      /\ NoLater(Range(newTasks') \cup Range(batch'), Range(newTasks') \cup Late')
  BY <1>1 DEF InOrder, NoLater
<1>4. pc' = "enqueue" => NoLater(Range(newTasks'), Range(overflow'))
  BY DEF InOrder, NoLater
<1> QED BY <1>2, <1>3, <1>4 DEF InOrder, NoLater, Ascending

\* A task that is sent goes to the end of taskCh or to the one waiting worker.
LEMMA OrderSend ==
    ASSUME BaseInv, BufferBound, NEW t \in Task, Send(t)
    PROVE  \/ Held' = Held /\ taskCh' = Append(taskCh, t) /\ Range(taskCh') = Range(taskCh) \cup {t}
           \/ Held' = Held \cup {t} /\ taskCh' = taskCh /\ taskCh = <<>>
<1>1. taskCh \in Seq(Task) /\ wpc \in [Workers -> WorkerPCs] /\ wtask \in [Workers -> Task \cup {NoTask}]
  BY DEF BaseInv, CountInv, TypeOK, ChanTypeOK, WorkerTypeOK
<1>2. CASE taskCh' = Append(taskCh, t) /\ UNCHANGED <<wpc, wtask>>
  BY <1>1, <1>2, QueueAppend DEF Held, Busy
<1>3. ASSUME NEW w \in Workers, QueueSize = 0, wpc[w] = "recv", wpc' = [wpc EXCEPT ![w] = "check"],
             wtask' = [wtask EXCEPT ![w] = t], taskCh' = taskCh
      PROVE  Held' = Held \cup {t} /\ taskCh' = taskCh /\ taskCh = <<>>
  <2>1. Busy' = Busy \cup {w} /\ w \notin Busy
    BY <1>1, <1>3 DEF Busy
  <2>2. wtask'[w] = t /\ \A v \in Workers : v # w => wtask'[v] = wtask[v]
    BY <1>1, <1>3
  <2>3. Held' = Held \cup {t}
    BY <2>1, <2>2 DEF Held, Busy
  <2>4. Len(taskCh) = 0
    BY <1>1, <1>3 DEF BufferBound
  <2> QED BY <1>1, <1>3, <2>3, <2>4, EmptySeq
<1> QED BY <1>2, <1>3 DEF Send

\* The coordinator keeps the order: it passes on tasks in the order it gets
\* them.
LEMMA OrderCoord ==
    ASSUME BaseInv, BufferBound, InOrder, ~cancelled, StartStep \/ SelectStep
    PROVE  InOrder'
<1>1. /\ taskCh \in Seq(Task) /\ overflow \in Seq(Task) /\ newTasks \in Seq(Task) /\ batch \in Seq(Task)
      /\ discoveredCh \in Seq(Seq(Task))
  BY DEF BaseInv, CountInv, TypeOK, ChanTypeOK, CoordTypeOK
<1>2. pc # "drain" /\ (pc \notin {"dedup", "enqueue"} => newTasks = <<>>) /\ (pc # "dedup" => batch = <<>>)
  BY DEF BaseInv, Phases
<1>3. Ascending(taskCh) /\ Ascending(overflow) /\ AnswersAscend
  BY DEF InOrder
<1>4. Range(<<>>) = {} /\ Ascending(<<>>)
  BY EmptyQueue DEF Ascending
<1>5. UNCHANGED <<wpc, wtask>> => Held' = Held
  BY DEF Held, Busy
<1>6. discoveredCh' = discoveredCh => Answered' = Answered /\ AnswersAscend'
  BY <1>3 DEF Answered, AnswersAscend
<1>7. CASE Start
  <2> DEFINE e == IF Len(SeedQueue) < QueueSize THEN Len(SeedQueue) ELSE QueueSize
             q == SubSeq(SeedQueue, 1, e)
             r == SubSeq(SeedQueue, e + 1, Len(SeedQueue))
  <2>1. /\ taskCh' = q /\ overflow' = r /\ newTasks' = <<>> /\ batch' = <<>> /\ discoveredCh' = <<>>
        /\ pc' = "top" /\ \A w \in Workers : wpc'[w] = "recv"
    BY <1>7 DEF Start, Begin
  <2>2. SeedQueue \in Seq(Task) /\ e \in 0..Len(SeedQueue)
    BY SeedQueueType, CrawlerAssumption
  <2> HIDE DEF e
  <2>3. q \in Seq(Task) /\ r \in Seq(Task) /\ q \o r = SeedQueue
    BY <2>2, QueueSplit
  <2> HIDE DEF q, r
  <2>4. Range(SeedQueue) = Range(q) \cup Range(r)
    BY <2>3, QueueConcat
  <2>5. \A x \in Range(taskCh') \cup Range(overflow') : x.depth = 0
    BY <2>1, <2>4, SeedQueueUrls
  <2>6. Held' = {} /\ Answered' = {} /\ Range(newTasks') = {} /\ Range(batch') = {}
    BY <1>4, <2>1 DEF Held, Busy, Answered
  <2>7. Late' = {} /\ Waiting' = Range(overflow') /\ OnTheWay' = Range(taskCh') \cup Range(overflow')
    BY <2>6 DEF Late, Waiting, OnTheWay
  <2>8. NoLater(Range(taskCh'), Range(taskCh') \cup Range(overflow')) /\ NoLater(Range(overflow'), Range(overflow'))
    BY <2>5 DEF NoLater
  <2>9. Ascending(taskCh') /\ Ascending(overflow')
    <3>1. NoLater(Range(taskCh'), Range(taskCh'))
      BY <2>8 DEF NoLater
    <3> QED BY <2>8, <3>1, AscendingLevel
  <2>10. AnswersAscend'
    BY <2>1 DEF AnswersAscend
  <2>11. \A x, y \in OnTheWay' : x.depth <= y.depth + 1
    BY <2>5, <2>7
  <2> QED BY <2>1, <2>6, <2>7, <2>8, <2>9, <2>10, <2>11 DEF InOrder, NoLater
<1>8. CASE LoopLimit \/ DedupSkip \/ DedupBreak \/ BeginEnqueue
  <2>1. /\ UNCHANGED <<wpc, wtask, taskCh, newTasks, discoveredCh>>
        /\ overflow' = overflow \/ overflow' = <<>>
        /\ batch' = batch \/ batch' = <<>> \/ (batch # <<>> /\ batch' = Tail(batch))
        /\ pc' = "enqueue" => overflow' = <<>>
    BY <1>8 DEF LoopLimit, DedupSkip, DedupBreak, BeginEnqueue, chanVars, workerVars
  <2>2. Range(batch') \subseteq Range(batch)
    BY <1>1, <1>4, <2>1, QueueTail
  <2>3. Range(overflow') \subseteq Range(overflow) /\ Ascending(overflow')
    BY <1>3, <1>4, <2>1
  <2>4. pc' = "enqueue" => Range(overflow') = {}
    BY <1>4, <2>1
  <2>5. Held' = Held /\ Answered' = Answered /\ AnswersAscend'
    BY <1>5, <1>6, <2>1
  <2>6. Range(taskCh') = Range(taskCh) /\ Range(newTasks') = Range(newTasks) /\ Ascending(taskCh')
    BY <1>3, <2>1
  <2> QED BY <2>2, <2>3, <2>4, <2>5, <2>6, OrderShrinks
<1>9. CASE LimitRecv
  <2>1. /\ UNCHANGED <<wpc, wtask, taskCh, newTasks, overflow, batch>>
        /\ discoveredCh # <<>> /\ discoveredCh' = Tail(discoveredCh) /\ pc' = "top"
    BY <1>9 DEF LimitRecv, workerVars
  <2>2. AnswersAscend' /\ Answered' \subseteq Answered
    BY <1>1, <1>3, <2>1, AnswersAscendTail, AnsweredTail
  <2>3. Held' = Held /\ Ascending(taskCh') /\ Ascending(overflow')
    BY <1>3, <1>5, <2>1
  <2> QED BY <2>1, <2>2, <2>3, OrderShrinks
<1>10. CASE RecvBatch
  <2>1. /\ UNCHANGED <<wpc, wtask, taskCh, overflow>> /\ newTasks' = <<>> /\ pc' = "dedup"
        /\ discoveredCh # <<>> /\ discoveredCh' = Tail(discoveredCh) /\ batch' = Head(discoveredCh)
    BY <1>10 DEF RecvBatch, workerVars
  <2>2. AnswersAscend' /\ NoLater(Range(batch'), Range(batch') \cup Answered')
    BY <1>1, <1>3, <2>1, AnswersAscendTail
  <2>3. Answered = Answered' \cup Range(batch')
    BY <1>1, <2>1, AnsweredTail
  <2>4. Held' = Held /\ Range(newTasks') = {} /\ Ascending(taskCh') /\ Ascending(overflow')
    BY <1>3, <1>4, <1>5, <2>1
  <2>5. Late' \subseteq Late /\ Waiting' \subseteq Waiting /\ OnTheWay' \subseteq OnTheWay
    BY <2>1, <2>3, <2>4 DEF Late, Waiting, OnTheWay
  <2>6. /\ NoLater(Held', Range(taskCh') \cup Waiting' \cup Late') /\ NoLater(Range(taskCh'), Waiting' \cup Late')
        /\ NoLater(Range(overflow'), Range(newTasks') \cup Late')
    BY <2>1, <2>4, <2>5 DEF InOrder, NoLater
  <2>7. NoLater(Range(newTasks') \cup Range(batch'), Range(newTasks') \cup Late')
    BY <2>2, <2>4 DEF Late, NoLater
  <2>8. \A x, y \in OnTheWay' : x.depth <= y.depth + 1
    BY <2>5 DEF InOrder
  <2> QED BY <2>1, <2>2, <2>4, <2>6, <2>7, <2>8 DEF InOrder
<1>11. CASE DedupMark
  <2> DEFINE h == Head(batch)
  <2>1. /\ UNCHANGED <<pc, wpc, wtask, taskCh, overflow, discoveredCh>> /\ batch # <<>> /\ batch' = Tail(batch)
        /\ newTasks' = Append(newTasks, h) /\ pc = "dedup"
    BY <1>11 DEF DedupMark, workerVars, chanVars
  <2>2. h \in Task /\ Range(batch) = Range(batch') \cup {h}
    BY <1>1, <2>1, QueueTail
  <2> HIDE DEF h
  <2>3. Range(newTasks') = Range(newTasks) \cup {h}
    BY <1>1, <2>1, <2>2, QueueAppend
  <2>4. Held' = Held /\ Answered' = Answered /\ AnswersAscend' /\ Ascending(taskCh') /\ Ascending(overflow')
    BY <1>3, <1>5, <1>6, <2>1
  <2>5. h \in Late /\ Late' \subseteq Late /\ Waiting' = Waiting \cup {h} /\ OnTheWay' \subseteq OnTheWay
    BY <2>1, <2>2, <2>3, <2>4 DEF Late, Waiting, OnTheWay
  <2>6. /\ NoLater(Held', Range(taskCh') \cup Waiting' \cup Late') /\ NoLater(Range(taskCh'), Waiting' \cup Late')
        /\ NoLater(Range(overflow'), Range(newTasks') \cup Late')
    BY <2>1, <2>3, <2>4, <2>5 DEF InOrder, NoLater
  <2>7. NoLater(Range(newTasks') \cup Range(batch'), Range(newTasks') \cup Late')
    BY <2>2, <2>3, <2>5 DEF InOrder, NoLater
  <2>8. \A x, y \in OnTheWay' : x.depth <= y.depth + 1
    BY <2>5 DEF InOrder
  <2> QED BY <2>1, <2>4, <2>6, <2>7, <2>8 DEF InOrder
<1>12. CASE AppendNew
  <2>1. /\ UNCHANGED <<wpc, wtask, taskCh, discoveredCh, batch>> /\ overflow' = overflow \o newTasks
        /\ newTasks' = <<>> /\ pc' = "top" /\ batch = <<>>
    BY <1>12 DEF AppendNew, workerVars, chanVars
  <2>2. Range(overflow') = Range(overflow) \cup Range(newTasks) /\ Range(newTasks') = {} /\ Range(batch') = {}
    BY <1>1, <1>4, <2>1, QueueConcat
  <2>3. Ascending(overflow')
    <3>1. NoLater(Range(newTasks), Range(newTasks)) /\ NoLater(Range(overflow), Range(newTasks))
      BY DEF InOrder, NoLater
    <3> QED BY <1>1, <1>3, <2>1, <3>1, AscendingLevel, AscendingConcat
  <2>4. Held' = Held /\ Answered' = Answered /\ AnswersAscend' /\ Ascending(taskCh')
    BY <1>3, <1>5, <1>6, <2>1
  <2>5. Late' = Late /\ Waiting' = Waiting /\ OnTheWay' = OnTheWay
    BY <2>1, <2>2, <2>4 DEF Late, Waiting, OnTheWay
  <2>6. /\ NoLater(Held', Range(taskCh') \cup Waiting' \cup Late') /\ NoLater(Range(taskCh'), Waiting' \cup Late')
        /\ NoLater(Range(overflow'), Range(newTasks') \cup Late')
        /\ NoLater(Range(newTasks') \cup Range(batch'), Range(newTasks') \cup Late')
    BY <2>1, <2>2, <2>4, <2>5 DEF InOrder, NoLater
  <2>8. \A x, y \in OnTheWay' : x.depth <= y.depth + 1
    BY <2>5 DEF InOrder
  <2> QED BY <2>1, <2>3, <2>4, <2>6, <2>8 DEF InOrder
<1>13. CASE EnqueueOverflow
  <2> DEFINE h == Head(newTasks)
  <2>1. /\ UNCHANGED <<pc, wpc, wtask, taskCh, discoveredCh, batch>> /\ overflow' = Append(overflow, h)
        /\ newTasks # <<>> /\ newTasks' = Tail(newTasks) /\ pc = "enqueue"
    BY <1>13 DEF EnqueueOverflow, workerVars, chanVars
  <2>2. h \in Task /\ Range(newTasks) = Range(newTasks') \cup {h}
    BY <1>1, <2>1, QueueTail
  <2> HIDE DEF h
  <2>3. Range(overflow') = Range(overflow) \cup {h}
    BY <1>1, <2>1, <2>2, QueueAppend
  <2>4. Held' = Held /\ Answered' = Answered /\ AnswersAscend' /\ Ascending(taskCh')
    BY <1>3, <1>5, <1>6, <2>1
  <2>5. Late' = Late /\ Waiting' = Waiting /\ OnTheWay' = OnTheWay
    BY <2>1, <2>2, <2>3, <2>4 DEF Late, Waiting, OnTheWay
  <2>6. Ascending(overflow')
    <3>1. NoLater(Range(overflow), {h})
      BY <2>2 DEF InOrder, NoLater
    <3> QED BY <1>1, <1>3, <2>1, <2>2, <3>1, AscendingAppend
  <2>7. /\ NoLater(Held', Range(taskCh') \cup Waiting' \cup Late') /\ NoLater(Range(taskCh'), Waiting' \cup Late')
        /\ NoLater(Range(overflow'), Range(newTasks') \cup Late')
        /\ NoLater(Range(newTasks') \cup Range(batch'), Range(newTasks') \cup Late')
        /\ NoLater(Range(newTasks'), Range(overflow'))
    BY <2>1, <2>2, <2>3, <2>4, <2>5 DEF InOrder, NoLater
  <2>8. \A x, y \in OnTheWay' : x.depth <= y.depth + 1
    BY <2>5 DEF InOrder
  <2> QED BY <2>1, <2>4, <2>6, <2>7, <2>8 DEF InOrder
<1>14. CASE LoopExit \/ LoopSelect \/ EnqueueDone \/ SaveQueue \/ SaveVisited \/ FinishFlush \/ FinishClear
            \/ CloseResults \/ Finish \/ PersistTick \/ CtxDone
  <2>1. /\ UNCHANGED <<wpc, wtask, taskCh, overflow, newTasks, batch, discoveredCh>> /\ pc' # "enqueue"
    BY <1>14 DEF LoopExit, LoopSelect, EnqueueDone, SaveQueue, SaveVisited, FinishFlush, FinishClear,
       CloseResults, Finish, PersistTick, CtxDone, workerVars, chanVars
  <2>2. Held' = Held /\ Answered' = Answered /\ AnswersAscend' /\ Ascending(taskCh') /\ Ascending(overflow')
    BY <1>3, <1>5, <1>6, <2>1
  <2> QED BY <2>1, <2>2, OrderShrinks
<1>15. CASE EnqueueSend
  <2> DEFINE h == Head(newTasks)
  <2>1. /\ UNCHANGED <<pc, overflow, discoveredCh, batch>> /\ Send(h)
        /\ newTasks # <<>> /\ newTasks' = Tail(newTasks) /\ pc = "enqueue"
    BY <1>15 DEF EnqueueSend
  <2>2. h \in Task /\ Range(newTasks) = Range(newTasks') \cup {h}
    BY <1>1, <2>1, QueueTail
  <2> HIDE DEF h
  <2>3. Answered' = Answered /\ AnswersAscend' /\ Ascending(overflow')
    BY <1>3, <1>6, <2>1
  <2>4. Late' = Late /\ Waiting = Waiting' \cup {h}
    BY <2>1, <2>2, <2>3 DEF Late, Waiting
  <2>5. NoLater({h}, Waiting' \cup Late') /\ NoLater(Held, {h}) /\ NoLater(Range(taskCh), {h})
    BY <2>1, <2>2, <2>4 DEF InOrder, NoLater, Waiting
  <2>6. /\ NoLater(Held, Range(taskCh) \cup Waiting' \cup Late') /\ NoLater(Range(taskCh), Waiting' \cup Late')
        /\ NoLater(Range(overflow'), Range(newTasks') \cup Late')
        /\ NoLater(Range(newTasks') \cup Range(batch'), Range(newTasks') \cup Late')
        /\ NoLater(Range(newTasks'), Range(overflow'))
    BY <2>1, <2>2, <2>4 DEF InOrder, NoLater
  <2>7. CASE Held' = Held /\ taskCh' = Append(taskCh, h) /\ Range(taskCh') = Range(taskCh) \cup {h}
    <3>1. OnTheWay' = OnTheWay
      BY <2>4, <2>7 DEF OnTheWay
    <3>2. \A x, y \in OnTheWay' : x.depth <= y.depth + 1
      BY <3>1 DEF InOrder
    <3>3. Ascending(taskCh')
      BY <1>1, <1>3, <2>2, <2>5, <2>7, AscendingAppend
    <3>4. NoLater(Held', Range(taskCh') \cup Waiting' \cup Late') /\ NoLater(Range(taskCh'), Waiting' \cup Late')
      BY <2>5, <2>6, <2>7 DEF NoLater
    <3> QED BY <2>3, <2>6, <3>2, <3>3, <3>4 DEF InOrder
  <2>8. CASE Held' = Held \cup {h} /\ taskCh' = taskCh /\ taskCh = <<>>
    <3>1. OnTheWay' = OnTheWay /\ Range(taskCh') = {} /\ Ascending(taskCh')
      BY <1>4, <2>4, <2>8 DEF OnTheWay
    <3>2. \A x, y \in OnTheWay' : x.depth <= y.depth + 1
      BY <3>1 DEF InOrder
    <3>4. NoLater(Held', Range(taskCh') \cup Waiting' \cup Late') /\ NoLater(Range(taskCh'), Waiting' \cup Late')
      BY <2>5, <2>6, <2>8, <3>1 DEF NoLater
    <3> QED BY <2>3, <2>6, <3>1, <3>2, <3>4 DEF InOrder
  <2> QED BY <2>1, <2>2, <2>7, <2>8, OrderSend
<1>16. CASE SendOverflow
  <2> DEFINE h == Head(overflow)
  <2>1. /\ UNCHANGED <<newTasks, discoveredCh, batch>> /\ Send(h) /\ overflow' = Tail(overflow)
        /\ pc = "overflow" /\ pc' = "top" /\ newTasks = <<>> /\ batch = <<>>
    BY <1>2, <1>16 DEF SendOverflow
  <2>2. overflow # <<>>
    BY <2>1 DEF BaseInv, CountInv, OverflowAtSelect
  <2>3. h \in Task /\ Range(overflow) = Range(overflow') \cup {h} /\ Ascending(overflow') /\ NoLater({h}, Range(overflow'))
    BY <1>1, <1>3, <2>1, <2>2, QueueTail, AscendingTail
  <2> HIDE DEF h
  <2>4. Answered' = Answered /\ AnswersAscend' /\ Range(newTasks') = {} /\ Range(batch') = {}
    BY <1>4, <1>6, <2>1
  <2>5. Late' = Late /\ Waiting = Waiting' \cup {h} /\ Waiting' = Range(overflow')
    BY <2>1, <2>3, <2>4 DEF Late, Waiting
  <2>6. NoLater({h}, Waiting' \cup Late') /\ NoLater(Held, {h}) /\ NoLater(Range(taskCh), {h})
    BY <2>3, <2>5 DEF InOrder, NoLater
  <2>7. /\ NoLater(Held, Range(taskCh) \cup Waiting' \cup Late') /\ NoLater(Range(taskCh), Waiting' \cup Late')
        /\ NoLater(Range(overflow'), Range(newTasks') \cup Late')
        /\ NoLater(Range(newTasks') \cup Range(batch'), Range(newTasks') \cup Late')
    BY <2>3, <2>4, <2>5 DEF InOrder, NoLater
  <2>8. CASE Held' = Held /\ taskCh' = Append(taskCh, h) /\ Range(taskCh') = Range(taskCh) \cup {h}
    <3>1. OnTheWay' = OnTheWay
      BY <2>5, <2>8 DEF OnTheWay
    <3>2. \A x, y \in OnTheWay' : x.depth <= y.depth + 1
      BY <3>1 DEF InOrder
    <3>3. Ascending(taskCh')
      BY <1>1, <1>3, <2>3, <2>6, <2>8, AscendingAppend
    <3>4. NoLater(Held', Range(taskCh') \cup Waiting' \cup Late') /\ NoLater(Range(taskCh'), Waiting' \cup Late')
      BY <2>6, <2>7, <2>8 DEF NoLater
    <3> QED BY <2>1, <2>3, <2>4, <2>7, <3>2, <3>3, <3>4 DEF InOrder
  <2>9. CASE Held' = Held \cup {h} /\ taskCh' = taskCh /\ taskCh = <<>>
    <3>1. OnTheWay' = OnTheWay /\ Range(taskCh') = {} /\ Ascending(taskCh')
      BY <1>4, <2>5, <2>9 DEF OnTheWay
    <3>2. \A x, y \in OnTheWay' : x.depth <= y.depth + 1
      BY <3>1 DEF InOrder
    <3>4. NoLater(Held', Range(taskCh') \cup Waiting' \cup Late') /\ NoLater(Range(taskCh'), Waiting' \cup Late')
      BY <2>6, <2>7, <2>9, <3>1 DEF NoLater
    <3> QED BY <2>1, <2>3, <2>4, <2>7, <3>1, <3>2, <3>4 DEF InOrder
  <2> QED BY <2>1, <2>3, <2>8, <2>9, OrderSend
<1>17. ~DrainRecv
  BY <1>2 DEF DrainRecv
<1> QED BY <1>7, <1>8, <1>9, <1>10, <1>11, <1>12, <1>13, <1>14, <1>15, <1>16, <1>17 DEF StartStep, SelectStep

\* A single worker keeps the order: it answers a task before it takes the next,
\* and its links are one deeper.
LEMMA OrderWorker ==
    ASSUME OneWorker, BaseInv, GivenBack, InOrder, ~cancelled, NEW w \in Workers, WorkerStep(w)
    PROVE  InOrder'
<1>1. /\ taskCh \in Seq(Task) /\ discoveredCh \in Seq(Seq(Task))
      /\ wpc \in [Workers -> WorkerPCs] /\ wtask \in [Workers -> Task \cup {NoTask}]
      /\ \A v \in Workers : v = w
  BY OneWorkerOnly DEF BaseInv, CountInv, TypeOK, ChanTypeOK, WorkerTypeOK
<1>2. UNCHANGED <<pc, overflow, newTasks, batch>>
  BY WorkerFrame DEF coordVars
<1>3. Ascending(taskCh) /\ Ascending(overflow) /\ AnswersAscend
  BY DEF InOrder
<1>4. Ascending(overflow') /\ Waiting' = Waiting
  BY <1>2, <1>3 DEF Waiting
<1>5. discoveredCh' = discoveredCh => Answered' = Answered /\ AnswersAscend' /\ Late' = Late
  BY <1>2, <1>3 DEF Answered, AnswersAscend, Late
<1>6. CASE WorkerExit(w) \/ WorkerGiveBack(w) \/ WorkerFetch(w) \/ WorkerResult(w)
  <2>1. UNCHANGED <<taskCh, discoveredCh, wtask>> /\ Busy' = Busy
    BY <1>1, <1>6 DEF WorkerExit, WorkerGiveBack, WorkerFetch, WorkerResult, Busy, chanVars
  <2>2. Held' = Held
    BY <2>1 DEF Held
  <2> QED BY <1>2, <1>3, <1>4, <1>5, <2>1, <2>2, OrderShrinks
<1>7. CASE WorkerRecv(w)
  <2> DEFINE h == Head(taskCh)
  <2>1. /\ taskCh # <<>> /\ taskCh' = Tail(taskCh) /\ discoveredCh' = discoveredCh
        /\ wtask' = [wtask EXCEPT ![w] = h] /\ wpc' = [wpc EXCEPT ![w] = "check"]
    BY <1>7 DEF WorkerRecv
  <2>2. h \in Task /\ Range(taskCh) = Range(taskCh') \cup {h} /\ Ascending(taskCh') /\ NoLater({h}, Range(taskCh'))
    BY <1>1, <1>3, <2>1, QueueTail, AscendingTail
  <2> HIDE DEF h
  <2>3. Held' = {h}
    <3>1. Busy' = {w} /\ wtask'[w] = h
      BY <1>1, <2>1 DEF Busy
    <3> QED BY <3>1 DEF Held
  <2>4. OnTheWay' \subseteq OnTheWay
    BY <1>4, <1>5, <2>1, <2>2, <2>3 DEF OnTheWay
  <2>5. \A x, y \in OnTheWay' : x.depth <= y.depth + 1
    BY <2>4 DEF InOrder
  <2>6. NoLater(Held', Range(taskCh') \cup Waiting' \cup Late') /\ NoLater(Range(taskCh'), Waiting' \cup Late')
    BY <1>4, <1>5, <2>1, <2>2, <2>3 DEF InOrder, NoLater
  <2>7. /\ NoLater(Range(overflow'), Range(newTasks') \cup Late')
        /\ NoLater(Range(newTasks') \cup Range(batch'), Range(newTasks') \cup Late')
        /\ pc' = "enqueue" => NoLater(Range(newTasks'), Range(overflow'))
    BY <1>2, <1>5, <2>1 DEF InOrder
  <2> QED BY <1>4, <1>5, <2>1, <2>2, <2>5, <2>6, <2>7 DEF InOrder
<1>8. CASE WorkerAnswer(w)
  <2> DEFINE t == wtask[w]
  <2>1. /\ w \in Busy /\ wpc[w] \in {"found", "failed"} /\ taskCh' = taskCh
        /\ discoveredCh' = Append(discoveredCh, Answer(w)) /\ wpc' = [wpc EXCEPT ![w] = "recv"]
    BY <1>8 DEF WorkerAnswer, Busy, GivenBack
  <2>2. t \in Held /\ t \in Task /\ Held' = {}
    BY <1>1, <2>1 DEF Held, Busy, BaseInv, CountInv, HeldTasks
  <2>3. Answer(w) \in Seq(Task) /\ Answered' = Answered \cup Range(Answer(w))
    BY <1>1, <2>1, AnswerType, AnsweredAppend DEF BaseInv
  <2>4. \A y \in Range(Answer(w)) : y.depth = t.depth + 1
    <3>1. CASE wpc[w] = "found"
      <4>1. Answer(w) = LinkTasks(t)
        BY <3>1 DEF Answer
      <4>2. \A i \in DOMAIN LinkTasks(t) : LinkTasks(t)[i].depth = t.depth + 1
        BY DEF LinkTasks
      <4> QED BY <4>1, <4>2 DEF Range
    <3>2. CASE wpc[w] = "failed"
      <4>1. Answer(w) = <<>>
        BY <3>2 DEF Answer
      <4> QED BY <4>1, EmptyQueue
    <3> QED BY <2>1, <3>1, <3>2
  <2> HIDE DEF t
  <2>5. t \in OnTheWay /\ t.depth \in Nat /\ \A x \in OnTheWay : x.depth \in Nat
    BY <2>2, OnTheWayTasks DEF OnTheWay
  <2>6. \A x \in OnTheWay : x.depth <= t.depth + 1 /\ t.depth <= x.depth
    <3>1. \A x \in OnTheWay : x.depth <= t.depth + 1
      BY <2>5 DEF InOrder
    <3>2. \A x \in Held : x = t
      BY <1>1 DEF Held, Busy, t
    <3>3. \A x \in OnTheWay : x = t \/ x \in Range(taskCh) \cup Waiting \cup Late
      BY <3>2 DEF OnTheWay
    <3>4. NoLater(Held, Range(taskCh) \cup Waiting \cup Late)
      BY DEF InOrder
    <3>5. \A x \in OnTheWay : t.depth <= x.depth
      BY <2>2, <2>5, <3>3, <3>4 DEF NoLater
    <3> QED BY <3>1, <3>5
  <2>7. Late' = Late \cup Range(Answer(w)) /\ OnTheWay' \subseteq OnTheWay \cup Range(Answer(w))
    BY <1>2, <1>4, <2>1, <2>2, <2>3 DEF Late, OnTheWay
  <2>8. NoLater(OnTheWay, Range(Answer(w))) /\ NoLater(Range(Answer(w)), Range(Answer(w)))
    BY <2>4, <2>5, <2>6 DEF NoLater
  <2>9. \A x, y \in OnTheWay' : x.depth <= y.depth + 1
    <3>1. \A x, y \in OnTheWay : x.depth <= y.depth + 1
      BY DEF InOrder
    <3>2. \A x \in OnTheWay, y \in Range(Answer(w)) : x.depth <= y.depth + 1 /\ y.depth <= x.depth + 1
      BY <2>4, <2>5, <2>6
    <3>3. \A x, y \in Range(Answer(w)) : x.depth <= y.depth + 1
      BY <2>4, <2>5
    <3> QED BY <2>7, <3>1, <3>2, <3>3
  <2>10. AnswersAscend'
    <3>1. NoLater(Answered, Range(Answer(w)))
      BY <2>8 DEF NoLater, OnTheWay, Late
    <3> QED BY <1>1, <1>3, <2>1, <2>3, <2>8, <3>1, AnswersAscendAppend
  <2>11. /\ NoLater(Held', Range(taskCh') \cup Waiting' \cup Late') /\ NoLater(Range(taskCh'), Waiting' \cup Late')
         /\ NoLater(Range(overflow'), Range(newTasks') \cup Late')
    BY <1>2, <1>4, <2>1, <2>2, <2>7, <2>8 DEF InOrder, NoLater, OnTheWay, Waiting
  <2>12. /\ NoLater(Range(newTasks') \cup Range(batch'), Range(newTasks') \cup Late')
         /\ pc' = "enqueue" => NoLater(Range(newTasks'), Range(overflow'))
    BY <1>2, <2>7, <2>8 DEF InOrder, NoLater, OnTheWay, Waiting, Late
  <2> QED BY <1>3, <1>4, <2>1, <2>9, <2>10, <2>11, <2>12 DEF InOrder
<1> QED BY <1>6, <1>7, <1>8 DEF WorkerStep

\* With one worker the tasks of a crawl that is not cancelled stay in order.
LEMMA DepthOrderAlways == ASSUME OneWorker PROVE Spec => []DepthOrder
<1>1. Init => DepthOrder
  <2> SUFFICES ASSUME Init PROVE InOrder
    BY DEF DepthOrder
  <2>1. Held = {} /\ Range(<<>>) = {} /\ Answered = {}
    BY EmptyQueue DEF Init, Held, Busy, Answered
  <2> QED BY <2>1 DEF Init, InOrder, NoLater, Ascending, AnswersAscend, OnTheWay, Late, Waiting
<1>2. ASSUME BaseInv, BufferBound, GivenBack, DepthOrder, [Next]_vars PROVE DepthOrder'
  <2> SUFFICES ASSUME ~cancelled' PROVE InOrder'
    BY DEF DepthOrder
  <2>1. ~cancelled /\ InOrder
    BY <1>2, CancelStable DEF DepthOrder
  <2>2. CASE IndexerStep \/ Cancel \/ UNCHANGED vars
    <3>1. UNCHANGED <<pc, overflow, newTasks, batch, taskCh, discoveredCh, wpc, wtask>>
      BY <2>2, IndexerFrame DEF Cancel, vars, coordVars, chanVars, workerVars
    <3>2. Held' = Held /\ Answered' = Answered /\ AnswersAscend' /\ Ascending(taskCh') /\ Ascending(overflow')
      BY <2>1, <3>1 DEF InOrder, Held, Busy, Answered, AnswersAscend
    <3> QED BY <2>1, <3>1, <3>2, OrderShrinks
  <2> QED BY <1>2, <2>1, <2>2, OrderCoord, OrderWorker DEF Next, Terminated
<1> QED BY <1>1, <1>2, BaseAlways, BufferBoundAlways, GivenBackAlways, PTL DEF Spec
-----------------------------------------------------------------------------
(* The depth of a page is its distance *)

\* NoTaskLost up to the moment the coordinator acts on the URL limit.
NotLost == Open => \A u \in visited : u \in FetchedUrls \/ u \in Handed \cup WaitUrls

\* Until then every step keeps it.
LEMMA NotLostAlways == ASSUME DistinctSeeds PROVE Spec => []NotLost
<1>1. Init => NotLost
  BY DEF Init, NotLost
<1>2. ASSUME CrawlInv, VisitedBounded', BaseInv', NotLost, [Next]_vars PROVE NotLost'
  <2> SUFFICES ASSUME Open', NEW CONSTANT u \in visited' PROVE u \in FetchedUrls' \/ u \in Handed' \cup WaitUrls'
    BY DEF NotLost
  <2>1. Open /\ BaseInv /\ ~cancelled' /\ ~LoopLimit
    <3>1. Open
      BY <1>2, OpenBefore
    <3> QED BY <1>2, <3>1 DEF Open, LoopLimit, CrawlInv
  <2>2. u \in URLs
    BY <1>2 DEF BaseInv, CountInv, TypeOK, CoordTypeOK
  <2>3. u \in visited => u \in FetchedUrls \/ u \in Handed \cup WaitUrls
    BY <1>2, <2>1 DEF NotLost
  <2>4. u \in FetchedUrls => u \in FetchedUrls'
    BY <1>2, <2>1, <2>2, FetchGrows DEF FetchedUrls, BaseInv
  <2>5. fetched'[u] # <<>> => u \in FetchedUrls'
    BY <2>2 DEF FetchedUrls
  <2> QED BY <1>2, <2>1, <2>2, <2>3, <2>4, <2>5, OutstandingStep
<1> QED BY <1>1, <1>2, CrawlInvAlways, VisitedBoundedAlways, BaseAlways, PTL DEF Spec

\* A page that waits has a task on its way.
LEMMA OutstandingTask ==
    ASSUME BaseInv, pc \in LoopPCs, NEW u \in Handed \cup WaitUrls
    PROVE  \E y \in Live : y \in OnTheWay /\ y.url = u
<1>1. Urls(taskCh) \cup WaitUrls = {t.url : t \in Range(taskCh) \cup Waiting}
  BY UrlsOfRange DEF WaitUrls, Waiting
<1>2. Range(taskCh) \cup Waiting \subseteq Live \cap OnTheWay
  BY DEF Live, Sent, OnTheWay
<1>3. \A w \in Checking : wtask[w] \in Live \cap OnTheWay
  BY DEF Checking, Busy, Live, Sent, OnTheWay, Held
<1> QED BY <1>1, <1>2, <1>3 DEF Handed, CheckUrls

\* The page u is n links away from the seeds.
AtDistance(u, n) == u \in Within[n] /\ (n > 0 => u \notin Within[n - 1])

\* A page has one distance.
LEMMA DistanceLeast ==
    ASSUME NEW u, NEW m \in 0..MaxDepth, NEW n \in 0..MaxDepth, AtDistance(u, n), u \in Within[m]
    PROVE  n <= m
<1> SUFFICES ASSUME m < n PROVE FALSE
  BY CrawlerAssumption
<1>1. n > 0 /\ n - 1 \in 0..MaxDepth /\ m <= n - 1
  BY CrawlerAssumption
<1>2. Within[m] \subseteq Within[n - 1]
  BY <1>1, WithinGrows
<1> QED BY <1>1, <1>2 DEF AtDistance

\* The depth under which a page was fetched or waits is its distance.
DistanceInv ==
    /\ BFSDepth
    /\ \A p \in FetchedUrls : fetched[p][1] <= MaxDepth
    /\ ~cancelled => \A x \in Live : AtDistance(x.url, x.depth)

DistanceHyp ==
    /\ CrawlInv /\ NotLost /\ SeedsMarked /\ LinksFollowed /\ NoFailure /\ DepthOrder
    /\ DistanceInv /\ Flaky = {}

\* The depths of the pages that were fetched, and of those that wait.
LEMMA FetchedDistance ==
    ASSUME CrawlInv, DistanceInv, NEW p \in FetchedUrls
    PROVE  fetched[p][1] \in 0..MaxDepth /\ AtDistance(p, fetched[p][1])
<1>1. p \in URLs /\ fetched[p] \in Seq(Nat) /\ fetched[p] # <<>>
  BY DEF CrawlInv, BaseInv, CountInv, TypeOK, WorkerTypeOK, FetchedUrls
<1>2. 1 \in DOMAIN fetched[p] /\ fetched[p][1] \in Nat
  BY <1>1
<1>3. AtDistance(p, fetched[p][1])
  BY <1>1, <1>2 DEF DistanceInv, BFSDepth, AtDistance
<1> QED BY <1>2, <1>3, CrawlerAssumption DEF DistanceInv

\* A task on its way is at its distance too.
LEMMA LiveDistance ==
    ASSUME CrawlInv, DistanceInv, ~cancelled, NEW y \in Live
    PROVE  y \in Task /\ y.depth \in 0..MaxDepth /\ AtDistance(y.url, y.depth)
<1>1. y \in OnTheWay
  BY DEF Live, Sent, OnTheWay, Held, Waiting
<1>2. y \in Task /\ y.depth \in Nat
  BY <1>1, OnTheWayTasks DEF CrawlInv
<1>3. y.depth <= MaxDepth
  BY DEF CrawlInv, Admitted
<1> QED BY <1>2, <1>3, CrawlerAssumption DEF DistanceInv

\* While the coordinator looks at an answer of depth d, every page nearer than
\* d is marked: an unmarked one would be a link of a marked page that is two
\* behind, and that page can neither wait nor be in flight nor have an answer
\* of its own on the way, for all those tasks are in order.
LEMMA NearerIsMarked ==
    ASSUME DistanceHyp, Open, pc = "dedup", NEW x \in Range(batch), x.depth <= MaxDepth,
           NEW n \in Nat, n < x.depth
    PROVE  Within[n] \subseteq visited
<1>0. /\ CrawlInv /\ BaseInv /\ ~cancelled /\ InOrder /\ DistanceInv /\ x \in OnTheWay
      /\ x.depth \in Nat /\ MaxDepth \in Nat /\ Provenance
  <2>1. x \in OnTheWay /\ BaseInv
    BY DEF OnTheWay, Late, DistanceHyp, CrawlInv
  <2> QED BY <2>1, OnTheWayTasks, CrawlerAssumption DEF DistanceHyp, Open, DepthOrder, CrawlInv
<1> DEFINE Bad == {m \in Nat : m < x.depth /\ ~(Within[m] \subseteq visited)}
<1> SUFFICES ASSUME Bad # {} PROVE FALSE
  OBVIOUS
<1>1. Bad \subseteq Nat
  OBVIOUS
<1>2. PICK m \in Bad : \A y \in Bad : m <= y
  BY <1>1, LeastOf
<1>3. m \in Nat /\ m < x.depth /\ ~(Within[m] \subseteq visited)
  OBVIOUS
<1>4. m # 0
  <2>1. SeedSet \subseteq visited
    BY DEF DistanceHyp, SeedsMarked
  <2> QED BY <1>3, <2>1, WithinSteps
<1>5. m \in 1..MaxDepth /\ m - 1 \in 0..MaxDepth /\ m - 1 \in Nat /\ m - 1 < x.depth /\ m - 1 \notin Bad
  BY <1>0, <1>2, <1>3, <1>4
<1>6. Within[m - 1] \subseteq visited
  BY <1>5
<1> HIDE DEF Bad
<1>7. PICK u \in Within[m] : u \notin visited
  BY <1>3
<1>8. PICK p \in Within[m - 1] : u \in Range(Links[p])
  BY <1>5, <1>6, <1>7, WithinSteps
<1>9. ASSUME NEW y \in Live, y \in OnTheWay, y.url = p PROVE FALSE
  <2>1. y.depth \in 0..MaxDepth /\ AtDistance(p, y.depth)
    BY <1>0, <1>9, LiveDistance
  <2>2. y.depth <= m - 1
    BY <1>5, <2>1, DistanceLeast
  <2>3. x.depth <= y.depth + 1
    BY <1>0, <1>9 DEF InOrder
  <2> QED BY <1>0, <1>3, <2>1, <2>2, <2>3
<1>10. p \in FetchedUrls
  <2>1. p \in FetchedUrls \/ p \in Handed \cup WaitUrls
    BY <1>6 DEF DistanceHyp, NotLost
  <2>2. pc \in LoopPCs
    BY DEF LoopPCs
  <2> QED BY <1>0, <1>9, <2>1, <2>2, OutstandingTask
<1> DEFINE k == fetched[p][1]
<1>11. k \in 0..MaxDepth /\ k <= m - 1
  <2>1. k \in 0..MaxDepth /\ AtDistance(p, k)
    BY <1>0, <1>10, FetchedDistance
  <2> QED BY <1>5, <2>1, DistanceLeast
<1>12. p \in URLs
  BY <1>10 DEF FetchedUrls
<1> HIDE DEF k
<1>13. OkPage(p)
  <2>1. SUFFICES ASSUME NEW w \in Workers, wpc[w] = "fetch", wtask[w].url = p PROVE FALSE
    BY <1>0, <1>10 DEF DistanceHyp, NoFailure
  <2>2. wtask[w] \in Live /\ wtask[w] \in OnTheWay
    BY <2>1 DEF Live, Sent, Busy, OnTheWay, Held
  <2> QED BY <1>9, <2>1, <2>2
<1> DEFINE z == [url |-> u, depth |-> k + 1]
<1>14. z \in Answers
  <2>1. k < MaxDepth
    BY <1>0, <1>3, <1>11
  <2>2. u \in visited \/ z \in Answers
    BY <1>8, <1>12, <1>13, <2>1 DEF DistanceHyp, LinksFollowed, k
  <2> QED BY <1>7, <2>2
<1>15. z.depth = k + 1 /\ k + 1 < x.depth
  BY <1>0, <1>3, <1>11
<1> HIDE DEF z
<1>16. CASE z \in Late
  <2>1. x.depth <= z.depth
    BY <1>0, <1>16 DEF InOrder, NoLater
  <2> QED BY <1>0, <1>11, <1>15, <2>1
<1>17. CASE z \in FoundTasks
  <2>1. PICK w \in Workers : wpc[w] = "found" /\ z \in Range(LinkTasks(wtask[w]))
    BY <1>17 DEF FoundTasks
  <2>2. wtask[w] \in OnTheWay /\ wtask[w] \in Task
    BY <1>0, <2>1, OnTheWayTasks DEF OnTheWay, Held, Busy
  <2>3. \A i \in DOMAIN LinkTasks(wtask[w]) : LinkTasks(wtask[w])[i].depth = wtask[w].depth + 1
    BY DEF LinkTasks
  <2>4. z.depth = wtask[w].depth + 1
    BY <2>1, <2>3 DEF Range
  <2>5. x.depth <= wtask[w].depth + 1
    BY <1>0, <2>2 DEF InOrder
  <2> QED BY <1>0, <1>11, <1>15, <2>4, <2>5
<1> QED BY <1>14, <1>16, <1>17 DEF Answers, Late

\* So a page that is marked is at the distance of its task.
LEMMA MarkedAtDistance ==
    ASSUME DistanceHyp, ~cancelled, DedupMark
    PROVE  AtDistance(Head(batch).url, Head(batch).depth)
<1> DEFINE x == Head(batch)
<1>1. /\ pc = "dedup" /\ batch \in Seq(Task) /\ batch # <<>> /\ ~Skipped(x) /\ ~VisitedFull
      /\ CrawlInv /\ DistanceInv
  BY DEF DedupMark, DistanceHyp, CrawlInv, BaseInv, CountInv, TypeOK, CoordTypeOK
<1>2. x \in Task /\ x \in Range(batch)
  BY <1>1, QueueTail
<1> HIDE DEF x
<1>3. x.url \notin visited /\ x.depth \in Nat /\ x.depth <= MaxDepth /\ MaxDepth \in Nat
  BY <1>1, <1>2, CrawlerAssumption DEF Skipped, Task
<1>4. Open
  BY <1>1 DEF Open
<1>5. Found(x)
  BY <1>1, <1>2, <1>3 DEF CrawlInv, Provenance
<1>6. PICK p \in FetchedUrls : x.url \in Range(Links[p]) /\ x.depth = fetched[p][1] + 1
  BY <1>5 DEF Found
<1>7. fetched[p][1] \in 0..MaxDepth /\ p \in Within[fetched[p][1]]
  BY <1>1, FetchedDistance DEF AtDistance
<1>8. x.depth \in 1..MaxDepth /\ x.depth - 1 = fetched[p][1]
  BY <1>3, <1>6, <1>7
<1>9. x.url \in Within[x.depth]
  BY <1>6, <1>7, <1>8, WithinSteps
<1>10. Within[x.depth - 1] \subseteq visited
  BY <1>1, <1>2, <1>3, <1>4, <1>8, NearerIsMarked
<1> QED BY <1>3, <1>9, <1>10 DEF AtDistance, x

\* With one worker and no flaky page, every step keeps the distances.
LEMMA DistanceStep == DistanceHyp /\ OneWorker /\ [Next]_vars => DistanceInv'
<1> SUFFICES ASSUME DistanceHyp, [Next]_vars PROVE DistanceInv'
  OBVIOUS
<1>1. CrawlInv /\ BaseInv /\ Exclusive /\ DistanceInv /\ fetched \in [URLs -> Seq(Nat)] /\ MaxDepth \in Nat
  BY CrawlerAssumption DEF DistanceHyp, CrawlInv, BaseInv, CountInv, TypeOK, WorkerTypeOK
<1>2. ASSUME ~cancelled', NEW CONSTANT x, x \in Live' PROVE AtDistance(x.url, x.depth)
  <2>1. ~cancelled
    BY <1>2, CancelStable
  <2>2. CASE x \in Live
    BY <1>1, <2>1, <2>2 DEF DistanceInv
  <2>3. CASE Start
    <3>1. x.url \in SeedSet /\ x.depth = 0
      BY <1>2, <2>3, StartMoves, SeedQueueUrls
    <3> QED BY <3>1, WithinSteps DEF AtDistance
  <2>4. CASE (StartStep \/ SelectStep) /\ ~Start
    BY <1>1, <1>2, <2>1, <2>2, <2>4, CoordMoves, MarkedAtDistance
  <2>5. CASE \E w \in Workers : WorkerStep(w)
    <3>1. PICK w \in Workers : WorkerStep(w)
      BY <2>5
    <3>2. UNCHANGED <<pc, overflow, newTasks>> /\ Sent' \subseteq Sent
      BY <1>1, <3>1, WorkerFrame, WorkerMoves DEF BaseInv, coordVars
    <3>3. x \in Live
      BY <1>2, <3>2 DEF Live, Waiting
    <3> QED BY <2>2, <3>3
  <2>6. CASE IndexerStep \/ Cancel \/ UNCHANGED vars
    <3>1. UNCHANGED <<pc, taskCh, wpc, wtask, overflow, newTasks>>
      BY <2>6, IndexerFrame DEF Cancel, vars, coordVars, chanVars, workerVars
    <3>2. x \in Live
      BY <1>2, <3>1, HandedFrame DEF Live, Waiting
    <3> QED BY <2>2, <3>2
  <2> QED BY <2>3, <2>4, <2>5, <2>6 DEF Next, Terminated
<1>3. BFSDepth' /\ \A p \in FetchedUrls' : fetched'[p][1] <= MaxDepth
  <2>1. CASE fetched' = fetched
    BY <1>1, <2>1 DEF DistanceInv, BFSDepth, FetchedUrls
  <2>2. ASSUME NEW w \in Workers, WorkerFetch(w) PROVE BFSDepth' /\ \A p \in FetchedUrls' : fetched'[p][1] <= MaxDepth
    <3> DEFINE u == wtask[w].url
               d == wtask[w].depth
    <3>1. /\ u \in URLs /\ wtask[w] \in Live /\ fetched' = [fetched EXCEPT ![u] = <<d>>]
          /\ FetchedUrls' = FetchedUrls \cup {u} /\ ~cancelled
      BY <1>1, <2>2, FetchMoves DEF WorkerFetch
    <3>2. d \in 0..MaxDepth /\ AtDistance(u, d)
      BY <1>1, <3>1, LiveDistance
    <3> HIDE DEF u, d
    <3>3. fetched'[u] = <<d>> /\ \A p \in URLs : p # u => fetched'[p] = fetched[p]
      BY <1>1, <3>1
    <3>4. ASSUME NEW p \in URLs, NEW i \in DOMAIN fetched'[p] PROVE AtDistance(p, fetched'[p][i])
      <4>1. CASE p = u
        <5>1. i = 1 /\ fetched'[p][i] = d
          BY <3>3, <3>4, <4>1
        <5> QED BY <3>2, <4>1, <5>1
      <4>2. CASE p # u
        <5>1. fetched'[p] = fetched[p]
          BY <3>3, <4>2
        <5> QED BY <1>1, <3>4, <5>1 DEF DistanceInv, BFSDepth, AtDistance
      <4> QED BY <4>1, <4>2
    <3>5. ASSUME NEW p \in FetchedUrls' PROVE fetched'[p][1] <= MaxDepth
      <4>1. CASE p = u
        <5>1. fetched'[p][1] = d
          BY <3>3, <4>1
        <5> QED BY <1>1, <3>2, <5>1
      <4>2. CASE p # u
        <5>1. p \in FetchedUrls /\ fetched'[p] = fetched[p]
          BY <3>1, <3>3, <4>2 DEF FetchedUrls
        <5> QED BY <1>1, <5>1 DEF DistanceInv
      <4> QED BY <4>1, <4>2
    <3> QED BY <3>4, <3>5 DEF BFSDepth, AtDistance
  <2> QED BY <2>1, <2>2, HistoryFrame
<1>4. ~cancelled' => \A x \in Live' : AtDistance(x.url, x.depth)
  BY <1>2
<1> QED BY <1>3, <1>4 DEF DistanceInv, AtDistance

\* The distances in every state.
LEMMA DistanceAlways == ASSUME DistinctSeeds, OneWorker, Flaky = {} PROVE Spec => []DistanceInv
<1>1. Init => DistanceInv
  <2> SUFFICES ASSUME Init PROVE DistanceInv
    OBVIOUS
  <2>1. Live = {}
    BY EmptyQueue DEF Init, Live, Sent, Busy, LoopPCs
  <2> QED BY <2>1 DEF Init, DistanceInv, BFSDepth, FetchedUrls
<1>2. CrawlInv /\ NotLost /\ SeedsMarked /\ LinksFollowed /\ NoFailure /\ DepthOrder /\ DistanceInv /\ [Next]_vars
        => DistanceInv'
  BY DistanceStep DEF DistanceHyp
<1> QED BY <1>1, <1>2, CrawlInvAlways, NotLostAlways, SeedsMarkedAlways, LinksFollowedAlways, NoFailureAlways,
        DepthOrderAlways, PTL DEF Spec

\* For every web with distinct seeds and no flaky page, crawled by one worker:
\* the depth under which a page is fetched is its distance from the seeds,
\* although the queue is split between taskCh and overflow and filled from both
\* sides, and wherever the crawl is cut off.
THEOREM DepthIsDistance == ASSUME DistinctSeeds, OneWorker, Flaky = {} PROVE Spec => []BFSDepth
<1>1. DistanceInv => BFSDepth
  BY DEF DistanceInv
<1> QED BY <1>1, DistanceAlways, PTL
-----------------------------------------------------------------------------
(* Nothing reachable is missed *)

\* When Start is about to report "completed", every page within any number of
\* links was fetched: the nearest one that was not would be a link of a page
\* that was fetched, above the depth limit, and whose links were followed.
LEMMA ReachedAtFinish ==
    ASSUME CrawlInv, LinksFollowed, SeedsMarked, NoFailure, DistanceInv, Flaky = {},
           Finish, ~cancelled, ~urlLimitReached, NEW n \in 0..MaxDepth
    PROVE  Within[n] \subseteq FetchedUrls
<1>0. MaxDepth \in Nat
  BY CrawlerAssumption
<1>1. /\ Open /\ Answers = {} /\ visited = FetchedUrls
      /\ pc = "resultsClosed" /\ \A w \in Workers : wpc[w] = "exit"
  BY QuietAtFinish
<1> DEFINE Bad == {m \in 0..MaxDepth : ~(Within[m] \subseteq FetchedUrls)}
<1> SUFFICES ASSUME Bad # {} PROVE FALSE
  OBVIOUS
<1>2. Bad \subseteq Nat
  BY <1>0
<1>3. PICK m \in Bad : \A y \in Bad : m <= y
  BY <1>2, LeastOf
<1>4. m \in 0..MaxDepth /\ ~(Within[m] \subseteq FetchedUrls)
  OBVIOUS
<1>5. m # 0
  BY <1>1, <1>4, WithinSteps DEF SeedsMarked
<1>6. m \in 1..MaxDepth /\ m - 1 \in 0..MaxDepth /\ m - 1 \notin Bad
  BY <1>0, <1>3, <1>4, <1>5
<1>7. Within[m - 1] \subseteq FetchedUrls
  BY <1>6
<1> HIDE DEF Bad
<1>8. PICK u \in Within[m] : u \notin FetchedUrls
  BY <1>4
<1>9. PICK p \in Within[m - 1] : u \in Range(Links[p])
  BY <1>6, <1>7, <1>8, WithinSteps
<1>10. p \in FetchedUrls /\ p \in URLs /\ OkPage(p)
  BY <1>1, <1>7 DEF NoFailure, FetchedUrls
<1>11. fetched[p][1] < MaxDepth
  <2>1. fetched[p][1] \in 0..MaxDepth /\ AtDistance(p, fetched[p][1])
    BY <1>10, FetchedDistance
  <2>2. fetched[p][1] <= m - 1
    BY <1>6, <2>1, DistanceLeast
  <2> QED BY <1>0, <1>6, <2>1, <2>2
<1> QED BY <1>1, <1>8, <1>9, <1>10, <1>11 DEF LinksFollowed

\* For every web with distinct seeds, crawled by one worker: "completed" means
\* that every page within the depth limit was crawled, provided no page is
\* flaky and no URL limit is set.
THEOREM CompletedCrawlsCoverTheWeb == ASSUME DistinctSeeds, OneWorker PROVE Spec => []ReachableCovered
<1>1. CASE Flaky # {}
  <2>1. ReachableCovered
    BY <1>1 DEF ReachableCovered
  <2> QED BY <2>1, PTL
<1>2. CASE Flaky = {}
  <2>1. Init => ReachableCovered
    BY DEF Init, ReachableCovered, ZeroMetrics
  <2>2. ASSUME CrawlInv, LinksFollowed, SeedsMarked, NoFailure, DistanceInv, ReachableCovered, [Next]_vars
        PROVE  ReachableCovered'
    <3>1. TypeOK /\ BaseInv /\ IndexPhases
      BY <2>2 DEF CrawlInv, BaseInv, CountInv, Flushed
    <3>2. CASE pc = "done"
      <4>1. UNCHANGED <<metrics, fetched>>
        BY <2>2, <3>1, <3>2, DoneIsQuiet DEF vars, workerVars
      <4> QED BY <2>2, <4>1 DEF ReachableCovered
    <3>3. CASE pc # "done" /\ ~Finish
      <4>1. metrics'.StopReason = metrics.StopReason /\ metrics.StopReason = "none"
        BY <2>2, <3>1, <3>3, MetricsFrame, IndexerKeepsReason DEF CrawlInv, ReasonLast
      <4> QED BY <4>1 DEF ReachableCovered
    <3>4. CASE Finish
      <4>1. fetched' = fetched /\ metrics'.StopReason = StopReasonNow
        BY <3>1, <3>4 DEF Finish, workerVars, TypeOK, Metrics
      <4>2. CASE ~cancelled /\ ~urlLimitReached
        <5>1. Within[MaxDepth] \subseteq FetchedUrls
          BY <1>2, <2>2, <3>4, <4>2, ReachedAtFinish, CrawlerAssumption
        <5> QED BY <4>1, <5>1 DEF ReachableCovered, FetchedUrls
      <4>3. CASE cancelled \/ urlLimitReached
        <5>1. metrics'.StopReason # "completed"
          BY <4>1, <4>3 DEF StopReasonNow
        <5> QED BY <5>1 DEF ReachableCovered
      <4> QED BY <4>2, <4>3
    <3> QED BY <3>2, <3>3, <3>4
  <2> QED BY <1>2, <2>1, <2>2, CrawlInvAlways, LinksFollowedAlways, SeedsMarkedAlways, NoFailureAlways,
          DistanceAlways, PTL DEF Spec
<1> QED BY <1>1, <1>2

=============================================================================
