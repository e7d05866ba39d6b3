---------------------- MODULE CrawlerRefinementProofs ----------------------
(***************************************************************************)
(* Crawler implements Worklist, for every web with distinct seeds.         *)
(***************************************************************************)
EXTENDS CrawlerEndProofs, CrawlerRefinement

-----------------------------------------------------------------------------
(* A fetch *)

\* A worker fetches a page that was not fetched before, and writes its depth
\* into the history.
LEMMA FetchMoves ==
    ASSUME BaseInv, Exclusive, NEW w \in Workers, WorkerFetch(w)
    PROVE  /\ wtask[w] \in Task /\ wtask[w].url \in URLs /\ wtask[w].depth \in Nat
           /\ wtask[w] \in Live
           /\ wtask[w].url \notin FetchedUrls /\ fetched[wtask[w].url] = <<>>
           /\ fetched' = [fetched EXCEPT ![wtask[w].url] = <<wtask[w].depth>>]
           /\ FetchedUrls' = FetchedUrls \cup {wtask[w].url}
<1> DEFINE u == wtask[w].url
           d == wtask[w].depth
<1>1. wpc[w] = "check" /\ fetched' = [fetched EXCEPT ![u] = Append(@, d)]
  BY DEF WorkerFetch
<1>2. wtask[w] \in Task /\ wtask[w] \in Live /\ w \in Checking
  BY <1>1 DEF BaseInv, CountInv, HeldTasks, Busy, Live, Sent, Checking
<1>3. u \in URLs /\ d \in Nat /\ fetched \in [URLs -> Seq(Nat)]
  BY <1>2 DEF Task, BaseInv, CountInv, TypeOK, WorkerTypeOK
<1>4. u \in Handed
  BY <1>2 DEF Handed, CheckUrls
<1>5. u \notin FetchedUrls /\ fetched[u] = <<>>
  BY <1>3, <1>4 DEF Exclusive, FetchedUrls
<1> HIDE DEF u, d
<1>6. Append(<<>>, d) = <<d>> /\ <<d>> # <<>>
  BY <1>3
<1>7. fetched' = [fetched EXCEPT ![u] = <<d>>]
  BY <1>1, <1>3, <1>5, <1>6
<1>8. fetched'[u] # <<>> /\ \A v \in URLs : v # u => fetched'[v] = fetched[v]
  BY <1>3, <1>6, <1>7
<1>9. FetchedUrls' = FetchedUrls \cup {u}
  <2>1. ASSUME NEW v \in URLs PROVE v \in FetchedUrls' <=> v \in FetchedUrls \cup {u}
    BY <1>8 DEF FetchedUrls
  <2> QED BY <1>3, <2>1 DEF FetchedUrls
<1> QED BY <1>2, <1>3, <1>5, <1>7, <1>9 DEF u, d

\* Nothing but a worker's fetch changes the history.
LEMMA HistoryFrame ==
    ASSUME [Next]_vars, \A w \in Workers : ~WorkerFetch(w)
    PROVE  fetched' = fetched
<1>1. ASSUME NEW w \in Workers, WorkerStep(w) PROVE fetched' = fetched
  BY <1>1 DEF WorkerStep, WorkerRecv, WorkerExit, WorkerGiveBack, WorkerResult, WorkerAnswer
<1>2. CASE StartStep \/ SelectStep
  BY <1>2, CoordFrame
<1>3. CASE IndexerStep \/ Cancel \/ UNCHANGED vars
  BY <1>3, IndexerFrame DEF Cancel, vars, workerVars
<1> QED BY <1>1, <1>2, <1>3 DEF Next, Terminated

\* What was fetched stays as it is.
LEMMA HistoryStable ==
    ASSUME BaseInv, Exclusive, [Next]_vars, NEW p \in FetchedUrls
    PROVE  fetched'[p] = fetched[p] /\ p \in FetchedUrls'
<1>1. p \in URLs /\ fetched[p] # <<>> /\ fetched \in [URLs -> Seq(Nat)]
  BY DEF FetchedUrls, BaseInv, CountInv, TypeOK, WorkerTypeOK
<1>2. fetched'[p] = fetched[p]
  <2>1. CASE \E w \in Workers : WorkerFetch(w)
    <3>1. PICK w \in Workers : WorkerFetch(w)
      BY <2>1
    <3>2. /\ wtask[w].url \notin FetchedUrls
          /\ fetched' = [fetched EXCEPT ![wtask[w].url] = <<wtask[w].depth>>]
      BY <3>1, FetchMoves
    <3> QED BY <1>1, <3>2
  <2>2. CASE \A w \in Workers : ~WorkerFetch(w)
    BY <2>2, HistoryFrame
  <2> QED BY <2>1, <2>2
<1> QED BY <1>1, <1>2 DEF FetchedUrls

-----------------------------------------------------------------------------
(* Where the tasks come from *)

\* A link to x.url on a fetched page one level above x.
Found(x) ==
    \E p \in FetchedUrls : x.url \in Range(Links[p]) /\ x.depth = fetched[p][1] + 1
Grounded(x) == (x.url \in SeedSet /\ x.depth = 0) \/ Found(x)

\* Every task on its way is a seed or a link of a fetched page; every answer
\* is that or an old acquaintance; the history agrees with the task a worker
\* has fetched.
Provenance ==
    /\ \A x \in Live : Grounded(x)
    /\ \A x \in Range(batch) \cup Answered : x.url \in visited \/ Found(x)
    /\ \A w \in Workers : wpc[w] \in {"fetch", "found", "failed"}
                              => fetched[wtask[w].url] = <<wtask[w].depth>>

\* The links a worker found come from the page it fetched.
LEMMA LinksAreFound ==
    ASSUME BaseInv, Provenance, NEW w \in Workers, wpc[w] = "found", NEW x \in Range(LinkTasks(wtask[w]))
    PROVE  Found(x)
<1> DEFINE u == wtask[w].url
<1>1. wtask[w] \in Task /\ u \in URLs /\ wtask[w].depth \in Nat
  BY DEF BaseInv, CountInv, HeldTasks, Busy, Task
<1>2. fetched[u] = <<wtask[w].depth>>
  BY DEF Provenance
<1>3. fetched[u] # <<>> /\ fetched[u][1] = wtask[w].depth
  BY <1>1, <1>2
<1>4. PICK i \in DOMAIN Links[u] : x = [url |-> Links[u][i], depth |-> wtask[w].depth + 1]
  BY DEF LinkTasks, Range
<1>5. x.url \in Range(Links[u]) /\ x.depth = fetched[u][1] + 1
  BY <1>3, <1>4 DEF Range
<1> QED BY <1>1, <1>3, <1>5 DEF Found, FetchedUrls

\* What was found stays found.
LEMMA FoundStable ==
    ASSUME BaseInv, Exclusive, [Next]_vars, NEW CONSTANT x, Found(x)
    PROVE  Found(x)'
<1>1. PICK p \in FetchedUrls : x.url \in Range(Links[p]) /\ x.depth = fetched[p][1] + 1
  BY DEF Found
<1>2. p \in FetchedUrls' /\ fetched'[p] = fetched[p]
  BY <1>1, HistoryStable
<1> QED BY <1>1, <1>2 DEF Found

\* A worker's fetch is written down under the task's depth and stays so.
LEMMA HistoryOfWorkers ==
    ASSUME BaseInv, Exclusive, Provenance, [Next]_vars, NEW w \in Workers,
           wpc'[w] \in {"fetch", "found", "failed"}
    PROVE  fetched'[wtask'[w].url] = <<wtask'[w].depth>>
<1>1. wpc \in [Workers -> WorkerPCs] /\ wtask \in [Workers -> Task \cup {NoTask}] /\ fetched \in [URLs -> Seq(Nat)]
  BY DEF BaseInv, CountInv, TypeOK, WorkerTypeOK
<1>2. CASE WorkerFetch(w)
  <2>1. wtask[w].url \in URLs /\ fetched' = [fetched EXCEPT ![wtask[w].url] = <<wtask[w].depth>>] /\ wtask' = wtask
    BY <1>2, FetchMoves DEF WorkerFetch
  <2> QED BY <1>1, <2>1
<1>3. ASSUME wpc[w] \in {"fetch", "found", "failed"}, wtask'[w] = wtask[w]
      PROVE  fetched'[wtask'[w].url] = <<wtask'[w].depth>>
  <2>1. wtask[w].url \in URLs
    BY <1>3 DEF BaseInv, CountInv, HeldTasks, Busy, Task
  <2>2. fetched[wtask[w].url] = <<wtask[w].depth>>
    BY <1>3 DEF Provenance
  <2>3. wtask[w].url \in FetchedUrls
    <3>1. \A d : <<d>> # <<>>
      OBVIOUS
    <3> QED BY <2>1, <2>2, <3>1 DEF FetchedUrls
  <2> QED BY <1>3, <2>2, <2>3, HistoryStable
<1>4. CASE ~WorkerFetch(w)
  <2>1. CASE StartStep \/ SelectStep
    <3>1. CASE Start
      BY <3>1 DEF Start, Begin
    <3>2. CASE EnqueueSend \/ SendOverflow
      <4>1. UNCHANGED <<wpc, wtask>> \/
            \E v \in Workers : /\ wpc' = [wpc EXCEPT ![v] = "check"]
                               /\ \E t : wtask' = [wtask EXCEPT ![v] = t]
        BY <3>2 DEF EnqueueSend, SendOverflow, Send
      <4>2. wpc[w] \in {"fetch", "found", "failed"} /\ wtask'[w] = wtask[w]
        BY <1>1, <4>1
      <4> QED BY <1>3, <4>2
    <3>3. CASE UNCHANGED <<wpc, wtask>>
      BY <1>3, <3>3
    <3> QED BY <2>1, <3>1, <3>2, <3>3, CoordFrame
  <2>2. ASSUME NEW v \in Workers, WorkerStep(v) PROVE fetched'[wtask'[w].url] = <<wtask'[w].depth>>
    <3>1. wpc[w] \in {"fetch", "found", "failed"} /\ wtask'[w] = wtask[w]
      BY <1>1, <1>4, <2>2 DEF WorkerStep, WorkerRecv, WorkerExit, WorkerGiveBack, WorkerFetch, WorkerResult, WorkerAnswer
    <3> QED BY <1>3, <3>1
  <2>3. CASE IndexerStep \/ Cancel \/ UNCHANGED vars
    BY <1>3, <2>3, IndexerFrame DEF Cancel, vars, workerVars
  <2> QED BY <2>1, <2>2, <2>3 DEF Next, Terminated
<1> QED BY <1>2, <1>4

\* The answers in flight are old ones, or one worker's.
LEMMA AnswersFlow ==
    ASSUME BaseInv, Admitted, Provenance, [Next]_vars, NEW x \in Range(batch') \cup Answered'
    PROVE  x.url \in visited \/ Found(x)
<1>1. \A y \in Range(batch) \cup Answered : y.url \in visited \/ Found(y)
  BY DEF Provenance
<1>2. discoveredCh \in Seq(Seq(Task)) /\ batch \in Seq(Task) /\ CountInv
  BY DEF BaseInv, CountInv, TypeOK, ChanTypeOK, CoordTypeOK
<1>3. CASE Range(batch') \cup Answered' \subseteq Range(batch) \cup Answered
  BY <1>1, <1>3
<1>4. CASE Start
  <2>1. batch' = <<>> /\ discoveredCh' = <<>>
    BY <1>4 DEF Start, Begin
  <2> QED BY <2>1, EmptyQueue DEF Answered
<1>5. CASE LimitRecv \/ RecvBatch \/ DrainRecv
  <2>1. /\ discoveredCh # <<>> /\ discoveredCh' = Tail(discoveredCh)
        /\ batch' = batch \/ batch' = Head(discoveredCh)
    BY <1>5 DEF LimitRecv, RecvBatch, DrainRecv
  <2>2. Answered = Answered' \cup Range(Head(discoveredCh))
    BY <1>2, <2>1, AnsweredTail
  <2> QED BY <1>3, <2>1, <2>2
<1>6. CASE DedupSkip \/ DedupBreak \/ DedupMark
  <2>1. discoveredCh' = discoveredCh /\ batch # <<>> /\ (batch' = Tail(batch) \/ batch' = <<>>)
    BY <1>6 DEF DedupSkip, DedupBreak, DedupMark, chanVars
  <2>2. Range(batch') \subseteq Range(batch)
    <3>1. Range(Tail(batch)) \subseteq Range(batch) /\ Range(<<>>) \subseteq Range(batch)
      BY <1>2, <2>1, QueueTail, EmptyQueue
    <3> QED BY <2>1, <3>1
  <2>3. Answered' = Answered
    BY <2>1 DEF Answered
  <2> QED BY <1>3, <2>2, <2>3
<1>7. ASSUME NEW w \in Workers, WorkerAnswer(w) PROVE x.url \in visited \/ Found(x)
  <2>1. /\ w \in Busy /\ discoveredCh' = Append(discoveredCh, Answer(w)) /\ batch' = batch
        /\ wpc[w] \in {"return", "found", "failed"}
    BY <1>7 DEF WorkerAnswer, Busy, coordVars
  <2>2. Answered' = Answered \cup Range(Answer(w))
    BY <1>2, <2>1, AnswerType, AnsweredAppend
  <2>3. ASSUME x \in Range(Answer(w)) PROVE x.url \in visited \/ Found(x)
    <3>1. CASE wpc[w] = "return"
      <4>1. x = wtask[w]
        BY <2>3, <3>1 DEF Answer, Range
      <4>2. wtask[w] \in Live
        BY <2>1 DEF Live, Sent
      <4> QED BY <4>1, <4>2 DEF Admitted
    <3>2. CASE wpc[w] = "found"
      BY <2>3, <3>2, LinksAreFound DEF Answer
    <3>3. CASE wpc[w] = "failed"
      BY <2>3, <3>3, EmptyQueue DEF Answer
    <3> QED BY <2>1, <3>1, <3>2, <3>3
  <2> QED BY <1>1, <2>1, <2>2, <2>3
<1>8. CASE UNCHANGED <<batch, discoveredCh>>
  BY <1>3, <1>8 DEF Answered
<1>9. CASE \E w \in Workers : WorkerStep(w) /\ ~WorkerAnswer(w)
  BY <1>8, <1>9 DEF WorkerStep, WorkerRecv, WorkerExit, WorkerGiveBack, WorkerFetch, WorkerResult, coordVars, chanVars
<1>10. CASE IndexerStep \/ Cancel \/ UNCHANGED vars
  BY <1>8, <1>10, IndexerFrame DEF Cancel, vars, coordVars, chanVars
<1>11. CASE \/ LoopExit \/ LoopLimit \/ LoopSelect \/ CtxDone \/ BeginEnqueue \/ SendOverflow \/ AppendNew
            \/ EnqueueDone \/ EnqueueSend \/ EnqueueOverflow \/ SaveQueue \/ SaveVisited \/ FinishFlush
            \/ FinishClear \/ CloseResults \/ Finish \/ PersistTick
  BY <1>8, <1>11 DEF LoopExit, LoopLimit, LoopSelect, CtxDone, BeginEnqueue, SendOverflow, AppendNew,
     EnqueueDone, EnqueueSend, EnqueueOverflow, SaveQueue, SaveVisited, FinishFlush, FinishClear,
     CloseResults, Finish, PersistTick, chanVars
<1> QED BY <1>4, <1>5, <1>6, <1>7, <1>9, <1>10, <1>11 DEF Next, Terminated, StartStep, SelectStep

\* Every step keeps the provenance.
LEMMA ProvenanceStep ==
    BaseInv /\ Admitted /\ Exclusive /\ Provenance /\ [Next]_vars => Provenance'
<1> SUFFICES ASSUME BaseInv, Admitted, Exclusive, Provenance, [Next]_vars PROVE Provenance'
  OBVIOUS
<1>1. visited \subseteq visited'
  BY VisitedGrows
<1>2. ASSUME NEW CONSTANT x, x \in Live PROVE Grounded(x)'
  BY <1>2, FoundStable DEF Provenance, Grounded
<1>3. ASSUME NEW CONSTANT x, x \in Live' PROVE Grounded(x)'
  <2>1. CASE Start
    <3>1. x \in Range(SeedQueue)
      BY <1>3, <2>1, StartMoves
    <3> QED BY <3>1, SeedQueueUrls DEF Grounded
  <2>2. CASE (StartStep \/ SelectStep) /\ ~Start
    <3>1. CASE x \in Live
      BY <1>2, <3>1
    <3>2. CASE DedupMark /\ x = Head(batch)
      <4>1. batch \in Seq(Task) /\ batch # <<>> /\ x.url \notin visited
        BY <3>2 DEF DedupMark, Skipped, BaseInv, CountInv, TypeOK, CoordTypeOK
      <4>2. x \in Range(batch)
        BY <3>2, <4>1, QueueTail
      <4>3. Found(x)
        BY <4>1, <4>2 DEF Provenance
      <4> QED BY <4>3, FoundStable DEF Grounded
    <3> QED BY <1>3, <2>2, <3>1, <3>2, CoordMoves
  <2>3. ASSUME NEW w \in Workers, WorkerStep(w) PROVE x \in Live
    <3>1. UNCHANGED <<pc, overflow, newTasks>>
      BY <2>3, WorkerFrame DEF coordVars
    <3> QED BY <1>3, <2>3, <3>1, WorkerMoves DEF BaseInv, Live, Waiting
  <2>4. CASE IndexerStep \/ Cancel \/ UNCHANGED vars
    <3>1. UNCHANGED <<pc, taskCh, wpc, wtask, overflow, newTasks>>
      BY <2>4, IndexerFrame DEF Cancel, vars, coordVars, chanVars, workerVars
    <3>2. x \in Live
      BY <1>3, <3>1, HandedFrame DEF Live, Waiting
    <3> QED BY <1>2, <3>2
  <2> QED BY <1>2, <2>1, <2>2, <2>3, <2>4 DEF Next, Terminated
<1>4. ASSUME NEW CONSTANT x, x \in Range(batch') \cup Answered' PROVE x.url \in visited' \/ Found(x)'
  BY <1>1, <1>4, AnswersFlow, FoundStable
<1>5. \A w \in Workers : wpc'[w] \in {"fetch", "found", "failed"} => fetched'[wtask'[w].url] = <<wtask'[w].depth>>
  BY HistoryOfWorkers
<1> QED BY <1>3, <1>4, <1>5 DEF Provenance

\* The provenance of every task of a crawl.
LEMMA ProvenanceAlways == ASSUME DistinctSeeds PROVE Spec => []Provenance
<1>1. Init => Provenance
  <2> SUFFICES ASSUME Init PROVE Provenance
    OBVIOUS
  <2>1. Live = {} /\ Range(batch) = {} /\ Answered = {}
    BY EmptyQueue DEF Init, Live, Sent, Busy, LoopPCs, Answered
  <2> QED BY <2>1 DEF Init, Provenance
<1> QED BY <1>1, ExclusiveAlways, BaseAlways, AdmittedAlways, ProvenanceStep, PTL DEF Spec

-----------------------------------------------------------------------------
(* What PagesProcessed counts *)

Fetching == {w \in Workers : wpc[w] = "fetch"}

\* Every fetched page is with its worker, in resultsCh, in the flush of a full
\* batch, or counted.
Processed ==
    metrics.PagesProcessed + Len(resultsCh) + Cardinality(Fetching)
        + (IF flushFor = "batch" THEN 1 ELSE 0) = Cardinality(FetchedUrls)

\* A fetch and its record keep the count.
LEMMA ProcessedWorker ==
    ASSUME BaseInv, Exclusive, IsFiniteSet(FetchedUrls), Processed, NEW w \in Workers, WorkerStep(w)
    PROVE  Processed'
<1>1. /\ wpc \in [Workers -> WorkerPCs] /\ resultsCh \in Seq(Record) /\ metrics.PagesProcessed \in Nat
  BY DEF BaseInv, CountInv, TypeOK, WorkerTypeOK, ChanTypeOK, Metrics
<1>2. IsFiniteSet(Fetching)
  BY CrawlerAssumption, FS_Subset DEF Fetching
<1>3. Cardinality(Fetching) \in Nat /\ Cardinality(FetchedUrls) \in Nat /\ Len(resultsCh) \in Nat
  BY <1>1, <1>2, FS_CardinalityType
<1>4. metrics' = metrics /\ flushFor' = flushFor
  BY WorkerFrame DEF indexVars
<1>5. CASE WorkerRecv(w) \/ WorkerExit(w) \/ WorkerGiveBack(w) \/ WorkerAnswer(w)
  <2>1. UNCHANGED <<resultsCh, fetched>>
    BY <1>5 DEF WorkerRecv, WorkerExit, WorkerGiveBack, WorkerAnswer, chanVars
  <2>2. Fetching' = Fetching /\ FetchedUrls' = FetchedUrls
    BY <1>1, <1>5, <2>1 DEF Fetching, FetchedUrls, WorkerRecv, WorkerExit, WorkerGiveBack, WorkerAnswer
  <2> QED BY <1>4, <2>1, <2>2 DEF Processed
<1>6. CASE WorkerFetch(w)
  <2>1. Fetching' = Fetching \cup {w} /\ w \notin Fetching /\ resultsCh' = resultsCh
    BY <1>1, <1>6 DEF WorkerFetch, Fetching, chanVars
  <2>2. wtask[w].url \notin FetchedUrls /\ FetchedUrls' = FetchedUrls \cup {wtask[w].url}
    BY <1>6, FetchMoves
  <2>3. Cardinality(Fetching') = Cardinality(Fetching) + 1
    BY <1>2, <2>1, FS_AddElement
  <2>4. Cardinality(FetchedUrls') = Cardinality(FetchedUrls) + 1
    BY <2>2, FS_AddElement
  <2> QED BY <1>1, <1>3, <1>4, <2>1, <2>3, <2>4 DEF Processed
<1>7. CASE WorkerResult(w)
  <2>1. /\ wpc[w] = "fetch" /\ fetched' = fetched
        /\ \E ok \in BOOLEAN : /\ resultsCh' = Append(resultsCh, [url |-> wtask[w].url, ok |-> ok])
                               /\ wpc' = [wpc EXCEPT ![w] = IF ok THEN "found" ELSE "failed"]
    BY <1>7 DEF WorkerResult, FetchOutcomes
  <2>2. Fetching' = Fetching \ {w} /\ w \in Fetching /\ FetchedUrls' = FetchedUrls
    BY <1>1, <2>1 DEF Fetching, FetchedUrls
  <2>3. Cardinality(Fetching') = Cardinality(Fetching) - 1
    BY <1>2, <2>2, FS_RemoveElement
  <2>4. Len(resultsCh') = Len(resultsCh) + 1
    <3>1. wtask[w].url \in URLs
      BY <2>1 DEF BaseInv, CountInv, HeldTasks, Busy, Task
    <3>2. \A ok \in BOOLEAN : [url |-> wtask[w].url, ok |-> ok] \in Record
      BY <3>1 DEF Record
    <3> QED BY <1>1, <2>1, <3>2
  <2> QED BY <1>1, <1>3, <1>4, <2>2, <2>3, <2>4 DEF Processed
<1> QED BY <1>5, <1>6, <1>7 DEF WorkerStep

\* The indexer keeps it.
LEMMA ProcessedIndexer ==
    ASSUME BaseInv, IndexPhases, IsFiniteSet(FetchedUrls), Processed, IndexerStep
    PROVE  Processed'
<1>1. /\ resultsCh \in Seq(Record) /\ metrics \in Metrics /\ metrics.PagesProcessed \in Nat
  BY DEF BaseInv, CountInv, TypeOK, ChanTypeOK, Metrics
<1>2. IsFiniteSet(Fetching)
  BY CrawlerAssumption, FS_Subset DEF Fetching
<1>3. Cardinality(Fetching) \in Nat /\ Cardinality(FetchedUrls) \in Nat /\ Len(resultsCh) \in Nat
  BY <1>1, <1>2, FS_CardinalityType
<1>4. Fetching' = Fetching /\ FetchedUrls' = FetchedUrls
  BY IndexerFrame DEF workerVars, Fetching, FetchedUrls
<1> DEFINE P == metrics.PagesProcessed
<1>5. CASE IndexError
  <2>1. resultsCh # <<>> /\ resultsCh' = Tail(resultsCh) /\ flushFor' = flushFor
        /\ metrics' = [metrics EXCEPT !.PagesErrored = @ + 1, !.PagesProcessed = @ + 1]
    BY <1>5 DEF IndexError, indexVars
  <2>2. P' = P + 1 /\ Len(resultsCh') = Len(resultsCh) - 1
    BY <1>1, <2>1 DEF Metrics
  <2> QED BY <1>1, <1>3, <1>4, <2>1, <2>2 DEF Processed
<1>6. CASE IndexPage
  <2>1. /\ resultsCh # <<>> /\ resultsCh' = Tail(resultsCh) /\ flushFor = "none"
        /\ \/ metrics' = [metrics EXCEPT !.IndexedDocs = @ + 1] /\ flushFor' = "batch"
           \/ metrics' = [metrics EXCEPT !.IndexedDocs = @ + 1, !.PagesProcessed = @ + 1] /\ flushFor' = flushFor
    BY <1>6 DEF IndexPage, IndexPhases
  <2>2. (P' = P /\ flushFor' = "batch") \/ (P' = P + 1 /\ flushFor' = "none")
    BY <1>1, <2>1 DEF Metrics
  <2>3. Len(resultsCh') = Len(resultsCh) - 1
    BY <1>1, <2>1
  <2> QED BY <1>1, <1>3, <1>4, <2>1, <2>2, <2>3 DEF Processed
<1>7. CASE IndexAppend
  <2>1. /\ metrics' = [metrics EXCEPT !.PagesProcessed = @ + (IF flushFor = "batch" THEN 1 ELSE 0)]
        /\ flushFor' = "none" /\ resultsCh' = resultsCh
    BY <1>7 DEF IndexAppend, chanVars
  <2>2. P' = P + (IF flushFor = "batch" THEN 1 ELSE 0)
    BY <1>1, <2>1 DEF Metrics
  <2> QED BY <1>1, <1>3, <1>4, <2>1, <2>2 DEF Processed
<1>8. CASE IndexTick \/ IndexClosed \/ IndexSave
  <2>1. /\ metrics' = metrics /\ resultsCh' = resultsCh
        /\ flushFor' = flushFor \/ (flushFor = "none" /\ flushFor' # "batch")
    BY <1>8 DEF IndexTick, IndexClosed, IndexSave, IndexPhases, chanVars
  <2> QED BY <1>1, <1>3, <1>4, <2>1 DEF Processed
<1> QED BY <1>5, <1>6, <1>7, <1>8 DEF IndexerStep

\* The count is exact in every state of a crawl.
LEMMA ProcessedAlways == ASSUME DistinctSeeds PROVE Spec => []Processed
<1>1. Init => Processed
  <2> SUFFICES ASSUME Init PROVE Processed
    OBVIOUS
  <2>1. Fetching = {} /\ FetchedUrls = {} /\ Cardinality({}) = 0
    BY FS_EmptySet DEF Init, Fetching, FetchedUrls
  <2>2. metrics.PagesProcessed = 0 /\ Len(resultsCh) = 0 /\ flushFor = "none"
    BY DEF Init, ZeroMetrics
  <2> QED BY <2>1, <2>2 DEF Processed
<1>2. ASSUME BaseInv, Admitted, Exclusive, VisitedBounded, Flushed, Processed, [Next]_vars PROVE Processed'
  <2>1. IsFiniteSet(FetchedUrls)
    BY <1>2, FS_Subset DEF Admitted, VisitedBounded
  <2>2. CASE Start
    <3>1. resultsCh' = <<>> /\ flushFor' = "none" /\ wpc' = [w \in Workers |-> "recv"] /\ fetched' = fetched
          /\ resultsCh = <<>> /\ flushFor = "none" /\ fetched = [u \in URLs |-> <<>>] /\ metrics = ZeroMetrics
      BY <1>2, <2>2 DEF Start, Begin, BaseInv, Fresh
    <3>2. Fetching' = {} /\ FetchedUrls' = {} /\ Cardinality({}) = 0
      BY <3>1, FS_EmptySet DEF Fetching, FetchedUrls
    <3>3. metrics'.PagesProcessed = 0 /\ Len(resultsCh') = 0
      BY <2>2, <3>1 DEF Start, ZeroMetrics
    <3> QED BY <3>1, <3>2, <3>3 DEF Processed
  <2>3. CASE (StartStep \/ SelectStep) /\ ~Start /\ ~IndexerStep
    <3>1. UNCHANGED <<resultsCh, fetched, flushFor>> /\ metrics'.PagesProcessed = metrics.PagesProcessed
      BY <1>2, <2>3, CoordFrame, MetricsFrame DEF indexVars, BaseInv, CountInv
    <3>2. wpc \in [Workers -> WorkerPCs]
      BY <1>2 DEF BaseInv, CountInv, TypeOK, WorkerTypeOK
    <3>3. Fetching' = Fetching
      <4>1. CASE EnqueueSend \/ SendOverflow
        BY <3>2, <4>1 DEF EnqueueSend, SendOverflow, Send, Fetching
      <4>2. CASE UNCHANGED wpc
        BY <4>2 DEF Fetching
      <4> QED BY <2>3, <4>1, <4>2, CoordFrame
    <3>4. FetchedUrls' = FetchedUrls
      BY <3>1 DEF FetchedUrls
    <3> QED BY <1>2, <3>1, <3>3, <3>4 DEF Processed
  <2>4. CASE \E w \in Workers : WorkerStep(w)
    BY <1>2, <2>1, <2>4, ProcessedWorker
  <2>5. CASE IndexerStep
    BY <1>2, <2>1, <2>5, ProcessedIndexer DEF Flushed
  <2>6. CASE Cancel \/ UNCHANGED vars
    BY <1>2, <2>6 DEF Cancel, vars, indexVars, chanVars, workerVars, Processed, Fetching, FetchedUrls
  <2> QED BY <1>2, <2>2, <2>3, <2>4, <2>5, <2>6 DEF Next, Terminated
<1> QED BY <1>1, <1>2, BaseAlways, AdmittedAlways, ExclusiveAlways, VisitedBoundedAlways, FlushedAlways, PTL
        DEF Spec

-----------------------------------------------------------------------------
(* The end of a crawl *)

\* The stop reason is set when Start returns, not before.
ReasonLast == metrics.StopReason # "none" => pc = "done"

\* When Start has returned nothing of the crawl moves any more.
LEMMA DoneIsQuiet ==
    ASSUME BaseInv, IndexPhases, [Next]_vars, pc = "done"
    PROVE  UNCHANGED vars
<1>1. ~(StartStep \/ SelectStep) /\ ~Cancel
  BY DEF StartStep, SelectStep, Start, LoopExit, LoopLimit, LoopSelect, DedupSkip, DedupBreak,
     DedupMark, AppendNew, BeginEnqueue, EnqueueSend, EnqueueOverflow, EnqueueDone, DrainRecv,
     SaveQueue, SaveVisited, FinishFlush, FinishClear, CloseResults, Finish,
     LimitRecv, SendOverflow, RecvBatch, PersistTick, CtxDone, Cancel
<1>2. \A w \in Workers : wpc[w] = "exit"
  BY DEF BaseInv, Phases
<1>3. ASSUME NEW w \in Workers PROVE ~WorkerStep(w)
  BY <1>2 DEF WorkerStep, WorkerRecv, WorkerExit, WorkerGiveBack, WorkerFetch, WorkerResult, WorkerAnswer
<1>4. ~IndexerStep
  BY DEF IndexPhases, IndexerStep, IndexError, IndexPage, IndexTick, IndexClosed, IndexSave, IndexAppend
<1> QED BY <1>1, <1>3, <1>4 DEF Next, Terminated

\* The indexer does not touch the stop reason.
LEMMA IndexerKeepsReason ==
    ASSUME TypeOK, IndexerStep
    PROVE  metrics'.StopReason = metrics.StopReason
<1>1. metrics \in Metrics
  BY DEF TypeOK
<1>2. CASE IndexPage
  <2>1. \/ metrics' = [metrics EXCEPT !.IndexedDocs = @ + 1]
        \/ metrics' = [metrics EXCEPT !.IndexedDocs = @ + 1, !.PagesProcessed = @ + 1]
    BY <1>2 DEF IndexPage
  <2> QED BY <1>1, <2>1 DEF Metrics
<1>3. CASE ~IndexPage
  BY <1>1, <1>3 DEF IndexerStep, IndexError, IndexTick, IndexClosed, IndexSave, IndexAppend, Metrics
<1> QED BY <1>2, <1>3

\* Only Finish sets the stop reason, and it ends Start.
LEMMA ReasonLastAlways == Spec => []ReasonLast
<1>1. Init => ReasonLast
  BY DEF Init, ReasonLast, ZeroMetrics
<1>2. ASSUME BaseInv, Flushed, ReasonLast, [Next]_vars PROVE ReasonLast'
  <2>1. CASE Finish
    BY <2>1 DEF Finish, ReasonLast
  <2>2. CASE ~Finish
    <3>1. metrics'.StopReason = metrics.StopReason
      BY <1>2, <2>2, MetricsFrame, IndexerKeepsReason DEF BaseInv, CountInv
    <3>2. pc = "done" => pc' = "done"
      BY <1>2, DoneIsQuiet DEF Flushed, vars, coordVars
    <3> QED BY <1>2, <3>1, <3>2 DEF ReasonLast
  <2> QED BY <2>1, <2>2
<1> QED BY <1>1, <1>2, BaseAlways, FlushedAlways, PTL DEF Spec

\* Everything a crawl with distinct seeds can rely on.
CrawlInv ==
    /\ BaseInv /\ Admitted /\ Exclusive /\ Provenance /\ Processed /\ Flushed /\ VisitedBounded
    /\ NoTaskLost /\ ReasonLast

\* It holds in every state.
LEMMA CrawlInvAlways == ASSUME DistinctSeeds PROVE Spec => []CrawlInv
BY BaseAlways, AdmittedAlways, ExclusiveAlways, ProvenanceAlways, ProcessedAlways, FlushedAlways,
   VisitedBoundedAlways, NoTaskIsLost, ReasonLastAlways, PTL DEF CrawlInv

\* When the results channel is closed, the pages fetched are the pages counted,
\* and without a cancellation and below the limit they are the pages marked.
LEMMA ClosedBooks ==
    ASSUME CrawlInv, pc = "resultsClosed", ipc = "exit"
    PROVE  /\ metrics.PagesProcessed = Cardinality(FetchedUrls)
           /\ ~cancelled /\ ~urlLimitReached => visited = FetchedUrls
<1>1. flushFor = "none" /\ resultsCh = <<>> /\ \A w \in Workers : wpc[w] = "exit"
  BY DEF CrawlInv, Flushed, IndexPhases, BaseInv, Phases
<1>2. metrics.PagesProcessed = Cardinality(FetchedUrls)
  <2>1. Fetching = {} /\ Cardinality({}) = 0 /\ Len(resultsCh) = 0
    BY <1>1, FS_EmptySet DEF Fetching
  <2>2. metrics.PagesProcessed \in Nat
    BY DEF CrawlInv, BaseInv, CountInv, TypeOK, Metrics
  <2>3. metrics.PagesProcessed + Len(resultsCh) + Cardinality(Fetching)
          + (IF flushFor = "batch" THEN 1 ELSE 0) = Cardinality(FetchedUrls)
    BY DEF CrawlInv, Processed
  <2> QED BY <1>1, <2>1, <2>2, <2>3
<1>3. ASSUME ~cancelled, ~urlLimitReached PROVE visited = FetchedUrls
  <2>1. overflow = <<>> /\ newTasks = <<>>
    BY <1>3 DEF CrawlInv, BaseInv, Phases
  <2>2. taskCh = <<>>
    <3>1. inFlight = 0 /\ inFlight = Len(taskCh) + Cardinality(Busy) + Len(discoveredCh)
          /\ taskCh \in Seq(Task) /\ discoveredCh \in Seq(Seq(Task))
      BY DEF CrawlInv, BaseInv, CountInv, InFlightExact, ZeroAtEnd, EndPCs, TypeOK, ChanTypeOK
    <3>2. Len(taskCh) = 0
      BY <3>1, BusyNat
    <3> QED BY <3>1, <3>2, EmptySeq
  <2>3. Outstanding = {}
    BY <1>1, <2>1, <2>2, EmptyQueue DEF Outstanding
  <2>4. visited \subseteq URLs /\ FetchedUrls \subseteq visited
    BY DEF CrawlInv, BaseInv, CountInv, TypeOK, CoordTypeOK, Admitted
  <2> QED BY <1>3, <2>3, <2>4 DEF CrawlInv, NoTaskLost, FetchedUrls
<1> QED BY <1>2, <1>3

-----------------------------------------------------------------------------
(* The refinement *)

\* Every step of the crawl is a step of the worklist or changes nothing of it.
LEMMA WorklistStep == CrawlInv /\ [Next]_vars => [W!WNext]_(W!wvars)
<1> SUFFICES ASSUME CrawlInv, [Next]_vars PROVE [W!WNext]_(W!wvars)
  OBVIOUS
<1>1. TypeOK /\ BaseInv /\ Exclusive /\ IndexPhases
  BY DEF CrawlInv, BaseInv, CountInv, Flushed
<1>2. CASE pc = "done"
  <2>1. UNCHANGED vars
    BY <1>1, <1>2, DoneIsQuiet
  <2> QED BY <2>1 DEF vars, coordVars, workerVars, W!wvars
<1>3. ASSUME pc # "done" PROVE metrics.StopReason = "none"
  BY <1>3 DEF CrawlInv, ReasonLast
<1>4. ASSUME UNCHANGED <<visited, fetched, cancelled>>, metrics'.StopReason = metrics.StopReason
      PROVE  UNCHANGED W!wvars
  BY <1>4 DEF W!wvars
<1>5. ASSUME ~Finish PROVE metrics'.StopReason = metrics.StopReason
  BY <1>1, <1>5, MetricsFrame, IndexerKeepsReason
<1>6. CASE Start
  <2>1. visited = {} /\ visited' = SeedSet /\ UNCHANGED <<fetched, cancelled>> /\ pc # "done" /\ ~Finish
    BY <1>1, <1>6 DEF Start, Begin, BaseInv, Fresh, Finish
  <2>2. W!WBegin
    BY <1>5, <2>1 DEF W!WBegin
  <2> QED BY <1>3, <2>1, <2>2 DEF W!WNext
<1>7. CASE DedupMark
  <2> DEFINE x == Head(batch)
  <2>1. /\ batch # <<>> /\ ~(x.depth > MaxDepth) /\ x.url \notin visited /\ visited' = visited \cup {x.url}
        /\ pc = "dedup" /\ UNCHANGED <<fetched, cancelled>>
    BY <1>7 DEF DedupMark, Skipped, workerVars
  <2>2. batch \in Seq(Task)
    BY <1>1 DEF TypeOK, CoordTypeOK
  <2>3. x \in Range(batch) /\ x \in Task
    BY <2>1, <2>2, QueueTail
  <2>4. PICK p \in FetchedUrls : x.url \in Range(Links[p]) /\ x.depth = fetched[p][1] + 1
    BY <2>1, <2>3 DEF CrawlInv, Provenance, Found
  <2>5. p \in URLs /\ fetched[p] # <<>> /\ fetched[p] \in Seq(Nat) /\ x.url \in URLs /\ x.depth \in Nat
    BY <1>1, <2>3 DEF FetchedUrls, TypeOK, WorkerTypeOK, Task
  <2>6. fetched[p][1] \in Nat
    BY <2>5
  <2>7. fetched[p][1] < MaxDepth
    BY <2>1, <2>4, <2>5, <2>6, CrawlerAssumption
  <2>8. ~Finish
    BY <2>1 DEF Finish
  <2>9. W!Discover(p, x.url)
    <3>1. metrics'.StopReason = metrics.StopReason
      BY <1>5, <2>8
    <3>2. x.url \in Range(Links[p]) \ visited
      BY <2>1, <2>4
    <3> HIDE DEF x
    <3> QED BY <2>1, <2>5, <2>7, <3>1, <3>2 DEF W!Discover, W!Range, Range
  <2> QED BY <1>3, <2>1, <2>5, <2>9 DEF W!WNext
<1>8. CASE Finish
  <2>1. /\ pc = "resultsClosed" /\ ipc = "exit" /\ UNCHANGED <<visited, fetched, cancelled>>
        /\ metrics' = [metrics EXCEPT !.StopReason = StopReasonNow, !.CrawlDone = TRUE,
                                      !.ActiveWorkers = 0, !.QueueDepth = 0]
    BY <1>8 DEF Finish, workerVars
  <2>2. metrics'.StopReason = StopReasonNow
    BY <1>1, <2>1 DEF TypeOK, Metrics
  <2>3. /\ metrics.PagesProcessed = Cardinality(W!Done)
        /\ ~cancelled /\ ~urlLimitReached => visited = W!Done
    BY <2>1, ClosedBooks DEF FetchedUrls, W!Done
  <2>4. W!WFinish
    <3>1. metrics.StopReason = "none"
      BY <1>3, <2>1
    <3>2. CASE cancelled
      BY <2>1, <2>2, <3>1, <3>2 DEF W!WFinish, StopReasonNow
    <3>3. CASE ~cancelled /\ urlLimitReached
      <4>1. metrics'.StopReason = "url_limit"
        BY <2>2, <3>3 DEF StopReasonNow
      <4>2. MaxURLs > 0 /\ Cardinality(W!Done) >= MaxURLs
        BY <2>3, <3>3 DEF urlLimitReached
      <4>3. W!Cardinality(W!Done) = Cardinality(W!Done)
        BY DEF W!Cardinality, Cardinality
      <4> QED BY <2>1, <3>1, <4>1, <4>2, <4>3 DEF W!WFinish
    <3>4. CASE ~cancelled /\ ~urlLimitReached
      <4>1. metrics'.StopReason = "completed"
        BY <2>2, <3>4 DEF StopReasonNow
      <4>2. visited = W!Done
        BY <2>3, <3>4
      <4> QED BY <2>1, <3>1, <4>1, <4>2 DEF W!WFinish
    <3> QED BY <3>2, <3>3, <3>4
  <2> QED BY <2>4 DEF W!WNext
<1>9. CASE (StartStep \/ SelectStep) /\ ~Start /\ ~DedupMark /\ ~Finish
  <2>1. UNCHANGED <<visited, fetched, cancelled>>
    BY <1>1, <1>9, CoordMoves, CoordFrame
  <2> QED BY <1>4, <1>5, <1>9, <2>1
<1>10. ASSUME NEW w \in Workers, WorkerFetch(w) PROVE [W!WNext]_(W!wvars)
  <2> DEFINE u == wtask[w].url
             d == wtask[w].depth
  <2>1. /\ wtask[w] \in Task /\ u \in URLs /\ d \in Nat /\ wtask[w] \in Live /\ fetched[u] = <<>>
        /\ fetched' = [fetched EXCEPT ![u] = <<d>>]
    BY <1>1, <1>10, FetchMoves
  <2>2. UNCHANGED <<visited, cancelled, metrics>> /\ wpc[w] = "check"
    BY <1>10 DEF WorkerFetch, coordVars
  <2>3. u \in visited /\ d <= MaxDepth /\ Grounded(wtask[w])
    BY <2>1 DEF CrawlInv, Admitted, Provenance
  <2>4. d \in W!Depths(u)
    <3>1. CASE u \in SeedSet /\ d = 0
      BY <3>1 DEF W!Depths
    <3>2. CASE Found(wtask[w])
      <4>1. PICK p \in FetchedUrls : u \in Range(Links[p]) /\ d = fetched[p][1] + 1
        BY <3>2 DEF Found
      <4>2. p \in {q \in URLs : fetched[q] # <<>> /\ u \in Range(Links[q])}
        BY <4>1 DEF FetchedUrls
      <4> HIDE DEF u, d
      <4>3. d \in {fetched[q][1] + 1 : q \in {r \in URLs : fetched[r] # <<>> /\ u \in Range(Links[r])}}
        BY <4>1, <4>2
      <4> QED BY <4>3 DEF W!Depths, W!Range, Range
    <3> QED BY <2>3, <3>1, <3>2 DEF Grounded
  <2>5. W!Visit(u)
    BY <2>1, <2>2, <2>3, <2>4 DEF W!Visit
  <2>6. pc # "done"
    BY <1>1, <2>2 DEF BaseInv, Phases
  <2> QED BY <1>3, <2>1, <2>5, <2>6 DEF W!WNext
<1>11. ASSUME NEW w \in Workers, WorkerStep(w), ~WorkerFetch(w) PROVE [W!WNext]_(W!wvars)
  <2>1. UNCHANGED <<visited, fetched, cancelled, metrics>>
    BY <1>11, WorkerFrame DEF coordVars, WorkerStep, WorkerRecv, WorkerExit, WorkerGiveBack, WorkerResult, WorkerAnswer
  <2> QED BY <1>4, <2>1
<1>12. CASE IndexerStep
  <2>1. UNCHANGED <<visited, fetched, cancelled>>
    BY <1>12, IndexerFrame DEF coordVars, workerVars
  <2> QED BY <1>1, <1>4, <1>12, <2>1, IndexerKeepsReason
<1>13. CASE Cancel
  <2>1. pc # "done" /\ ~cancelled /\ cancelled' /\ UNCHANGED <<visited, fetched, metrics>> /\ cancelled' = TRUE
    BY <1>13 DEF Cancel, coordVars, workerVars
  <2>2. W!WCancel
    BY <2>1 DEF W!WCancel
  <2> QED BY <1>3, <2>1, <2>2 DEF W!WNext
<1>14. CASE UNCHANGED vars
  BY <1>4, <1>14 DEF vars, coordVars, workerVars
<1> QED BY <1>6, <1>7, <1>8, <1>9, <1>10, <1>11, <1>12, <1>13, <1>14 DEF Next, Terminated

\* For every web, any number of workers and every configuration with distinct
\* seeds, the crawl with its goroutines and channels implements the worklist.
THEOREM CrawlerImplementsWorklist == ASSUME DistinctSeeds PROVE Spec => ImplementsWorklist
<1>1. Init => W!WInit
  BY DEF Init, W!WInit, ZeroMetrics
<1> QED BY <1>1, CrawlInvAlways, WorklistStep, PTL DEF Spec, ImplementsWorklist, W!WSpec

=============================================================================
