--------------------------- MODULE SessionProofs ---------------------------
(***************************************************************************)
(* What holds over all crawls of a session, however often it is stopped,   *)
(* resumed and crashed.  A crawl's own steps are those of Crawler, so what *)
(* its proofs say of a step holds here; what is new is where a crawl       *)
(* begins and what a crash leaves.                                         *)
(***************************************************************************)
EXTENDS CrawlerEndProofs, CrawlSession

-----------------------------------------------------------------------------
(* A crawl of the session is a crawl *)

Statuses == {"running", "stopped", "completed"}
Rows == [status : Statuses, PagesProcessed : Nat, PagesQueued : Nat, IndexedDocs : Nat,
         PagesErrored : Nat]
Loads == [visited : SUBSET URLs, queue : Seq(Task), before : [URLs -> Nat]]

\* While a crawl runs its base invariant holds, which a crash breaks; only the
\* first crawl of the session goes through Start.
SessionInv ==
    /\ SessionTypeOK /\ runs # 0
    /\ proc = "run" => BaseInv
    /\ proc = "run" /\ pc = "start" => loaded = Started(SeedSet, SeedQueue)

\* A row takes its status and the counters of a Metrics.
LEMMA RowType ==
    ASSUME NEW s \in Statuses, NEW m, m.PagesProcessed \in Nat, m.PagesQueued \in Nat,
           m.IndexedDocs \in Nat, m.PagesErrored \in Nat
    PROVE  RowOf(s, m) \in Rows
BY DEF RowOf, Rows

\* The counters of a Metrics are numbers.
LEMMA CountersType ==
    ASSUME metrics \in Metrics
    PROVE  /\ metrics.PagesProcessed \in Nat /\ metrics.PagesQueued \in Nat
           /\ metrics.IndexedDocs \in Nat /\ metrics.PagesErrored \in Nat
BY DEF Metrics

\* A transaction leaves the new value or the old one.
LEMMA TxEither == \A new, old : \A x \in Tx(new, old) : x = new \/ x = old
BY DEF Tx

\* What a crawl starts from is recorded as it is.
LEMMA StartedType ==
    ASSUME TypeOK, NEW vis \in SUBSET URLs, NEW q \in Seq(Task)
    PROVE  /\ Started(vis, q) \in Loads
           /\ Started(vis, q).visited = vis /\ Started(vis, q).queue = q
           /\ \A u \in URLs : Started(vis, q).before[u] = Len(fetched[u])
<1>1. \A u \in URLs : Len(fetched[u]) \in Nat
  BY DEF TypeOK, WorkerTypeOK
<1> QED BY <1>1 DEF Started, Loads

\* The queue a resume enqueues is a queue of tasks, and its URLs are URLs.
LEMMA ResumeType ==
    ASSUME TypeOK
    PROVE  /\ ResumeQueue \in Seq(Task) /\ ResumeVisited \subseteq URLs
           /\ OriginTask \in Task /\ OriginTask.depth = 0
<1>1. Head(Seeds) \in URLs
  BY CrawlerAssumption, SessionAssumption
<1>2. OriginTask \in Task /\ OriginTask.depth = 0
  BY <1>1 DEF OriginTask, Task
<1>3. <<OriginTask>> \in Seq(Task)
  BY <1>2
<1> QED BY <1>1, <1>2, <1>3 DEF ResumeQueue, ResumeVisited, TypeOK, DbTypeOK

\* A step of the crawl inside a session is a step of Crawler.
LEMMA CrawlStepIsNext == CrawlStep => [Next]_vars
BY DEF CrawlStep, Next

\* The base invariant of a crawl is inductive.
LEMMA BaseStep == BaseInv /\ [Next]_vars => BaseInv'
<1> SUFFICES ASSUME BaseInv, [Next]_vars PROVE BaseInv'
  OBVIOUS
<1>1. CountInv' /\ ZeroAtEnd' /\ Fresh'
  BY CountStep, ZeroAtEndStep, FreshStep DEF BaseInv
<1>2. Phases'
  BY PhasesStep DEF BaseInv, CountInv
<1> QED BY <1>1, <1>2 DEF BaseInv

\* Only the beginning of a crawl makes it the first one.
LEMMA StartOnce == BaseInv /\ [Next]_vars /\ pc' = "start" => pc = "start"
<1> SUFFICES ASSUME BaseInv, [Next]_vars, pc' = "start", pc # "start" PROVE FALSE
  OBVIOUS
<1>1. CASE StartStep \/ SelectStep
  BY <1>1 DEF StartStep, SelectStep, Start, Begin, LoopExit, LoopLimit, LoopSelect, DedupSkip, DedupBreak,
     DedupMark, AppendNew, BeginEnqueue, EnqueueSend, EnqueueOverflow, EnqueueDone, DrainRecv,
     SaveQueue, SaveVisited, FinishFlush, FinishClear, CloseResults, Finish,
     LimitRecv, SendOverflow, RecvBatch, PersistTick, CtxDone
<1>2. CASE (\E w \in Workers : WorkerStep(w)) \/ IndexerStep \/ Cancel \/ UNCHANGED vars
  BY <1>2, WorkerFrame, IndexerFrame DEF Cancel, vars, coordVars
<1> QED BY <1>1, <1>2 DEF Next, Terminated

\* A resumed crawl begins as a crawl.
LEMMA ResumeBase == ASSUME SessionInv, ResumeCrawlByID PROVE BaseInv' /\ pc' = "top"
<1>1. TypeOK /\ ResumeQueue \in Seq(Task) /\ ResumeVisited \in SUBSET URLs
  BY ResumeType DEF SessionInv, SessionTypeOK
<1>2. /\ Begin(ResumeVisited, ResumeQueue) /\ metrics' = ResumeMetrics /\ cancelled' = FALSE
      /\ UNCHANGED <<index, dbPostings, pdata, dbVars, fetched>>
  BY DEF ResumeCrawlByID
<1>3. /\ CoordTypeOK' /\ ChanTypeOK' /\ wpc' \in [Workers -> WorkerPCs]
      /\ wtask' \in [Workers -> Task \cup {NoTask}]
      /\ ipc' = "select" /\ flushFor' = "none" /\ pending' \in Seq(URLs)
      /\ inFlight' = Len(taskCh') /\ discoveredCh' = <<>>
  BY <1>1, <1>2, BeginType
<1>4. /\ pc' = "top" /\ batch' = <<>> /\ newTasks' = <<>> /\ wpc' = [w \in Workers |-> "recv"]
  BY <1>2 DEF Begin
<1>5. metrics' \in Metrics
  <2>1. /\ row.PagesProcessed \in Nat /\ row.IndexedDocs \in Nat /\ row.PagesErrored \in Nat
        /\ row.PagesQueued \in Nat /\ Len(ResumeQueue) \in Nat /\ NumWorkers \in Nat
    BY <1>1, NumWorkersType DEF SessionInv, SessionTypeOK
  <2>2. row.PagesQueued + Len(ResumeQueue) \in Nat
    BY <2>1
  <2> QED BY <1>2, <2>1, <2>2 DEF ResumeMetrics, ZeroMetrics, Metrics
<1>6. TypeOK'
  <2>1. WorkerTypeOK' /\ IndexTypeOK' /\ DbTypeOK'
    BY <1>1, <1>2, <1>3 DEF TypeOK, WorkerTypeOK, IndexTypeOK, DbTypeOK, dbVars
  <2> QED BY <1>2, <1>3, <1>5, <2>1 DEF TypeOK
<1>7. Busy' = {}
  BY <1>4 DEF Busy
<1>8. InFlightExact' /\ HeldTasks' /\ OverflowAtSelect'
  <2>1. Cardinality(Busy') = 0 /\ Len(discoveredCh') = 0 /\ inFlight' \in Nat
    BY <1>3, <1>7, FS_EmptySet DEF CoordTypeOK
  <2> QED BY <1>3, <1>4, <1>7, <2>1 DEF InFlightExact, HeldTasks, OverflowAtSelect
<1>9. ZeroAtEnd' /\ Fresh' /\ Phases'
  BY <1>4 DEF ZeroAtEnd, EndPCs, Fresh, Phases
<1> QED BY <1>4, <1>6, <1>8, <1>9 DEF BaseInv, CountInv

\* Types of a session that has a crawl.
LEMMA SessionTypeFrame ==
    ASSUME SessionInv, TypeOK', proc' \in {"run", "none"}, row' \in Rows, runs' \in Nat,
           crashes' \in Nat, loaded' \in Loads, dropped' \in SUBSET URLs
    PROVE  SessionTypeOK'
BY DEF SessionTypeOK, Rows, Statuses, Loads

\* The variables of a session have their types.
LEMMA SessionTypes ==
    ASSUME SessionInv
    PROVE  /\ TypeOK /\ proc \in {"run", "none"} /\ row \in Rows /\ row.status \in Statuses
           /\ runs \in Nat \ {0} /\ crashes \in Nat /\ loaded \in Loads /\ dropped \in SUBSET URLs
           /\ metrics \in Metrics
BY DEF SessionInv, SessionTypeOK, Rows, Statuses, Loads, TypeOK

\* StartCrawl makes the first crawl.
LEMMA SessionInvInit == SessionInit => SessionInv
<1> SUFFICES ASSUME SessionInit PROVE SessionInv
  OBVIOUS
<1>1. Init /\ proc = "run" /\ row = RowOf("running", ZeroMetrics) /\ runs = 1 /\ crashes = 0
      /\ loaded = Started(SeedSet, SeedQueue) /\ dropped = {}
  BY DEF SessionInit
<1>2. BaseInv /\ TypeOK
  <2>1. CountInv
    BY <1>1, CountInit
  <2> QED BY <1>1, <2>1 DEF Init, BaseInv, CountInv, ZeroAtEnd, EndPCs, Fresh, Phases
<1>3. row \in Rows
  BY <1>1, RowType DEF ZeroMetrics, Statuses
<1>4. loaded \in Loads
  <2>1. SeedSet \in SUBSET URLs /\ SeedQueue \in Seq(Task)
    BY SeedQueueType, CrawlerAssumption DEF SeedSet, Range
  <2> QED BY <1>1, <1>2, <2>1, StartedType
<1> QED BY <1>1, <1>2, <1>3, <1>4 DEF SessionInv, SessionTypeOK, Rows, Statuses, Loads

\* What a crash leaves has its types, the counter of tasks in flight included.
LEMMA CrashType ==
    ASSUME SessionInv, Crash
    PROVE  TypeOK' /\ row' \in Rows
<1>1. TypeOK /\ row \in Rows /\ row.status \in Statuses /\ metrics \in Metrics
  BY SessionTypes
<1>2. CoordTypeOK'
  BY EmptySeq DEF Crash, CoordTypeOK, StartPCs
<1>3. ChanTypeOK'
  BY EmptySeq DEF Crash, ChanTypeOK
<1>4. WorkerTypeOK'
  BY <1>1 DEF Crash, WorkerTypeOK, TypeOK, WorkerPCs
<1>5. IndexTypeOK'
  BY <1>1, EmptySeq DEF Crash, IndexTypeOK, TypeOK
<1>6. DbTypeOK'
  BY <1>1 DEF Crash, DbTypeOK, TypeOK, dbVars
<1>7. metrics' \in Metrics /\ cancelled' \in BOOLEAN
  BY DEF Crash, ZeroMetrics, Metrics
<1>8. row' \in Rows
  BY <1>1, CountersType, RowType DEF Crash
<1> QED BY <1>2, <1>3, <1>4, <1>5, <1>6, <1>7, <1>8 DEF TypeOK

\* Every step of a session keeps the invariant.
LEMMA SessionInvStep == SessionInv /\ [SessionNext]_allVars => SessionInv'
<1> SUFFICES ASSUME SessionInv, [SessionNext]_allVars PROVE SessionInv'
  OBVIOUS
<1> USE SessionTypes
<1>1. CASE CrawlStep
  <2>1. BaseInv /\ proc = "run" /\ UNCHANGED <<proc, row, runs, crashes, loaded>> /\ [Next]_vars
    BY <1>1, CrawlStepIsNext DEF CrawlStep, SessionInv
  <2>2. BaseInv' /\ TypeOK' /\ (pc' = "start" => pc = "start")
    BY <2>1, BaseStep, StartOnce DEF BaseInv, CountInv
  <2>3. dropped' \in SUBSET URLs
    BY <1>1 DEF CrawlStep, Skipping, TypeOK, CoordTypeOK
  <2>4. SessionTypeOK'
    BY <2>1, <2>2, <2>3, SessionTypeFrame
  <2>5. pc' = "start" => pc = "start" /\ UNCHANGED fetched
    <3>1. pc = "start" => fetched = [u \in URLs |-> <<>>]
      BY <2>1 DEF BaseInv, Fresh
    <3>2. pc' = "start" => fetched' = [u \in URLs |-> <<>>]
      BY <2>2 DEF BaseInv, Fresh
    <3> QED BY <2>2, <3>1, <3>2
  <2>6. pc' = "start" => loaded' = Started(SeedSet, SeedQueue)'
    BY <2>1, <2>5 DEF SessionInv, Started
  <2> QED BY <2>1, <2>2, <2>4, <2>6 DEF SessionInv
<1>2. CASE FinishSession
  <2>1. proc' = "none" /\ UNCHANGED <<vars, runs, crashes, loaded, dropped>>
    BY <1>2 DEF FinishSession
  <2>2. row' \in Rows
    BY <1>2, TxEither, RowType, CountersType DEF FinishSession, Statuses
  <2>3. TypeOK'
    BY <2>1 DEF vars, coordVars, chanVars, workerVars, indexVars, dbVars, TypeOK, CoordTypeOK,
       ChanTypeOK, WorkerTypeOK, IndexTypeOK, DbTypeOK
  <2> QED BY <2>1, <2>2, <2>3, SessionTypeFrame DEF SessionInv
<1>3. CASE MarkStopped
  <2>1. proc = "none" /\ UNCHANGED <<vars, proc, runs, crashes, loaded, dropped>>
    BY <1>3 DEF MarkStopped
  <2>2. row' \in Rows
    <3>1. [row EXCEPT !.status = "stopped"] \in Rows
      BY DEF Rows, Statuses
    <3> QED BY <1>3, <3>1, TxEither DEF MarkStopped
  <2>3. TypeOK'
    BY <2>1 DEF vars, coordVars, chanVars, workerVars, indexVars, dbVars, TypeOK, CoordTypeOK,
       ChanTypeOK, WorkerTypeOK, IndexTypeOK, DbTypeOK
  <2> QED BY <2>1, <2>2, <2>3, SessionTypeFrame DEF SessionInv
<1>4. CASE ResumeCrawlByID
  <2>1. BaseInv' /\ TypeOK' /\ pc' = "top"
    BY <1>4, ResumeBase DEF BaseInv, CountInv
  <2>2. proc' = "run" /\ runs' = runs + 1 /\ UNCHANGED <<crashes, dropped>>
    BY <1>4 DEF ResumeCrawlByID
  <2>3. row' \in Rows
    <3>1. [row EXCEPT !.status = "running"] \in Rows
      BY DEF Rows, Statuses
    <3> QED BY <1>4, <3>1, TxEither DEF ResumeCrawlByID
  <2>4. loaded' \in Loads
    <3>1. loaded' = Started(ResumeVisited, ResumeQueue)
      BY <1>4 DEF ResumeCrawlByID
    <3> QED BY <3>1, ResumeType, StartedType
  <2>5. runs' \in Nat /\ runs' # 0
    BY <2>2
  <2> QED BY <2>1, <2>2, <2>3, <2>4, <2>5, SessionTypeFrame DEF SessionInv
<1>5. CASE Crash
  <2>1. TypeOK' /\ row' \in Rows
    BY <1>5, CrashType
  <2>2. proc' = "none" /\ crashes' = crashes + 1 /\ UNCHANGED <<runs, loaded, dropped>>
    BY <1>5 DEF Crash
  <2>3. crashes' \in Nat
    BY <2>2
  <2> QED BY <2>1, <2>2, <2>3, SessionTypeFrame DEF SessionInv
<1>6. CASE SessionOver \/ UNCHANGED allVars
  <2>1. UNCHANGED <<vars, proc, row, runs, crashes, loaded, dropped>>
    BY <1>6 DEF SessionOver, allVars, sessionVars
  <2>2. TypeOK' /\ (BaseInv => BaseInv')
    <3>1. TypeOK'
      BY <2>1 DEF vars, coordVars, chanVars, workerVars, indexVars, dbVars, TypeOK, CoordTypeOK,
         ChanTypeOK, WorkerTypeOK, IndexTypeOK, DbTypeOK
    <3> QED BY <2>1, <3>1, BaseStep
  <2>3. SessionTypeOK'
    BY <2>1, <2>2, SessionTypeFrame
  <2>4. pc' = pc /\ Started(SeedSet, SeedQueue)' = Started(SeedSet, SeedQueue)
    BY <2>1 DEF vars, coordVars, workerVars, Started
  <2> QED BY <2>1, <2>2, <2>3, <2>4 DEF SessionInv
<1> QED BY <1>1, <1>2, <1>3, <1>4, <1>5, <1>6 DEF SessionNext

\* The invariant holds over all crawls of a session.
LEMMA SessionInvAlways == SessionSpec => []SessionInv
BY SessionInvInit, SessionInvStep, PTL DEF SessionSpec

\* However a session is stopped, crashed and resumed, every variable keeps its
\* type; in particular a resumed crawl counts its tasks in flight from the
\* start as exactly as a fresh one.
THEOREM SessionTypeCorrect == SessionSpec => []SessionTypeOK
<1>1. SessionInv => SessionTypeOK
  BY DEF SessionInv
<1> QED BY <1>1, SessionInvAlways, PTL

-----------------------------------------------------------------------------
(* How deep a session goes *)

\* The depth of the deepest page that the present crawl may fetch.
Reach == MaxDepth + (runs - 1)

\* Tasks on their way to a worker are within reach; answers, what a drain
\* collects and what is saved may be one level deeper.
TaskDepths ==
    /\ \A x \in Live : x.depth <= Reach
    /\ \A x \in Range(batch) \cup Answered : x.depth <= Reach + 1
    /\ pc = "drain" => \A x \in Range(overflow) : x.depth <= Reach + 1

SavedDepths == \A x \in Range(dbQueue) : x.depth <= Reach + 1

DepthsInv == DepthCreep /\ SavedDepths /\ (proc = "run" => TaskDepths)

\* Reach is a number, at least MaxDepth.
LEMMA ReachType == ASSUME SessionInv PROVE Reach \in Nat /\ MaxDepth <= Reach
<1>1. runs \in Nat /\ runs # 0 /\ MaxDepth \in Nat
  BY CrawlerAssumption DEF SessionInv, SessionTypeOK
<1> QED BY <1>1 DEF Reach

\* Only tasks within MaxDepth join those on their way.
LEMMA LiveDepths ==
    ASSUME SessionInv, BaseInv, TaskDepths, [Next]_vars, UNCHANGED runs, NEW CONSTANT x, x \in Live'
    PROVE  x.depth <= Reach
<1>1. Reach \in Nat /\ MaxDepth \in Nat /\ MaxDepth <= Reach
  BY ReachType, CrawlerAssumption
<1>2. CASE x \in Live
  BY <1>2 DEF TaskDepths
<1>3. CASE Start
  BY <1>1, <1>3, StartMoves, SeedQueueUrls
<1>4. CASE (StartStep \/ SelectStep) /\ ~Start
  <2>1. CASE DedupMark /\ x = Head(batch)
    <3>1. batch \in Seq(Task) /\ batch # <<>> /\ ~(Head(batch).depth > MaxDepth)
      BY <2>1 DEF DedupMark, Skipped, BaseInv, CountInv, TypeOK, CoordTypeOK
    <3>2. x.depth \in Nat
      <4>1. Head(batch) \in Task
        BY <3>1
      <4> QED BY <2>1, <4>1 DEF Task
    <3> HIDE DEF Reach
    <3> QED BY <1>1, <2>1, <3>1, <3>2
  <2> QED BY <1>2, <1>4, <2>1, CoordMoves
<1>5. ASSUME NEW w \in Workers, WorkerStep(w) PROVE x \in Live
  <2>1. UNCHANGED <<pc, overflow, newTasks>>
    BY <1>5, WorkerFrame DEF coordVars
  <2> QED BY <1>5, <2>1, WorkerMoves DEF BaseInv, Live, Waiting
<1>6. CASE IndexerStep \/ Cancel \/ UNCHANGED vars
  <2>1. UNCHANGED <<pc, taskCh, wpc, wtask, overflow, newTasks>>
    BY <1>6, IndexerFrame DEF Cancel, vars, coordVars, chanVars, workerVars
  <2> QED BY <1>2, <2>1, HandedFrame DEF Live, Waiting
<1> QED BY <1>2, <1>3, <1>4, <1>5, <1>6 DEF Next, Terminated

\* What a worker answers is a task it held, or links one level below it.
LEMMA AnswerDepths ==
    ASSUME SessionInv, BaseInv, TaskDepths, NEW w \in Busy, NEW x \in Range(Answer(w))
    PROVE  x.depth <= Reach + 1
<1>1. Reach \in Nat
  BY ReachType
<1>2. wtask[w] \in Task /\ wtask[w].depth \in Nat /\ wtask[w].depth <= Reach
  BY DEF BaseInv, CountInv, HeldTasks, Task, TaskDepths, Live, Sent
<1>3. CASE wpc[w] = "return"
  <2>1. x = wtask[w]
    BY <1>3 DEF Answer, Range
  <2> HIDE DEF Reach
  <2> QED BY <1>1, <1>2, <2>1
<1>4. CASE wpc[w] = "found"
  <2>1. PICK i \in DOMAIN Links[wtask[w].url] :
              x = [url |-> Links[wtask[w].url][i], depth |-> wtask[w].depth + 1]
    BY <1>4 DEF Answer, LinkTasks, Range
  <2> HIDE DEF Reach
  <2> QED BY <1>1, <1>2, <2>1
<1>5. CASE wpc[w] \notin {"return", "found"}
  BY <1>5, EmptyQueue DEF Answer
<1> QED BY <1>3, <1>4, <1>5

\* Answers stay at most one level out of reach on their way.
LEMMA AnswersDepths ==
    ASSUME SessionInv, BaseInv, TaskDepths, [Next]_vars, NEW CONSTANT x, x \in Range(batch') \cup Answered'
    PROVE  x.depth <= Reach + 1
<1>1. \A y \in Range(batch) \cup Answered : y.depth <= Reach + 1
  BY DEF TaskDepths
<1>2. discoveredCh \in Seq(Seq(Task)) /\ batch \in Seq(Task) /\ CountInv
  BY DEF BaseInv, CountInv, TypeOK, ChanTypeOK, CoordTypeOK
<1> HIDE DEF Reach
<1>3. CASE Range(batch') \cup Answered' \subseteq Range(batch) \cup Answered
  BY <1>1, <1>3
<1>4. CASE Start
  <2>1. batch' = <<>> /\ discoveredCh' = <<>>
    BY <1>4 DEF Start, Begin
  <2> QED BY <2>1, EmptyQueue DEF Answered
<1>5. CASE LimitRecv \/ RecvBatch \/ DrainRecv
  <2>1. /\ discoveredCh # <<>> /\ discoveredCh' = Tail(discoveredCh)
        /\ batch' = batch \/ batch' = Head(discoveredCh)
    BY <1>5 DEF LimitRecv, RecvBatch, DrainRecv
  <2>2. Answered = Answered' \cup Range(Head(discoveredCh))
    BY <1>2, <2>1, AnsweredTail
  <2> QED BY <1>3, <2>1, <2>2
<1>6. CASE DedupSkip \/ DedupBreak \/ DedupMark
  <2>1. discoveredCh' = discoveredCh /\ batch # <<>> /\ (batch' = Tail(batch) \/ batch' = <<>>)
    BY <1>6 DEF DedupSkip, DedupBreak, DedupMark, chanVars
  <2>2. Range(batch') \subseteq Range(batch)
    <3>1. Range(Tail(batch)) \subseteq Range(batch) /\ Range(<<>>) \subseteq Range(batch)
      BY <1>2, <2>1, QueueTail, EmptyQueue
    <3> QED BY <2>1, <3>1
  <2>3. Answered' = Answered
    BY <2>1 DEF Answered
  <2> QED BY <1>3, <2>2, <2>3
<1>7. ASSUME NEW w \in Workers, WorkerAnswer(w) PROVE x.depth <= Reach + 1
  <2>1. /\ w \in Busy /\ discoveredCh' = Append(discoveredCh, Answer(w)) /\ batch' = batch
    BY <1>7 DEF WorkerAnswer, Busy, coordVars
  <2>2. Answered' = Answered \cup Range(Answer(w))
    BY <1>2, <2>1, AnswerType, AnsweredAppend
  <2> QED BY <1>1, <2>1, <2>2, AnswerDepths
<1>8. CASE UNCHANGED <<batch, discoveredCh>>
  BY <1>3, <1>8 DEF Answered
<1>9. CASE \E w \in Workers : WorkerStep(w) /\ ~WorkerAnswer(w)
  BY <1>8, <1>9 DEF WorkerStep, WorkerRecv, WorkerExit, WorkerGiveBack, WorkerFetch, WorkerResult, coordVars, chanVars
<1>10. CASE IndexerStep \/ Cancel \/ UNCHANGED vars
  BY <1>8, <1>10, IndexerFrame DEF Cancel, vars, coordVars, chanVars
<1>11. CASE \/ LoopExit \/ LoopLimit \/ LoopSelect \/ CtxDone \/ BeginEnqueue \/ SendOverflow \/ AppendNew
            \/ EnqueueDone \/ EnqueueSend \/ EnqueueOverflow \/ SaveQueue \/ SaveVisited \/ FinishFlush
            \/ FinishClear \/ CloseResults \/ Finish \/ PersistTick
  BY <1>8, <1>11 DEF LoopExit, LoopLimit, LoopSelect, CtxDone, BeginEnqueue, SendOverflow, AppendNew,
     EnqueueDone, EnqueueSend, EnqueueOverflow, SaveQueue, SaveVisited, FinishFlush, FinishClear,
     CloseResults, Finish, PersistTick, chanVars
<1> QED BY <1>4, <1>5, <1>6, <1>7, <1>9, <1>10, <1>11 DEF Next, Terminated, StartStep, SelectStep

\* What a drain has collected is at most one level out of reach.
LEMMA DrainDepths ==
    ASSUME SessionInv, BaseInv, TaskDepths, [Next]_vars, pc' = "drain", NEW CONSTANT x, x \in Range(overflow')
    PROVE  x.depth <= Reach + 1
<1>1. Reach \in Nat /\ overflow \in Seq(Task) /\ discoveredCh \in Seq(Seq(Task))
  BY ReachType DEF BaseInv, CountInv, TypeOK, CoordTypeOK, ChanTypeOK
<1>2. CASE CtxDone
  <2>1. x \in Live
    BY <1>2 DEF CtxDone, Live, Waiting, LoopPCs
  <2>2. x \in Task /\ x.depth \in Nat /\ x.depth <= Reach
    <3>1. x \in Range(overflow)
      BY <1>2 DEF CtxDone
    <3>2. x \in Task
      BY <1>1, <3>1 DEF Range
    <3> QED BY <2>1, <3>2 DEF TaskDepths, Task
  <2> HIDE DEF Reach
  <2> QED BY <1>1, <2>2
<1>3. CASE DrainRecv
  <2>1. /\ discoveredCh # <<>> /\ overflow' = overflow \o Head(discoveredCh) /\ pc = "drain"
        /\ discoveredCh' = Tail(discoveredCh)
    BY <1>3 DEF DrainRecv
  <2>2. Head(discoveredCh) \in Seq(Task)
    BY <1>1, <2>1
  <2>3. Range(overflow') = Range(overflow) \cup Range(Head(discoveredCh))
    BY <1>1, <2>1, <2>2, QueueConcat
  <2>4. Range(Head(discoveredCh)) \subseteq Answered
    BY <1>1, <2>1, AnsweredTail
  <2> HIDE DEF Reach
  <2> QED BY <2>1, <2>3, <2>4 DEF TaskDepths
<1>4. CASE pc = "drain" /\ UNCHANGED overflow
  BY <1>4 DEF TaskDepths
<1>5. CASE (\E w \in Workers : WorkerStep(w)) \/ IndexerStep \/ Cancel \/ UNCHANGED vars
  BY <1>4, <1>5, WorkerFrame, IndexerFrame DEF Cancel, vars, coordVars
<1>6. CASE (StartStep \/ SelectStep) /\ ~CtxDone /\ ~DrainRecv
  BY <1>6 DEF StartStep, SelectStep, Start, Begin, LoopExit, LoopLimit, LoopSelect, DedupSkip, DedupBreak,
     DedupMark, AppendNew, BeginEnqueue, EnqueueSend, EnqueueOverflow, EnqueueDone,
     SaveQueue, SaveVisited, FinishFlush, FinishClear, CloseResults, Finish,
     LimitRecv, SendOverflow, RecvBatch, PersistTick
<1> QED BY <1>2, <1>3, <1>5, <1>6 DEF Next, Terminated

\* The saved queue is what it was, or what the drain has collected, or empty.
LEMMA SavedDepthsStep ==
    ASSUME SessionInv, BaseInv, TaskDepths, SavedDepths, [Next]_vars, UNCHANGED runs
    PROVE  SavedDepths'
<1>1. CASE SaveQueue
  <2>1. pc = "drain" /\ (dbQueue' = overflow \/ dbQueue' = dbQueue)
    BY <1>1, TxEither DEF SaveQueue, SaveSessionQueuedTasks
  <2> QED BY <2>1 DEF TaskDepths, SavedDepths, Reach
<1>2. CASE FinishClear
  <2>1. dbQueue' = <<>> \/ dbQueue' = dbQueue
    BY <1>2, TxEither DEF FinishClear, SaveSessionQueuedTasks
  <2> QED BY <2>1, EmptyQueue DEF SavedDepths, Reach
<1>3. CASE UNCHANGED dbQueue
  BY <1>3 DEF SavedDepths, Reach
<1>4. CASE (\E w \in Workers : WorkerStep(w)) \/ IndexerStep \/ Cancel \/ UNCHANGED vars
  BY <1>3, <1>4, WorkerFrame, IndexerFrame DEF Cancel, vars, dbVars
<1>5. CASE (StartStep \/ SelectStep) /\ ~SaveQueue /\ ~FinishClear
  BY <1>3, <1>5 DEF StartStep, SelectStep, Start, LoopExit, LoopLimit, LoopSelect, DedupSkip, DedupBreak,
     DedupMark, AppendNew, BeginEnqueue, EnqueueSend, EnqueueOverflow, EnqueueDone, DrainRecv,
     SaveVisited, FinishFlush, CloseResults, Finish, LimitRecv, SendOverflow, RecvBatch, PersistTick,
     CtxDone, dbVars
<1> QED BY <1>1, <1>2, <1>4, <1>5 DEF Next, Terminated

\* A fetch is of a task on its way.
LEMMA FetchDepths ==
    ASSUME SessionInv, BaseInv, TaskDepths, DepthCreep, [Next]_vars, UNCHANGED runs
    PROVE  DepthCreep'
<1>1. fetched \in [URLs -> Seq(Nat)] /\ Reach \in Nat
  BY ReachType DEF BaseInv, CountInv, TypeOK, WorkerTypeOK
<1>2. CASE UNCHANGED fetched
  BY <1>2 DEF DepthCreep
<1>3. ASSUME NEW w \in Workers, WorkerFetch(w) PROVE DepthCreep'
  <2> DEFINE u == wtask[w].url
             d == wtask[w].depth
  <2>1. wpc[w] = "check" /\ fetched' = [fetched EXCEPT ![u] = Append(@, d)]
    BY <1>3 DEF WorkerFetch
  <2>2. w \in Busy /\ wtask[w] \in Task
    BY <2>1 DEF Busy, BaseInv, CountInv, HeldTasks
  <2>3. u \in URLs /\ d \in Nat /\ d <= Reach
    BY <2>2 DEF Task, TaskDepths, Live, Sent
  <2> HIDE DEF u, d
  <2>4. \A v \in URLs : v # u => fetched'[v] = fetched[v]
    BY <1>1, <2>1, <2>3
  <2>5. fetched'[u] = Append(fetched[u], d) /\ fetched[u] \in Seq(Nat)
    BY <1>1, <2>1, <2>3
  <2>6. \A i \in DOMAIN fetched'[u] : fetched'[u][i] = d \/ (i \in DOMAIN fetched[u] /\ fetched'[u][i] = fetched[u][i])
    BY <2>3, <2>5, AppendProperties
  <2> QED BY <2>3, <2>4, <2>6 DEF DepthCreep, Reach
<1>4. CASE StartStep \/ SelectStep \/ IndexerStep \/ Cancel \/ UNCHANGED vars
  BY <1>2, <1>4, CoordFrame, IndexerFrame DEF Cancel, vars, workerVars
<1>5. ASSUME NEW w \in Workers, WorkerStep(w), ~WorkerFetch(w) PROVE UNCHANGED fetched
  BY <1>5 DEF WorkerStep, WorkerRecv, WorkerExit, WorkerGiveBack, WorkerResult, WorkerAnswer
<1> QED BY <1>2, <1>3, <1>4, <1>5 DEF Next, Terminated

\* Every step of a session keeps its depths.
LEMMA DepthsStep == SessionInv /\ DepthsInv /\ [SessionNext]_allVars => DepthsInv'
<1> SUFFICES ASSUME SessionInv, DepthsInv, [SessionNext]_allVars PROVE DepthsInv'
  OBVIOUS
<1>1. CASE CrawlStep
  <2>1. BaseInv /\ TaskDepths /\ proc = "run" /\ UNCHANGED <<proc, runs>> /\ [Next]_vars
    BY <1>1, CrawlStepIsNext DEF CrawlStep, SessionInv, DepthsInv
  <2>2. DepthCreep' /\ SavedDepths'
    BY <2>1, FetchDepths, SavedDepthsStep DEF DepthsInv
  <2>3. Reach' = Reach
    BY <2>1 DEF Reach
  <2>4. \A x \in Live' : x.depth <= Reach
    BY <2>1, LiveDepths
  <2>5. \A x \in Range(batch') \cup Answered' : x.depth <= Reach + 1
    BY <2>1, AnswersDepths
  <2>6. pc' = "drain" => \A x \in Range(overflow') : x.depth <= Reach + 1
    BY <2>1, DrainDepths
  <2> QED BY <2>2, <2>3, <2>4, <2>5, <2>6 DEF DepthsInv, TaskDepths
<1>2. CASE FinishSession \/ MarkStopped \/ SessionOver \/ UNCHANGED allVars
  <2>1. UNCHANGED <<vars, runs>> /\ (proc' = "run" => proc = "run")
    BY <1>2 DEF FinishSession, MarkStopped, SessionOver, allVars, sessionVars
  <2>2. UNCHANGED <<coordVars, taskCh, discoveredCh, wpc, wtask, fetched, dbQueue, runs>>
    BY <2>1 DEF vars, chanVars, workerVars, dbVars
  <2>3. DepthCreep' /\ SavedDepths' /\ Reach' = Reach
    BY <2>2 DEF DepthsInv, DepthCreep, SavedDepths, Reach
  <2>4. Live' = Live /\ Answered' = Answered
    BY <2>2, HandedFrame DEF Live, Waiting, Answered, coordVars
  <2>5. TaskDepths => TaskDepths'
    BY <2>2, <2>3, <2>4 DEF TaskDepths, coordVars
  <2> QED BY <2>1, <2>3, <2>5 DEF DepthsInv
<1>3. CASE ResumeCrawlByID
  <2>1. /\ Begin(ResumeVisited, ResumeQueue) /\ runs' = runs + 1 /\ UNCHANGED <<dbVars, fetched>>
    BY <1>3 DEF ResumeCrawlByID
  <2>2. TypeOK /\ runs \in Nat /\ runs # 0 /\ Reach \in Nat
    BY ReachType, SessionTypes
  <2>3. Reach' = Reach + 1
    BY <2>1, <2>2, CrawlerAssumption DEF Reach
  <2>4. DepthCreep'
    <3> SUFFICES ASSUME NEW u \in URLs, NEW i \in DOMAIN fetched'[u] PROVE fetched'[u][i] <= Reach'
      BY DEF DepthCreep, Reach
    <3>1. fetched' = fetched /\ fetched[u][i] <= Reach
      BY <2>1 DEF DepthsInv, DepthCreep, Reach
    <3>2. fetched[u][i] \in Nat
      BY <2>2, <3>1 DEF TypeOK, WorkerTypeOK
    <3> HIDE DEF Reach
    <3> QED BY <2>2, <2>3, <3>1, <3>2
  <2>5. ResumeQueue \in Seq(Task) /\ \A x \in Range(ResumeQueue) : x.depth <= Reach'
    <3>1. ResumeQueue \in Seq(Task) /\ OriginTask.depth = 0
      BY <2>2, ResumeType
    <3>2. CASE ResumeQueue = <<OriginTask>>
      <4>1. \A x \in Range(<<OriginTask>>) : x = OriginTask
        BY DEF Range
      <4>2. 0 <= Reach'
        BY <2>2, <2>3
      <4> QED BY <3>1, <3>2, <4>1, <4>2
    <3>3. CASE ResumeQueue = dbQueue
      BY <2>3, <3>1, <3>3 DEF DepthsInv, SavedDepths
    <3> QED BY <3>1, <3>2, <3>3 DEF ResumeQueue
  <2>6. SavedDepths'
    <3>1. dbQueue' = dbQueue /\ \A x \in Range(dbQueue) : x \in Task /\ x.depth \in Nat /\ x.depth <= Reach + 1
      <4>1. dbQueue' = dbQueue /\ dbQueue \in Seq(Task) /\ SavedDepths
        BY <2>1, <2>2 DEF dbVars, DepthsInv, TypeOK, DbTypeOK
      <4>2. \A x \in Range(dbQueue) : x \in Task
        BY <4>1 DEF Range
      <4>3. \A x \in Task : x.depth \in Nat
        BY DEF Task
      <4> QED BY <4>1, <4>2, <4>3 DEF SavedDepths
    <3>2. SavedDepths' <=> \A x \in Range(dbQueue') : x.depth <= Reach' + 1
      BY DEF SavedDepths
    <3> HIDE DEF Reach
    <3> QED BY <2>2, <2>3, <3>1, <3>2
  <2>7. TaskDepths'
    <3> DEFINE e == IF Len(ResumeQueue) < QueueSize THEN Len(ResumeQueue) ELSE QueueSize
    <3>1. e \in 0..Len(ResumeQueue)
      BY <2>5, CrawlerAssumption
    <3>2. /\ taskCh' = SubSeq(ResumeQueue, 1, e) /\ overflow' = SubSeq(ResumeQueue, e + 1, Len(ResumeQueue))
          /\ newTasks' = <<>> /\ batch' = <<>> /\ discoveredCh' = <<>> /\ pc' = "top"
          /\ wpc' = [w \in Workers |-> "recv"]
      BY <2>1 DEF Begin
    <3> HIDE DEF e
    <3>3. taskCh' \in Seq(Task) /\ overflow' \in Seq(Task) /\ taskCh' \o overflow' = ResumeQueue
      BY <2>5, <3>1, <3>2, QueueSplit
    <3>4. Range(ResumeQueue) = Range(taskCh') \cup Range(overflow')
      BY <3>3, QueueConcat
    <3>5. Busy' = {} /\ Range(newTasks') = {} /\ Range(batch') = {} /\ Answered' = {}
      BY <3>2, EmptyQueue DEF Busy, Answered
    <3>6. Live' \subseteq Range(ResumeQueue)
      BY <3>4, <3>5 DEF Live, Sent, Waiting
    <3> QED BY <2>5, <3>2, <3>5, <3>6 DEF TaskDepths
  <2> QED BY <2>4, <2>6, <2>7 DEF DepthsInv
<1>4. CASE Crash
  <2>1. proc' = "none" /\ UNCHANGED <<runs, fetched, dbVars>>
    BY <1>4 DEF Crash
  <2> QED BY <2>1 DEF DepthsInv, DepthCreep, SavedDepths, Reach, dbVars
<1> QED BY <1>1, <1>2, <1>3, <1>4 DEF SessionNext

\* However often a session is stopped, crashed and resumed, each crawl fetches
\* at most one level deeper than the one before: the links that a drain saves
\* without looking at their depth are one level out of reach, never more.
THEOREM DepthCreepsByOne == SessionSpec => []DepthCreep
<1>1. SessionInit => DepthsInv
  <2> SUFFICES ASSUME SessionInit PROVE DepthsInv
    OBVIOUS
  <2>1. Init /\ runs = 1
    BY DEF SessionInit
  <2>2. Live = {} /\ Range(batch) = {} /\ Answered = {} /\ Range(dbQueue) = {}
    BY <2>1, EmptyQueue DEF Init, Live, Sent, Busy, LoopPCs, Answered
  <2> QED BY <2>1, <2>2 DEF Init, DepthsInv, DepthCreep, SavedDepths, TaskDepths
<1>2. DepthsInv => DepthCreep
  BY DEF DepthsInv
<1> QED BY <1>1, <1>2, SessionInvAlways, DepthsStep, PTL DEF SessionSpec

-----------------------------------------------------------------------------
(* What a crawl fetches again *)

\* Concatenation adds the counts.
LEMMA CountConcat ==
    ASSUME NEW T, NEW q \in Seq(T), NEW r \in Seq(T), NEW S
    PROVE  CountIn(q \o r, S) = CountIn(q, S) + CountIn(r, S)
<1> DEFINE m == Len(q)
           n == Len(r)
           c == q \o r
           A == Places(q, S)
           B == Places(r, S)
           C == Places(c, S) \ A
           f == [i \in B |-> m + i]
<1>1. m \in Nat /\ n \in Nat /\ DOMAIN q = 1..m /\ DOMAIN r = 1..n /\ c \in Seq(T)
  OBVIOUS
<1>2. DOMAIN c = 1..(m + n) /\ \A i \in 1..(m + n) : c[i] = IF i <= m THEN q[i] ELSE r[i - m]
  BY <1>1, ConcatProperties
<1>3. IsFiniteSet(A) /\ IsFiniteSet(B) /\ IsFiniteSet(Places(c, S))
  BY <1>1, PlacesFinite
<1> HIDE DEF m, n, c
<1>4. A \subseteq Places(c, S) /\ A \subseteq 1..m
  BY <1>1, <1>2 DEF Places
<1>5. f \in Bijection(B, C)
  <2>1. \A i \in B : i \in 1..n /\ r[i] \in S
    BY <1>1 DEF Places
  <2>2. \A i \in B : f[i] = m + i /\ m + i \in 1..(m + n) /\ m + i \notin 1..m /\ c[m + i] = r[i]
    BY <1>1, <1>2, <2>1
  <2>3. \A i \in B : f[i] \in C
    BY <1>2, <1>4, <2>1, <2>2 DEF Places
  <2>4. f \in [B -> C]
    BY <2>3
  <2>5. ASSUME NEW i \in B, NEW j \in B, f[i] = f[j] PROVE i = j
    BY <1>1, <2>1, <2>2, <2>5
  <2>6. ASSUME NEW j \in C PROVE \E i \in B : f[i] = j
    <3>1. j \in 1..(m + n) /\ c[j] \in S /\ j \notin A
      BY <1>2 DEF Places
    <3>2. j \notin 1..m
      BY <1>1, <1>2, <3>1 DEF Places
    <3>3. j - m \in 1..n /\ m + (j - m) = j /\ r[j - m] = c[j]
      BY <1>1, <1>2, <3>1, <3>2
    <3>4. j - m \in B
      BY <1>1, <3>1, <3>3 DEF Places
    <3> QED BY <2>2, <3>3, <3>4
  <2> HIDE DEF B, C, f
  <2>7. f \in Injection(B, C)
    BY <2>4, <2>5 DEF Injection, IsInjective
  <2>8. f \in Surjection(B, C)
    BY <2>4, <2>6 DEF Surjection
  <2> QED BY <2>7, <2>8 DEF Bijection
<1>6. IsFiniteSet(C)
  BY <1>3, FS_Subset
<1>7. Cardinality(C) = Cardinality(B)
  BY <1>3, <1>5, FS_Bijection DEF ExistsBijection
<1>8. Places(c, S) = A \cup C /\ A \cap C = {}
  BY <1>4
<1> HIDE DEF A, B, C
<1>9. Cardinality(A \cup C) = Cardinality(A) + Cardinality(C)
  <2>1. Cardinality(A) \in Nat /\ Cardinality(C) \in Nat /\ Cardinality({}) = 0
    BY <1>3, <1>6, FS_CardinalityType, FS_EmptySet
  <2>2. Cardinality(A \cup C) = Cardinality(A) + Cardinality(C) - Cardinality(A \cap C)
    BY <1>3, <1>6, FS_Union
  <2>3. Cardinality(A \cap C) = Cardinality({})
    BY <1>8, Zenon
  <2> QED BY <2>1, <2>2, <2>3
<1> QED BY <1>7, <1>8, <1>9 DEF CountIn, A, B, c

\* The tasks for u that are handed to the workers and not fetched, and those
\* the coordinator still has.
TasksOf(u) == {x \in Task : x.url = u}
CheckingOf(u) == {w \in Workers : wpc[w] = "check" /\ wtask[w].url = u}
HandedCount(u) == CountIn(taskCh, TasksOf(u)) + Cardinality(CheckingOf(u))
WaitCount(u) == CountIn(overflow, TasksOf(u)) + CountIn(newTasks, TasksOf(u))
InPlay(u) == HandedCount(u) + (IF pc \in LoopPCs THEN WaitCount(u) ELSE 0)

\* They are numbers.
LEMMA InPlayType ==
    ASSUME TypeOK, NEW u \in URLs
    PROVE  /\ IsFiniteSet(CheckingOf(u)) /\ Cardinality(CheckingOf(u)) \in Nat
           /\ CountIn(taskCh, TasksOf(u)) \in Nat /\ CountIn(overflow, TasksOf(u)) \in Nat
           /\ CountIn(newTasks, TasksOf(u)) \in Nat
           /\ HandedCount(u) \in Nat /\ WaitCount(u) \in Nat /\ InPlay(u) \in Nat
           /\ Len(fetched[u]) \in Nat
<1>1. taskCh \in Seq(Task) /\ overflow \in Seq(Task) /\ newTasks \in Seq(Task) /\ fetched[u] \in Seq(Nat)
  BY DEF TypeOK, CoordTypeOK, ChanTypeOK, WorkerTypeOK
<1>2. IsFiniteSet(CheckingOf(u))
  BY CrawlerAssumption, FS_Subset DEF CheckingOf
<1>3. Cardinality(CheckingOf(u)) \in Nat
  BY <1>2, FS_CardinalityType
<1>4. /\ CountIn(taskCh, TasksOf(u)) \in Nat /\ CountIn(overflow, TasksOf(u)) \in Nat
      /\ CountIn(newTasks, TasksOf(u)) \in Nat
  BY <1>1, PlacesFinite
<1>5. HandedCount(u) \in Nat /\ WaitCount(u) \in Nat
  BY <1>3, <1>4 DEF HandedCount, WaitCount
<1>6. InPlay(u) \in Nat
  BY <1>5 DEF InPlay
<1> QED BY <1>1, <1>2, <1>3, <1>4, <1>5, <1>6

\* A worker that takes a task to check it, or is done with checking.
LEMMA CheckingMoves ==
    ASSUME TypeOK, NEW u \in URLs, NEW w \in Workers, NEW x \in WorkerPCs, NEW t,
           wpc' = [wpc EXCEPT ![w] = x], wtask' = [wtask EXCEPT ![w] = t]
    PROVE  /\ wpc[w] # "check" /\ x = "check" => Cardinality(CheckingOf(u)')
                    = Cardinality(CheckingOf(u)) + (IF t.url = u THEN 1 ELSE 0)
           /\ wpc[w] = "check" /\ x # "check" => Cardinality(CheckingOf(u)')
                    = Cardinality(CheckingOf(u)) - (IF wtask[w].url = u THEN 1 ELSE 0)
           /\ wpc[w] # "check" /\ x # "check" => CheckingOf(u)' = CheckingOf(u)
<1>1. IsFiniteSet(CheckingOf(u)) /\ Cardinality(CheckingOf(u)) \in Nat
  BY InPlayType
<1>2. /\ wpc'[w] = x /\ \A v \in Workers : v # w => wpc'[v] = wpc[v] /\ wtask'[v] = wtask[v]
      /\ wtask'[w] = t
  BY DEF TypeOK, WorkerTypeOK
<1>3. ASSUME wpc[w] # "check", x = "check"
      PROVE  Cardinality(CheckingOf(u)') = Cardinality(CheckingOf(u)) + (IF t.url = u THEN 1 ELSE 0)
  <2>1. w \notin CheckingOf(u)
    BY <1>3 DEF CheckingOf
  <2>2. CASE t.url = u
    <3>1. CheckingOf(u)' = CheckingOf(u) \cup {w}
      BY <1>2, <1>3, <2>2 DEF CheckingOf
    <3> QED BY <1>1, <2>1, <2>2, <3>1, FS_AddElement
  <2>3. CASE t.url # u
    <3>1. CheckingOf(u)' = CheckingOf(u)
      BY <1>2, <1>3, <2>3 DEF CheckingOf
    <3> QED BY <1>1, <2>3, <3>1
  <2> QED BY <2>2, <2>3
<1>4. ASSUME wpc[w] = "check", x # "check"
      PROVE  Cardinality(CheckingOf(u)') = Cardinality(CheckingOf(u)) - (IF wtask[w].url = u THEN 1 ELSE 0)
  <2>1. CheckingOf(u)' = CheckingOf(u) \ {w}
    BY <1>2, <1>4 DEF CheckingOf
  <2>2. w \in CheckingOf(u) <=> wtask[w].url = u
    BY <1>4 DEF CheckingOf
  <2>3. Cardinality(CheckingOf(u) \ {w})
          = IF w \in CheckingOf(u) THEN Cardinality(CheckingOf(u)) - 1 ELSE Cardinality(CheckingOf(u))
    BY <1>1, FS_RemoveElement
  <2> QED BY <1>1, <2>1, <2>2, <2>3
<1>5. wpc[w] # "check" /\ x # "check" => CheckingOf(u)' = CheckingOf(u)
  BY <1>2 DEF CheckingOf
<1> QED BY <1>3, <1>4, <1>5

\* A send hands over one task.
LEMMA SendCounts ==
    ASSUME TypeOK, NEW u \in URLs, NEW t \in Task, Send(t)
    PROVE  HandedCount(u)' = HandedCount(u) + (IF t.url = u THEN 1 ELSE 0)
<1>1. /\ taskCh \in Seq(Task) /\ CountIn(taskCh, TasksOf(u)) \in Nat /\ Cardinality(CheckingOf(u)) \in Nat
      /\ (t \in TasksOf(u) <=> t.url = u)
  BY InPlayType DEF TypeOK, ChanTypeOK, TasksOf
<1>2. CASE taskCh' = Append(taskCh, t) /\ UNCHANGED <<wpc, wtask>>
  <2>1. CountIn(taskCh', TasksOf(u)) = CountIn(taskCh, TasksOf(u)) + (IF t.url = u THEN 1 ELSE 0)
    BY <1>1, <1>2, CountAppend
  <2>2. CheckingOf(u)' = CheckingOf(u)
    BY <1>2 DEF CheckingOf
  <2> QED BY <1>1, <2>1, <2>2 DEF HandedCount
<1>3. ASSUME NEW w \in Workers, wpc[w] = "recv", wpc' = [wpc EXCEPT ![w] = "check"],
             wtask' = [wtask EXCEPT ![w] = t], UNCHANGED taskCh
      PROVE  HandedCount(u)' = HandedCount(u) + (IF t.url = u THEN 1 ELSE 0)
  <2>1. Cardinality(CheckingOf(u)') = Cardinality(CheckingOf(u)) + (IF t.url = u THEN 1 ELSE 0)
    BY <1>3, CheckingMoves DEF WorkerPCs
  <2> QED BY <1>1, <1>3, <2>1 DEF HandedCount
<1> QED BY <1>2, <1>3 DEF Send

\* A worker makes a fetch of a task it was handed, and hands none over.
LEMMA WorkerCounts ==
    ASSUME CountInv, NEW u \in URLs, NEW w \in Workers, WorkerStep(w)
    PROVE  Len(fetched'[u]) + HandedCount(u)' <= Len(fetched[u]) + HandedCount(u)
<1>1. /\ TypeOK /\ taskCh \in Seq(Task) /\ CountIn(taskCh, TasksOf(u)) \in Nat
      /\ Cardinality(CheckingOf(u)) \in Nat /\ Len(fetched[u]) \in Nat
      /\ wpc \in [Workers -> WorkerPCs] /\ wtask \in [Workers -> Task \cup {NoTask}]
      /\ fetched \in [URLs -> Seq(Nat)]
  BY InPlayType DEF CountInv, TypeOK, ChanTypeOK, WorkerTypeOK
<1>2. CASE WorkerRecv(w)
  <2> DEFINE t == Head(taskCh)
  <2>1. /\ wpc[w] = "recv" /\ taskCh # <<>> /\ taskCh' = Tail(taskCh) /\ UNCHANGED fetched
        /\ wpc' = [wpc EXCEPT ![w] = "check"] /\ wtask' = [wtask EXCEPT ![w] = t]
    BY <1>2 DEF WorkerRecv
  <2>2. t \in Task /\ (t \in TasksOf(u) <=> t.url = u) /\ Tail(taskCh) \in Seq(Task)
    BY <1>1, <2>1 DEF TasksOf
  <2>3. CountIn(taskCh, TasksOf(u)) = CountIn(taskCh', TasksOf(u)) + (IF t.url = u THEN 1 ELSE 0)
    BY <1>1, <2>1, <2>2, CountTail
  <2>4. CountIn(taskCh', TasksOf(u)) \in Nat
    BY <2>1, <2>2, PlacesFinite
  <2> HIDE DEF t
  <2>5. Cardinality(CheckingOf(u)') = Cardinality(CheckingOf(u)) + (IF t.url = u THEN 1 ELSE 0)
    BY <1>1, <2>1, CheckingMoves DEF WorkerPCs
  <2> QED BY <1>1, <2>1, <2>3, <2>4, <2>5 DEF HandedCount
<1>3. ASSUME wpc[w] = "check", UNCHANGED <<taskCh, wtask>>,
             NEW x \in WorkerPCs \ {"check"}, wpc' = [wpc EXCEPT ![w] = x]
      PROVE  Cardinality(CheckingOf(u)') = Cardinality(CheckingOf(u)) - (IF wtask[w].url = u THEN 1 ELSE 0)
  <2>1. CheckingOf(u)' = CheckingOf(u) \ {w}
    BY <1>1, <1>3 DEF CheckingOf
  <2>2. w \in CheckingOf(u) <=> wtask[w].url = u
    BY <1>3 DEF CheckingOf
  <2>3. IsFiniteSet(CheckingOf(u))
    BY <1>1, InPlayType
  <2>4. Cardinality(CheckingOf(u) \ {w})
          = IF w \in CheckingOf(u) THEN Cardinality(CheckingOf(u)) - 1 ELSE Cardinality(CheckingOf(u))
    BY <2>3, FS_RemoveElement
  <2> QED BY <1>1, <2>1, <2>2, <2>4
<1>4. CASE WorkerGiveBack(w)
  <2>1. /\ wpc[w] = "check" /\ UNCHANGED <<taskCh, wtask, fetched>> /\ wpc' = [wpc EXCEPT ![w] = "return"]
    BY <1>4 DEF WorkerGiveBack, chanVars
  <2>2. Cardinality(CheckingOf(u)') = Cardinality(CheckingOf(u)) - (IF wtask[w].url = u THEN 1 ELSE 0)
    BY <1>3, <2>1 DEF WorkerPCs
  <2> QED BY <1>1, <2>1, <2>2 DEF HandedCount
<1>5. CASE WorkerFetch(w)
  <2>1. /\ wpc[w] = "check" /\ UNCHANGED <<taskCh, wtask>> /\ wpc' = [wpc EXCEPT ![w] = "fetch"]
        /\ fetched' = [fetched EXCEPT ![wtask[w].url] = Append(@, wtask[w].depth)]
    BY <1>5 DEF WorkerFetch, chanVars
  <2>2. Cardinality(CheckingOf(u)') = Cardinality(CheckingOf(u)) - (IF wtask[w].url = u THEN 1 ELSE 0)
    BY <1>3, <2>1 DEF WorkerPCs
  <2>3. wtask[w].depth \in Nat
    BY <2>1 DEF CountInv, HeldTasks, Busy, Task
  <2>4. Len(fetched'[u]) = Len(fetched[u]) + (IF wtask[w].url = u THEN 1 ELSE 0)
    <3>1. CASE wtask[w].url = u
      <4>1. fetched'[u] = Append(fetched[u], wtask[w].depth) /\ fetched[u] \in Seq(Nat)
        BY <1>1, <2>1, <3>1
      <4> QED BY <2>3, <3>1, <4>1, AppendProperties
    <3>2. CASE wtask[w].url # u
      <4>1. fetched'[u] = fetched[u]
        BY <1>1, <2>1, <3>2
      <4> QED BY <1>1, <3>2, <4>1
    <3> QED BY <3>1, <3>2
  <2> QED BY <1>1, <2>1, <2>2, <2>4 DEF HandedCount
<1>6. CASE WorkerExit(w) \/ WorkerResult(w) \/ WorkerAnswer(w)
  <2>1. /\ wpc[w] # "check" /\ UNCHANGED <<taskCh, fetched>>
        /\ (\E x \in WorkerPCs \ {"check"} : wpc' = [wpc EXCEPT ![w] = x])
        /\ wtask' = wtask \/ wtask' = [wtask EXCEPT ![w] = NoTask]
    BY <1>6 DEF WorkerExit, WorkerResult, WorkerAnswer, chanVars, WorkerPCs
  <2>2. \E t : wtask' = [wtask EXCEPT ![w] = t]
    <3>1. wtask = [wtask EXCEPT ![w] = wtask[w]]
      BY <1>1
    <3> QED BY <2>1, <3>1
  <2>3. CheckingOf(u)' = CheckingOf(u)
    BY <1>1, <2>1, <2>2, CheckingMoves
  <2> QED BY <1>1, <2>1, <2>3 DEF HandedCount
<1> QED BY <1>2, <1>4, <1>5, <1>6 DEF WorkerStep

\* The coordinator makes a task for u only when it marks u.
LEMMA CoordCounts ==
    ASSUME BaseInv, NEW u \in URLs, StartStep \/ SelectStep, ~Start
    PROVE  \/ InPlay(u)' <= InPlay(u)
           \/ DedupMark /\ Head(batch).url = u /\ InPlay(u)' = InPlay(u) + 1
<1> USE DEF LoopPCs
<1>1. /\ TypeOK /\ overflow \in Seq(Task) /\ newTasks \in Seq(Task) /\ batch \in Seq(Task)
      /\ CountIn(overflow, TasksOf(u)) \in Nat /\ CountIn(newTasks, TasksOf(u)) \in Nat
      /\ HandedCount(u) \in Nat
  BY InPlayType DEF BaseInv, CountInv, TypeOK, CoordTypeOK
<1>2. \A t \in Task : t \in TasksOf(u) <=> t.url = u
  BY DEF TasksOf
<1>3. UNCHANGED <<taskCh, wpc, wtask>> => HandedCount(u)' = HandedCount(u)
  BY DEF HandedCount, CheckingOf
<1>4. CountIn(<<>>, TasksOf(u)) = 0
  BY CountEmpty
<1>5. CASE LoopExit \/ LoopSelect \/ LimitRecv \/ PersistTick \/ DedupSkip \/ DedupBreak \/ BeginEnqueue \/ EnqueueDone
  <2>1. UNCHANGED <<overflow, newTasks, taskCh, wpc, wtask>> /\ pc \in LoopPCs
    BY <1>5 DEF LoopExit, LoopSelect, LimitRecv, PersistTick, DedupSkip, DedupBreak, BeginEnqueue,
       EnqueueDone, chanVars, workerVars
  <2>2. WaitCount(u)' = WaitCount(u)
    BY <2>1 DEF WaitCount
  <2> QED BY <1>1, <1>3, <2>1, <2>2 DEF InPlay, WaitCount
<1>6. CASE CtxDone \/ SaveQueue \/ SaveVisited \/ FinishFlush \/ FinishClear \/ CloseResults \/ Finish \/ DrainRecv
  <2>1. UNCHANGED <<taskCh, wpc, wtask>> /\ pc' \notin LoopPCs
    BY <1>6 DEF CtxDone, SaveQueue, SaveVisited, FinishFlush, FinishClear, CloseResults, Finish,
       DrainRecv, chanVars, workerVars
  <2> QED BY <1>1, <1>3, <2>1 DEF InPlay, WaitCount
<1>7. CASE LoopLimit \/ RecvBatch
  <2>1. /\ UNCHANGED <<taskCh, wpc, wtask>> /\ pc \in LoopPCs
        /\ overflow' = overflow \/ overflow' = <<>>
        /\ newTasks' = newTasks \/ newTasks' = <<>>
    BY <1>7 DEF LoopLimit, RecvBatch, chanVars, workerVars
  <2>2. WaitCount(u)' <= WaitCount(u) /\ WaitCount(u)' \in Nat /\ WaitCount(u) \in Nat
    BY <1>1, <1>4, <2>1 DEF WaitCount
  <2> QED BY <1>1, <1>3, <2>1, <2>2 DEF InPlay
<1>8. CASE SendOverflow
  <2>1. /\ overflow # <<>> /\ Send(Head(overflow)) /\ overflow' = Tail(overflow) /\ pc = "overflow"
        /\ pc' = "top" /\ UNCHANGED newTasks
    BY <1>8 DEF SendOverflow, BaseInv, CountInv, OverflowAtSelect
  <2>2. Head(overflow) \in Task /\ Tail(overflow) \in Seq(Task)
    BY <1>1, <2>1
  <2>3. CountIn(overflow, TasksOf(u)) = CountIn(overflow', TasksOf(u)) + (IF Head(overflow).url = u THEN 1 ELSE 0)
    BY <1>1, <1>2, <2>1, <2>2, CountTail
  <2>4. HandedCount(u)' = HandedCount(u) + (IF Head(overflow).url = u THEN 1 ELSE 0)
    BY <1>1, <2>1, <2>2, SendCounts
  <2>5. CountIn(overflow', TasksOf(u)) \in Nat
    BY <2>1, <2>2, PlacesFinite
  <2> QED BY <1>1, <2>1, <2>3, <2>4, <2>5 DEF InPlay, WaitCount
<1>9. CASE EnqueueSend
  <2>1. /\ newTasks # <<>> /\ Send(Head(newTasks)) /\ newTasks' = Tail(newTasks) /\ pc = "enqueue"
        /\ pc' = "enqueue" /\ UNCHANGED overflow
    BY <1>9 DEF EnqueueSend
  <2>2. Head(newTasks) \in Task /\ Tail(newTasks) \in Seq(Task)
    BY <1>1, <2>1
  <2>3. CountIn(newTasks, TasksOf(u)) = CountIn(newTasks', TasksOf(u)) + (IF Head(newTasks).url = u THEN 1 ELSE 0)
    BY <1>1, <1>2, <2>1, <2>2, CountTail
  <2>4. HandedCount(u)' = HandedCount(u) + (IF Head(newTasks).url = u THEN 1 ELSE 0)
    BY <1>1, <2>1, <2>2, SendCounts
  <2>5. CountIn(newTasks', TasksOf(u)) \in Nat
    BY <2>1, <2>2, PlacesFinite
  <2> QED BY <1>1, <2>1, <2>3, <2>4, <2>5 DEF InPlay, WaitCount
<1>10. CASE DedupMark
  <2>1. /\ UNCHANGED <<overflow, taskCh, wpc, wtask, pc>> /\ pc = "dedup" /\ batch # <<>>
        /\ newTasks' = Append(newTasks, Head(batch))
    BY <1>10 DEF DedupMark, chanVars, workerVars
  <2>2. Head(batch) \in Task
    BY <1>1, <2>1
  <2>3. CountIn(newTasks', TasksOf(u)) = CountIn(newTasks, TasksOf(u)) + (IF Head(batch).url = u THEN 1 ELSE 0)
    BY <1>1, <1>2, <2>1, <2>2, CountAppend
  <2> QED BY <1>1, <1>3, <1>10, <2>1, <2>3 DEF InPlay, WaitCount
<1>11. CASE AppendNew
  <2>1. /\ UNCHANGED <<taskCh, wpc, wtask>> /\ pc = "dedup" /\ pc' = "top"
        /\ newTasks' = <<>> /\ overflow' = overflow \o newTasks
    BY <1>11 DEF AppendNew, chanVars, workerVars
  <2>2. CountIn(overflow', TasksOf(u)) = CountIn(overflow, TasksOf(u)) + CountIn(newTasks, TasksOf(u))
    BY <1>1, <2>1, CountConcat
  <2> QED BY <1>1, <1>3, <1>4, <2>1, <2>2 DEF InPlay, WaitCount
<1>12. CASE EnqueueOverflow
  <2>1. /\ UNCHANGED <<taskCh, wpc, wtask, pc>> /\ pc = "enqueue" /\ newTasks # <<>>
        /\ newTasks' = Tail(newTasks) /\ overflow' = Append(overflow, Head(newTasks))
    BY <1>12 DEF EnqueueOverflow, chanVars, workerVars
  <2>2. Head(newTasks) \in Task /\ Tail(newTasks) \in Seq(Task)
    BY <1>1, <2>1
  <2>3. CountIn(newTasks, TasksOf(u)) = CountIn(newTasks', TasksOf(u)) + (IF Head(newTasks).url = u THEN 1 ELSE 0)
    BY <1>1, <1>2, <2>1, <2>2, CountTail
  <2>4. CountIn(overflow', TasksOf(u)) = CountIn(overflow, TasksOf(u)) + (IF Head(newTasks).url = u THEN 1 ELSE 0)
    BY <1>1, <1>2, <2>1, <2>2, CountAppend
  <2>5. CountIn(newTasks', TasksOf(u)) \in Nat
    BY <2>1, <2>2, PlacesFinite
  <2> QED BY <1>1, <1>3, <2>1, <2>3, <2>4, <2>5 DEF InPlay, WaitCount
<1> QED BY <1>5, <1>6, <1>7, <1>8, <1>9, <1>10, <1>11, <1>12 DEF StartStep, SelectStep


-----------------------------------------------------------------------------
(* The bound on fetching again *)

\* Tasks for u that a crawl began with, on top of what was fetched before.
Quota(u) == loaded.before[u] + CountIn(loaded.queue, TasksOf(u))

\* What was fetched of u and what is in play exceeds what the crawl began with
\* by the one task that marking u makes.
WithinQuota(u) ==
    Len(fetched[u]) + InPlay(u) <= Quota(u) + (IF u \in visited \ loaded.visited THEN 1 ELSE 0)

RefetchInv ==
    /\ RefetchBound
    /\ proc = "run" /\ pc # "start" =>
         loaded.visited \subseteq visited /\ \A u \in URLs : WithinQuota(u)

\* The bound in terms of counts.
LEMMA QuotaType ==
    ASSUME loaded \in Loads, NEW u \in URLs
    PROVE  /\ loaded.before[u] \in Nat /\ CountIn(loaded.queue, TasksOf(u)) \in Nat /\ Quota(u) \in Nat
           /\ Cardinality({i \in DOMAIN loaded.queue : loaded.queue[i].url = u})
                = CountIn(loaded.queue, TasksOf(u))
<1>1. loaded.before[u] \in Nat /\ loaded.queue \in Seq(Task)
  BY DEF Loads
<1>2. CountIn(loaded.queue, TasksOf(u)) \in Nat
  BY <1>1, PlacesFinite
<1>3. {i \in DOMAIN loaded.queue : loaded.queue[i].url = u} = Places(loaded.queue, TasksOf(u))
  <2>1. \A i \in DOMAIN loaded.queue : loaded.queue[i] \in Task
    BY <1>1
  <2> QED BY <2>1 DEF Places, TasksOf
<1>4. Cardinality({i \in DOMAIN loaded.queue : loaded.queue[i].url = u}) = CountIn(loaded.queue, TasksOf(u))
  BY <1>3, Zenon DEF CountIn
<1>5. Quota(u) \in Nat
  BY <1>1, <1>2 DEF Quota
<1> QED BY <1>1, <1>2, <1>4, <1>5

\* A crawl within its quotas respects the bound.
LEMMA QuotaBounds ==
    ASSUME TypeOK, loaded \in Loads, \A u \in URLs : WithinQuota(u)
    PROVE  RefetchBound
<1> SUFFICES ASSUME NEW u \in URLs
             PROVE  Len(fetched[u]) - loaded.before[u]
                      <= Cardinality({i \in DOMAIN loaded.queue : loaded.queue[i].url = u})
                           + (IF u \in loaded.visited THEN 0 ELSE 1)
  BY DEF RefetchBound
<1>1. Len(fetched[u]) \in Nat /\ InPlay(u) \in Nat
  BY InPlayType
<1>2. Len(fetched[u]) + InPlay(u) <= Quota(u) + (IF u \in visited \ loaded.visited THEN 1 ELSE 0)
  BY DEF WithinQuota
<1>3. (IF u \in visited \ loaded.visited THEN 1 ELSE 0) <= (IF u \in loaded.visited THEN 0 ELSE 1)
  OBVIOUS
<1>4. /\ loaded.before[u] \in Nat /\ CountIn(loaded.queue, TasksOf(u)) \in Nat
      /\ Quota(u) = loaded.before[u] + CountIn(loaded.queue, TasksOf(u))
      /\ Cardinality({i \in DOMAIN loaded.queue : loaded.queue[i].url = u})
           = CountIn(loaded.queue, TasksOf(u))
  BY QuotaType DEF Quota
<1> HIDE DEF Quota
<1>5. Len(fetched[u]) <= Quota(u) + (IF u \in loaded.visited THEN 0 ELSE 1)
  BY <1>1, <1>2, <1>3, <1>4
<1> QED BY <1>1, <1>4, <1>5

\* A crawl begins with the tasks of its queue in play.
LEMMA BeginCounts ==
    ASSUME NEW vis, NEW q \in Seq(Task), Begin(vis, q), NEW u \in URLs
    PROVE  InPlay(u)' = CountIn(q, TasksOf(u)) /\ visited' = vis
<1> DEFINE e == IF Len(q) < QueueSize THEN Len(q) ELSE QueueSize
<1>1. e \in 0..Len(q)
  BY CrawlerAssumption
<1>2. /\ taskCh' = SubSeq(q, 1, e) /\ overflow' = SubSeq(q, e + 1, Len(q)) /\ visited' = vis
      /\ newTasks' = <<>> /\ pc' = "top" /\ wpc' = [w \in Workers |-> "recv"]
  BY DEF Begin
<1> HIDE DEF e
<1>3. taskCh' \in Seq(Task) /\ overflow' \in Seq(Task) /\ taskCh' \o overflow' = q
  BY <1>1, <1>2, QueueSplit
<1>4. CountIn(q, TasksOf(u)) = CountIn(taskCh', TasksOf(u)) + CountIn(overflow', TasksOf(u))
  BY <1>3, CountConcat
<1>5. CountIn(taskCh', TasksOf(u)) \in Nat /\ CountIn(overflow', TasksOf(u)) \in Nat
  BY <1>3, PlacesFinite
<1>6. Cardinality(CheckingOf(u)') = 0
  <2>1. CheckingOf(u)' = {}
    BY <1>2 DEF CheckingOf
  <2> QED BY <2>1, FS_EmptySet
<1>7. CountIn(newTasks', TasksOf(u)) = 0 /\ pc' \in LoopPCs
  BY <1>2, CountEmpty DEF LoopPCs
<1> QED BY <1>2, <1>4, <1>5, <1>6, <1>7 DEF InPlay, HandedCount, WaitCount

\* A crawl that begins is within its quotas.
LEMMA BeginQuota ==
    ASSUME TypeOK, NEW vis \in SUBSET URLs, NEW q \in Seq(Task), Begin(vis, q), UNCHANGED fetched,
           loaded' = Started(vis, q)
    PROVE  loaded'.visited \subseteq visited' /\ \A u \in URLs : WithinQuota(u)'
<1>1. /\ loaded'.visited = vis /\ loaded'.queue = q
      /\ \A u \in URLs : loaded'.before[u] = Len(fetched[u]) /\ Len(fetched[u]) \in Nat
  <2>1. /\ Started(vis, q).visited = vis /\ Started(vis, q).queue = q
        /\ \A u \in URLs : Started(vis, q).before[u] = Len(fetched[u])
    BY StartedType
  <2>2. \A u \in URLs : Len(fetched[u]) \in Nat
    BY DEF TypeOK, WorkerTypeOK
  <2> QED BY <2>1, <2>2
<1>2. visited' = vis
  BY DEF Begin
<1>3. ASSUME NEW u \in URLs PROVE WithinQuota(u)'
  <2>1. InPlay(u)' = CountIn(q, TasksOf(u))
    BY BeginCounts
  <2>2. Len(fetched'[u]) + InPlay(u)' <= loaded'.before[u] + CountIn(loaded'.queue, TasksOf(u))
    <3>1. CountIn(q, TasksOf(u)) \in Nat
      BY PlacesFinite
    <3> QED BY <1>1, <2>1, <3>1
  <2>3. u \notin visited' \ loaded'.visited
    BY <1>1, <1>2
  <2>4. Quota(u)' = loaded'.before[u] + CountIn(loaded'.queue, TasksOf(u))
    BY DEF Quota
  <2>5. /\ Len(fetched'[u]) \in Nat /\ InPlay(u)' \in Nat /\ Quota(u)' \in Nat
        /\ Len(fetched'[u]) + InPlay(u)' <= Quota(u)'
    <3>1. CountIn(q, TasksOf(u)) \in Nat
      BY PlacesFinite
    <3> QED BY <1>1, <2>1, <2>2, <2>4, <3>1
  <2>6. Len(fetched'[u]) + InPlay(u)' <= Quota(u)' + 0
    BY <2>5
  <2> QED BY <2>3, <2>6 DEF WithinQuota
<1> QED BY <1>1, <1>2, <1>3

\* What is in play is a number: a formula that can be used of the next state.
PlayNumbers ==
    \A u \in URLs : InPlay(u) \in Nat /\ HandedCount(u) \in Nat /\ Len(fetched[u]) \in Nat

\* It follows from the types.
LEMMA InPlayNumbers == TypeOK => PlayNumbers
BY InPlayType DEF PlayNumbers

\* The quotas bound the fetches, as such a formula.
LEMMA QuotasBound ==
    TypeOK /\ loaded \in Loads /\ (\A u \in URLs : WithinQuota(u)) => RefetchBound
BY QuotaBounds

\* The same number on both sides.
LEMMA AddBoth ==
    \A i, j, m, n, k \in Nat : i + j <= m + n => i + (j + k) <= m + (n + k)
OBVIOUS

\* A step of a crawl keeps it within its quotas.
LEMMA CrawlQuota ==
    ASSUME SessionInv, RefetchInv, CrawlStep, pc # "start", NEW u \in URLs
    PROVE  WithinQuota(u)'
<1>1. /\ BaseInv /\ TypeOK /\ [Next]_vars /\ loaded' = loaded /\ loaded \in Loads
      /\ loaded.visited \subseteq visited /\ WithinQuota(u)
  BY SessionTypes, CrawlStepIsNext DEF CrawlStep, SessionInv, RefetchInv
<1>2. visited \subseteq visited' /\ TypeOK'
  BY <1>1, VisitedGrows, BaseStep DEF BaseInv, CountInv
<1>3. /\ Len(fetched[u]) \in Nat /\ InPlay(u) \in Nat /\ Quota(u) \in Nat
      /\ Quota(u)' = Quota(u)
  BY <1>1, InPlayType, QuotaType DEF Quota
<1>4. Len(fetched'[u]) \in Nat /\ InPlay(u)' \in Nat /\ HandedCount(u)' \in Nat
  <2>1. (TypeOK => PlayNumbers)'
    BY InPlayNumbers, PTL
  <2> QED BY <1>2, <2>1 DEF PlayNumbers
<1>5. CASE Len(fetched'[u]) + InPlay(u)' <= Len(fetched[u]) + InPlay(u)
  <2>1. (IF u \in visited \ loaded.visited THEN 1 ELSE 0) <= (IF u \in visited' \ loaded'.visited THEN 1 ELSE 0)
    BY <1>1, <1>2
  <2>2. Len(fetched[u]) + InPlay(u) <= Quota(u) + (IF u \in visited \ loaded.visited THEN 1 ELSE 0)
    BY <1>1 DEF WithinQuota
  <2>3. Len(fetched'[u]) + InPlay(u)' <= Quota(u)' + (IF u \in visited' \ loaded'.visited THEN 1 ELSE 0)
    <3> DEFINE x == IF u \in visited \ loaded.visited THEN 1 ELSE 0
               y == IF u \in visited' \ loaded'.visited THEN 1 ELSE 0
    <3>1. x \in Nat /\ y \in Nat /\ x <= y /\ Len(fetched[u]) + InPlay(u) <= Quota(u) + x
      BY <2>1, <2>2
    <3> HIDE DEF x, y
    <3>2. Len(fetched'[u]) + InPlay(u)' <= Quota(u)' + y
      BY <1>3, <1>4, <1>5, <3>1
    <3> QED BY <3>2 DEF y
  <2> QED BY <2>3 DEF WithinQuota
<1>6. CASE StartStep \/ SelectStep
  <2>1. ~Start /\ fetched' = fetched
    BY <1>6, CoordFrame DEF Start
  <2>2. \/ InPlay(u)' <= InPlay(u)
        \/ DedupMark /\ Head(batch).url = u /\ InPlay(u)' = InPlay(u) + 1
    BY <1>1, <1>6, <2>1, CoordCounts
  <2>3. CASE InPlay(u)' <= InPlay(u)
    <3>1. Len(fetched'[u]) + InPlay(u)' <= Len(fetched[u]) + InPlay(u)
      BY <1>3, <1>4, <2>1, <2>3
    <3> QED BY <1>5, <3>1
  <2>4. CASE DedupMark /\ Head(batch).url = u /\ InPlay(u)' = InPlay(u) + 1
    <3>1. u \notin visited /\ visited' = visited \cup {u}
      BY <2>4 DEF DedupMark, Skipped
    <3>2. Len(fetched[u]) + InPlay(u) <= Quota(u)
      <4>1. Len(fetched[u]) + InPlay(u) <= Quota(u) + 0
        BY <1>1, <3>1 DEF WithinQuota
      <4> QED BY <1>3, <4>1
    <3>3. Len(fetched'[u]) + InPlay(u)' <= Quota(u)' + 1
      BY <1>3, <1>4, <2>1, <2>4, <3>2
    <3>4. u \in visited' \ loaded'.visited
      BY <1>1, <3>1
    <3> QED BY <3>3, <3>4 DEF WithinQuota
  <2> QED BY <2>2, <2>3, <2>4
<1>7. ASSUME NEW w \in Workers, WorkerStep(w) PROVE WithinQuota(u)'
  <2>1. Len(fetched'[u]) + HandedCount(u)' <= Len(fetched[u]) + HandedCount(u)
    BY <1>1, <1>7, WorkerCounts DEF BaseInv
  <2>2. UNCHANGED <<pc, overflow, newTasks>>
    BY <1>7, WorkerFrame DEF coordVars
  <2>3. WaitCount(u)' = WaitCount(u)
    BY <2>2 DEF WaitCount
  <2>4. /\ HandedCount(u) \in Nat /\ WaitCount(u) \in Nat
    BY <1>1, InPlayType
  <2>5. PICK k \in Nat : k = IF pc \in LoopPCs THEN WaitCount(u) ELSE 0
    BY <2>4
  <2>6. InPlay(u) = HandedCount(u) + k /\ InPlay(u)' = HandedCount(u)' + k
    BY <2>2, <2>3, <2>5 DEF InPlay
  <2>7. Len(fetched'[u]) + InPlay(u)' <= Len(fetched[u]) + InPlay(u)
    BY <1>3, <1>4, <2>1, <2>4, <2>6, AddBoth
  <2> QED BY <1>5, <2>7
<1>8. CASE IndexerStep \/ Cancel
  <2>1. UNCHANGED <<pc, overflow, newTasks, taskCh, wpc, wtask, fetched>>
    BY <1>8, IndexerFrame DEF Cancel, coordVars, chanVars, workerVars
  <2>2. InPlay(u)' = InPlay(u)
    BY <2>1 DEF InPlay, HandedCount, WaitCount, CheckingOf
  <2>3. Len(fetched'[u]) + InPlay(u)' <= Len(fetched[u]) + InPlay(u)
    BY <1>3, <2>1, <2>2
  <2> QED BY <1>5, <2>3
<1> QED BY <1>6, <1>7, <1>8 DEF CrawlStep

\* Every step of a session keeps the bound.
LEMMA RefetchStep == SessionInv /\ RefetchInv /\ [SessionNext]_allVars => RefetchInv'
<1> SUFFICES ASSUME SessionInv, RefetchInv, [SessionNext]_allVars PROVE RefetchInv'
  OBVIOUS
<1>1. TypeOK /\ loaded \in Loads /\ TypeOK' /\ loaded' \in Loads
  <2>1. SessionInv'
    BY SessionInvStep
  <2> QED BY <2>1, SessionTypes DEF SessionInv, SessionTypeOK, Loads
<1>2. RefetchBound /\ fetched' = fetched /\ loaded' = loaded => RefetchBound'
  BY DEF RefetchBound
<1>3. (loaded'.visited \subseteq visited' /\ \A u \in URLs : WithinQuota(u)') => RefetchInv'
  <2>1. (\A u \in URLs : WithinQuota(u)') => RefetchBound'
    <3>1. (TypeOK /\ loaded \in Loads /\ (\A u \in URLs : WithinQuota(u)) => RefetchBound)'
      BY QuotasBound, PTL
    <3> QED BY <1>1, <3>1 DEF Loads
  <2> QED BY <2>1 DEF RefetchInv
<1>4. CASE CrawlStep /\ pc # "start"
  <2>1. \A u \in URLs : WithinQuota(u)'
    BY <1>4, CrawlQuota
  <2>2. loaded'.visited \subseteq visited'
    <3>1. loaded.visited \subseteq visited /\ loaded' = loaded /\ BaseInv /\ [Next]_vars
      BY <1>4, CrawlStepIsNext DEF CrawlStep, RefetchInv, SessionInv
    <3> QED BY <3>1, VisitedGrows
  <2> QED BY <1>3, <2>1, <2>2
<1>5. CASE CrawlStep /\ pc = "start" /\ Start
  <2>1. Begin(SeedSet, SeedQueue) /\ fetched' = fetched /\ loaded' = Started(SeedSet, SeedQueue)
    BY <1>5 DEF Start, CrawlStep, SessionInv
  <2>2. SeedSet \in SUBSET URLs /\ SeedQueue \in Seq(Task)
    BY SeedQueueType, CrawlerAssumption DEF SeedSet, Range
  <2> QED BY <1>1, <1>3, <2>1, <2>2, BeginQuota
<1>6. CASE CrawlStep /\ pc = "start" /\ ~Start
  <2>1. UNCHANGED <<pc, fetched, loaded>>
    <3>1. pc = "start" /\ BaseInv /\ loaded' = loaded
      BY <1>6 DEF CrawlStep, SessionInv
    <3>2. ~StartStep \/ UNCHANGED <<pc, fetched>>
      BY <1>6 DEF StartStep, LoopExit, LoopLimit, LoopSelect, DedupSkip, DedupBreak, DedupMark, AppendNew,
         BeginEnqueue, EnqueueSend, EnqueueOverflow, EnqueueDone, DrainRecv, SaveQueue, SaveVisited,
         FinishFlush, FinishClear, CloseResults, Finish
    <3>3. ~SelectStep
      BY <1>6 DEF SelectStep, LimitRecv, SendOverflow, RecvBatch, PersistTick, CtxDone
    <3>4. ASSUME NEW w \in Workers, WorkerStep(w) PROVE UNCHANGED <<pc, fetched>>
      <4>1. wpc[w] = "exit"
        BY <3>1 DEF BaseInv, Fresh
      <4> QED BY <3>4, <4>1 DEF WorkerStep, WorkerRecv, WorkerExit, WorkerGiveBack, WorkerFetch,
                 WorkerResult, WorkerAnswer
    <3>5. IndexerStep \/ Cancel => UNCHANGED <<pc, fetched>>
      BY IndexerFrame DEF Cancel, coordVars, workerVars
    <3> QED BY <1>6, <3>1, <3>2, <3>3, <3>4, <3>5 DEF CrawlStep
  <2> QED BY <1>2, <1>6, <2>1 DEF RefetchInv
<1>7. CASE ResumeCrawlByID
  <2>1. /\ Begin(ResumeVisited, ResumeQueue) /\ fetched' = fetched
        /\ loaded' = Started(ResumeVisited, ResumeQueue)
    BY <1>7 DEF ResumeCrawlByID
  <2> QED BY <1>1, <1>3, <2>1, ResumeType, BeginQuota
<1>8. CASE FinishSession \/ Crash
  <2>1. proc' = "none" /\ UNCHANGED <<fetched, loaded>>
    BY <1>8 DEF FinishSession, Crash, vars, workerVars
  <2> QED BY <1>2, <2>1 DEF RefetchInv
<1>9. CASE MarkStopped \/ SessionOver \/ UNCHANGED allVars
  <2>1. UNCHANGED <<pc, proc, visited, overflow, newTasks, taskCh, wpc, wtask, fetched, loaded>>
    BY <1>9 DEF MarkStopped, SessionOver, allVars, sessionVars, vars, coordVars, chanVars, workerVars
  <2>2. \A u \in URLs : WithinQuota(u)' <=> WithinQuota(u)
    BY <2>1 DEF WithinQuota, Quota, InPlay, HandedCount, WaitCount, CheckingOf
  <2> QED BY <1>2, <2>1, <2>2 DEF RefetchInv
<1> QED BY <1>4, <1>5, <1>6, <1>7, <1>8, <1>9 DEF SessionNext

\* However a session is stopped, crashed and resumed, a crawl fetches a page
\* again at most as often as the queue it loaded names it, and once more only
\* when it did not know the page as visited.
THEOREM RefetchesAreBounded == SessionSpec => []RefetchBound
<1>1. SessionInit => RefetchInv
  <2> SUFFICES ASSUME SessionInit PROVE RefetchInv
    OBVIOUS
  <2>1. Init /\ loaded = Started(SeedSet, SeedQueue) /\ SessionInv
    BY SessionInvInit DEF SessionInit
  <2>2. loaded \in Loads /\ pc = "start"
    BY <2>1, SessionTypes DEF Init
  <2>3. ASSUME NEW u \in URLs
        PROVE  Len(fetched[u]) - loaded.before[u]
                 <= Cardinality({i \in DOMAIN loaded.queue : loaded.queue[i].url = u})
                      + (IF u \in loaded.visited THEN 0 ELSE 1)
    <3>1. Len(fetched[u]) = 0 /\ loaded.before[u] = 0
      BY <2>1 DEF Init, Started
    <3>2. Cardinality({i \in DOMAIN loaded.queue : loaded.queue[i].url = u}) \in Nat
      BY <2>2, QuotaType
    <3> QED BY <3>1, <3>2
  <2> QED BY <2>2, <2>3 DEF RefetchInv, RefetchBound
<1>2. RefetchInv => RefetchBound
  BY DEF RefetchInv
<1> QED BY <1>1, <1>2, SessionInvAlways, RefetchStep, PTL DEF SessionSpec

-----------------------------------------------------------------------------
(* What a session counts *)

Fetches == Cardinality(FetchLog)
Fetching == {w \in Workers : wpc[w] = "fetch"}

\* Fetches that no counter knows yet: with their worker, or a record in resultsCh.
Uncounted == Cardinality(Fetching) + Len(resultsCh)

\* The pages that the metrics and the row count as indexed or failed.
CountedPages == metrics.IndexedDocs + metrics.PagesErrored
CountedInRow == row.IndexedDocs + row.PagesErrored

\* Every fetch the crawl knows of, wherever it is.
KnownFetches == CountedPages + Uncounted

\* PagesProcessed, with the batch that is being flushed.
Processing == metrics.PagesProcessed + (IF flushFor = "batch" THEN 1 ELSE 0)

\* Only a crash and a failing write lose what was counted.
NothingForgotten == crashes = 0 /\ ~DBMayFail

\* The counters of a running crawl lack exactly the fetches on their way, and
\* those of the row are older; a row without a crawl lacks nothing.
SessionCounters ==
    /\ IsFiniteSet(FetchLog)
    /\ row.PagesProcessed <= CountedInRow /\ CountedInRow <= Fetches
    /\ proc = "run" =>
         /\ IndexPhases
         /\ Processing <= CountedPages /\ KnownFetches <= Fetches
         /\ NothingForgotten => Processing = CountedPages /\ KnownFetches = Fetches
    /\ proc = "none" /\ NothingForgotten =>
         row.PagesProcessed = CountedInRow /\ CountedInRow = Fetches

\* The numbers in it are numbers.
LEMMA CounterNumbers ==
    ASSUME TypeOK
    PROVE  /\ metrics.PagesProcessed \in Nat /\ metrics.IndexedDocs \in Nat
           /\ metrics.PagesErrored \in Nat
           /\ IsFiniteSet(Fetching) /\ Cardinality(Fetching) \in Nat /\ Len(resultsCh) \in Nat
           /\ IsFiniteSet(FetchLog) => Fetches \in Nat
<1>1. metrics \in Metrics /\ resultsCh \in Seq(Record)
  BY DEF TypeOK, ChanTypeOK
<1>2. IsFiniteSet(Fetching)
  BY CrawlerAssumption, FS_Subset DEF Fetching
<1> QED BY <1>1, <1>2, FS_CardinalityType DEF Metrics, Fetches

\* So are their sums.
LEMMA SumNumbers == TypeOK => KnownFetches \in Nat /\ CountedPages \in Nat /\ Processing \in Nat
<1> SUFFICES ASSUME TypeOK PROVE KnownFetches \in Nat /\ CountedPages \in Nat /\ Processing \in Nat
  OBVIOUS
<1>1. /\ metrics.PagesProcessed \in Nat /\ metrics.IndexedDocs \in Nat
      /\ metrics.PagesErrored \in Nat
  BY CounterNumbers
<1>2. Cardinality(Fetching) \in Nat /\ Len(resultsCh) \in Nat
  BY CounterNumbers
<1>3. CountedPages \in Nat /\ Processing \in Nat
  BY <1>1 DEF CountedPages, Processing
<1>4. Uncounted \in Nat
  BY <1>2 DEF Uncounted
<1> QED BY <1>3, <1>4 DEF KnownFetches

\* A fetch adds one pair to the log.
LEMMA LogGrows ==
    ASSUME TypeOK, IsFiniteSet(FetchLog), NEW u \in URLs, NEW d \in Nat,
           fetched' = [fetched EXCEPT ![u] = Append(@, d)]
    PROVE  IsFiniteSet(FetchLog') /\ Fetches' = Fetches + 1
<1> DEFINE p == <<u, Len(fetched[u]) + 1>>
<1>1. fetched \in [URLs -> Seq(Nat)] /\ Len(fetched[u]) \in Nat
  BY DEF TypeOK, WorkerTypeOK
<1>2. DOMAIN fetched[u] = 1..Len(fetched[u])
  BY <1>1
<1>3. DOMAIN fetched'[u] = 1..(Len(fetched[u]) + 1)
  BY <1>1, AppendProperties
<1>4. DOMAIN fetched'[u] = DOMAIN fetched[u] \cup {Len(fetched[u]) + 1}
  BY <1>1, <1>2, <1>3
<1>5. \A v \in URLs : v # u => DOMAIN fetched'[v] = DOMAIN fetched[v]
  BY <1>1
<1>6. FetchLog' = FetchLog \cup {p}
  BY <1>4, <1>5 DEF FetchLog
<1>7. p \notin FetchLog
  BY <1>1, <1>2 DEF FetchLog
<1> QED BY <1>6, <1>7, FS_AddElement DEF Fetches

\* A worker that changes its position joins or leaves the fetching workers.
LEMMA FetchingMoves ==
    ASSUME TypeOK, NEW w \in Workers, NEW x, wpc' = [wpc EXCEPT ![w] = x]
    PROVE  /\ Cardinality(Fetching) \in Nat
           /\ wpc[w] # "fetch" /\ x # "fetch" => Cardinality(Fetching') = Cardinality(Fetching)
           /\ wpc[w] # "fetch" /\ x = "fetch" => Cardinality(Fetching') = Cardinality(Fetching) + 1
           /\ wpc[w] = "fetch" /\ x # "fetch" => Cardinality(Fetching) = Cardinality(Fetching') + 1
                                              /\ Cardinality(Fetching') \in Nat
<1>1. IsFiniteSet(Fetching) /\ Cardinality(Fetching) \in Nat
  BY CounterNumbers
<1>2. wpc'[w] = x /\ \A v \in Workers : v # w => wpc'[v] = wpc[v]
  BY DEF TypeOK, WorkerTypeOK
<1>3. wpc[w] # "fetch" /\ x # "fetch" => Fetching' = Fetching
  BY <1>2 DEF Fetching
<1>4. wpc[w] # "fetch" /\ x = "fetch" => Fetching' = Fetching \cup {w} /\ w \notin Fetching
  BY <1>2 DEF Fetching
<1>5. wpc[w] = "fetch" /\ x # "fetch" => Fetching' = Fetching \ {w} /\ w \in Fetching
  BY <1>2 DEF Fetching
<1>6. w \notin Fetching => Cardinality(Fetching \cup {w}) = Cardinality(Fetching) + 1
  BY <1>1, FS_AddElement
<1>7. w \in Fetching => /\ Cardinality(Fetching) = Cardinality(Fetching \ {w}) + 1
                        /\ Cardinality(Fetching \ {w}) \in Nat
  <2>1. /\ IsFiniteSet(Fetching \ {w})
        /\ w \in Fetching => Cardinality(Fetching \ {w}) = Cardinality(Fetching) - 1
    BY <1>1, FS_RemoveElement
  <2>2. Cardinality(Fetching \ {w}) \in Nat
    BY <2>1, FS_CardinalityType
  <2> QED BY <1>1, <2>1, <2>2
<1> QED BY <1>1, <1>3, <1>4, <1>5, <1>6, <1>7

\* A step of a worker loses and invents no fetch.
LEMMA WorkerCounters ==
    ASSUME CountInv, IsFiniteSet(FetchLog), NEW w \in Workers, WorkerStep(w)
    PROVE  /\ IsFiniteSet(FetchLog') /\ Fetches' \in Nat /\ Fetches <= Fetches'
           /\ Uncounted' + Fetches = Uncounted + Fetches'
<1>1. /\ Cardinality(Fetching) \in Nat /\ Len(resultsCh) \in Nat /\ Fetches \in Nat
      /\ resultsCh \in Seq(Record) /\ wpc \in [Workers -> WorkerPCs] /\ TypeOK
  BY CounterNumbers DEF CountInv, TypeOK, ChanTypeOK, WorkerTypeOK
<1>2. ASSUME NEW x \in WorkerPCs \ {"fetch"}, wpc[w] # "fetch", wpc' = [wpc EXCEPT ![w] = x],
             UNCHANGED <<fetched, resultsCh>>
      PROVE  /\ IsFiniteSet(FetchLog') /\ Fetches' \in Nat /\ Fetches <= Fetches'
             /\ Uncounted' + Fetches = Uncounted + Fetches'
  <2>1. Cardinality(Fetching') = Cardinality(Fetching)
    BY <1>1, <1>2, FetchingMoves
  <2>2. FetchLog' = FetchLog
    BY <1>2 DEF FetchLog
  <2> QED BY <1>1, <1>2, <2>1, <2>2 DEF Uncounted, Fetches
<1>3. CASE WorkerRecv(w) \/ WorkerExit(w) \/ WorkerGiveBack(w) \/ WorkerAnswer(w)
  <2>1. \E x \in WorkerPCs \ {"fetch"} :
            wpc[w] # "fetch" /\ wpc' = [wpc EXCEPT ![w] = x] /\ UNCHANGED <<fetched, resultsCh>>
    BY <1>3 DEF WorkerRecv, WorkerExit, WorkerGiveBack, WorkerAnswer, WorkerPCs, chanVars
  <2> QED BY <1>2, <2>1
<1>4. CASE WorkerFetch(w)
  <2>1. /\ wpc[w] = "check" /\ wpc' = [wpc EXCEPT ![w] = "fetch"] /\ UNCHANGED resultsCh
        /\ fetched' = [fetched EXCEPT ![wtask[w].url] = Append(@, wtask[w].depth)]
    BY <1>4 DEF WorkerFetch, chanVars
  <2>2. wtask[w].url \in URLs /\ wtask[w].depth \in Nat
    BY <1>4 DEF WorkerFetch, CountInv, HeldTasks, Busy, Task
  <2>3. IsFiniteSet(FetchLog') /\ Fetches' = Fetches + 1
    BY <1>1, <2>1, <2>2, LogGrows
  <2>4. Cardinality(Fetching') = Cardinality(Fetching) + 1
    BY <1>1, <2>1, FetchingMoves
  <2>5. Len(resultsCh') = Len(resultsCh)
    BY <2>1
  <2> QED BY <1>1, <2>3, <2>4, <2>5 DEF Uncounted
<1>5. CASE WorkerResult(w)
  <2>1. PICK ok \in FetchOutcomes(wtask[w].url) :
            /\ wpc[w] = "fetch" /\ UNCHANGED fetched
            /\ resultsCh' = Append(resultsCh, [url |-> wtask[w].url, ok |-> ok])
            /\ wpc' = [wpc EXCEPT ![w] = IF ok THEN "found" ELSE "failed"]
    BY <1>5 DEF WorkerResult
  <2>2. Cardinality(Fetching) = Cardinality(Fetching') + 1 /\ Cardinality(Fetching') \in Nat
    <3>1. (IF ok THEN "found" ELSE "failed") # "fetch"
      OBVIOUS
    <3> QED BY <1>1, <2>1, <3>1, FetchingMoves
  <2>3. Len(resultsCh') = Len(resultsCh) + 1
    BY <1>1, <2>1
  <2>4. FetchLog' = FetchLog
    BY <2>1 DEF FetchLog
  <2>5. Fetches' = Fetches
    BY <2>4 DEF Fetches
  <2> QED BY <1>1, <2>2, <2>3, <2>4, <2>5 DEF Uncounted
<1> QED BY <1>3, <1>4, <1>5 DEF WorkerStep

\* The indexer counts the record it takes from resultsCh as indexed or failed
\* at once, and as processed then or after the flush of the full batch.
LEMMA IndexerCounters ==
    ASSUME TypeOK, IndexPhases, IndexerStep
    PROVE  /\ CountedPages' + Len(resultsCh') = CountedPages + Len(resultsCh)
           /\ CountedPages' \in Nat /\ metrics'.PagesProcessed \in Nat
           /\ Processing' + CountedPages = Processing + CountedPages'
<1>1. /\ metrics \in Metrics /\ metrics.PagesProcessed \in Nat /\ metrics.IndexedDocs \in Nat
      /\ metrics.PagesErrored \in Nat /\ Len(resultsCh) \in Nat /\ resultsCh \in Seq(Record)
  BY CounterNumbers DEF TypeOK, ChanTypeOK
<1>2. resultsCh # <<>> => Len(Tail(resultsCh)) + 1 = Len(resultsCh) /\ Len(Tail(resultsCh)) \in Nat
  BY <1>1
<1>3. CASE IndexError
  <2>1. /\ metrics' = [metrics EXCEPT !.PagesErrored = @ + 1, !.PagesProcessed = @ + 1]
        /\ flushFor' = flushFor /\ resultsCh # <<>> /\ resultsCh' = Tail(resultsCh)
    BY <1>3 DEF IndexError, indexVars
  <2>2. /\ metrics'.PagesProcessed = metrics.PagesProcessed + 1 /\ metrics'.IndexedDocs = metrics.IndexedDocs
        /\ metrics'.PagesErrored = metrics.PagesErrored + 1
    BY <1>1, <2>1 DEF Metrics
  <2>3. CountedPages' = CountedPages + 1 /\ CountedPages \in Nat
    BY <1>1, <2>2 DEF CountedPages
  <2>4. Processing' = Processing + 1 /\ Processing \in Nat
    BY <1>1, <2>1, <2>2 DEF Processing
  <2>5. metrics'.PagesProcessed \in Nat
    BY <1>1, <2>2
  <2>6. CountedPages' + Len(resultsCh') = CountedPages + Len(resultsCh) /\ CountedPages' \in Nat
    <3>1. Len(resultsCh') + 1 = Len(resultsCh) /\ Len(resultsCh') \in Nat
      BY <1>2, <2>1
    <3> QED BY <2>3, <3>1
  <2> QED BY <2>3, <2>4, <2>5, <2>6
<1>4. CASE IndexPage
  <2>1. flushFor = "none" /\ resultsCh # <<>> /\ resultsCh' = Tail(resultsCh)
    BY <1>4 DEF IndexPage, IndexPhases
  <2>2. \/ metrics' = [metrics EXCEPT !.IndexedDocs = @ + 1] /\ flushFor' = "batch"
        \/ metrics' = [metrics EXCEPT !.IndexedDocs = @ + 1, !.PagesProcessed = @ + 1] /\ flushFor' = flushFor
    BY <1>4 DEF IndexPage
  <2>3. /\ metrics'.IndexedDocs = metrics.IndexedDocs + 1
        /\ metrics'.PagesErrored = metrics.PagesErrored
        /\ \/ flushFor' = "batch" /\ metrics'.PagesProcessed = metrics.PagesProcessed
           \/ flushFor' = "none" /\ metrics'.PagesProcessed = metrics.PagesProcessed + 1
    BY <1>1, <2>1, <2>2 DEF Metrics
  <2>4. CountedPages' = CountedPages + 1 /\ CountedPages \in Nat
    BY <1>1, <2>3 DEF CountedPages
  <2>5. Processing' = Processing + 1 /\ Processing \in Nat
    BY <1>1, <2>1, <2>3 DEF Processing
  <2> QED BY <1>1, <1>2, <2>1, <2>3, <2>4, <2>5
<1>5. CASE IndexAppend
  <2>1. /\ metrics' = [metrics EXCEPT !.PagesProcessed = @ + (IF flushFor = "batch" THEN 1 ELSE 0)]
        /\ flushFor' = "none" /\ resultsCh' = resultsCh
    BY <1>5 DEF IndexAppend, chanVars
  <2>2. /\ metrics'.PagesProcessed = metrics.PagesProcessed + (IF flushFor = "batch" THEN 1 ELSE 0)
        /\ metrics'.IndexedDocs = metrics.IndexedDocs /\ metrics'.PagesErrored = metrics.PagesErrored
    BY <1>1, <2>1 DEF Metrics
  <2> QED BY <1>1, <2>1, <2>2 DEF CountedPages, Processing
<1>6. CASE IndexTick \/ IndexClosed \/ IndexSave
  <2>1. /\ metrics' = metrics /\ resultsCh' = resultsCh
        /\ flushFor' = flushFor \/ (flushFor = "none" /\ flushFor' # "batch")
    BY <1>6 DEF IndexTick, IndexClosed, IndexSave, IndexPhases, chanVars
  <2> QED BY <1>1, <2>1 DEF CountedPages, Processing
<1> QED BY <1>3, <1>4, <1>5, <1>6 DEF IndexerStep

\* The coordinator moves no fetch and counts none.
LEMMA CoordCounters ==
    ASSUME BaseInv, (StartStep \/ SelectStep) \/ Cancel
    PROVE  UNCHANGED <<Fetching, resultsCh, FetchLog>> /\ (flushFor' = flushFor)
<1>1. wpc \in [Workers -> WorkerPCs]
  BY DEF BaseInv, CountInv, TypeOK, WorkerTypeOK
<1>2. CASE Start
  <2>1. \A w \in Workers : wpc[w] # "fetch" /\ wpc'[w] # "fetch"
    BY <1>2 DEF BaseInv, Fresh, Start, Begin
  <2>2. resultsCh = <<>> /\ resultsCh' = <<>> /\ flushFor = "none" /\ flushFor' = "none" /\ fetched' = fetched
    BY <1>2 DEF BaseInv, Fresh, Start, Begin
  <2> QED BY <2>1, <2>2 DEF Fetching, FetchLog
<1>3. CASE (StartStep \/ SelectStep) /\ ~Start
  <2>1. UNCHANGED <<resultsCh, indexVars, fetched>> /\ (EnqueueSend \/ SendOverflow \/ UNCHANGED wpc)
    BY <1>3, CoordFrame
  <2>2. \A t : Send(t) => \A w \in Workers : wpc'[w] = "fetch" <=> wpc[w] = "fetch"
    BY <1>1 DEF Send
  <2>3. \A w \in Workers : wpc'[w] = "fetch" <=> wpc[w] = "fetch"
    BY <2>1, <2>2 DEF EnqueueSend, SendOverflow
  <2> QED BY <2>1, <2>3 DEF Fetching, FetchLog, indexVars
<1>4. CASE Cancel
  BY <1>4 DEF Cancel, Fetching, FetchLog, chanVars, workerVars, indexVars
<1> QED BY <1>2, <1>3, <1>4

\* Nor do the counters of the indexer change in its steps.
LEMMA CoordMetrics ==
    ASSUME BaseInv, (StartStep \/ SelectStep) \/ Cancel
    PROVE  /\ metrics'.PagesProcessed = metrics.PagesProcessed
           /\ metrics'.IndexedDocs = metrics.IndexedDocs
           /\ metrics'.PagesErrored = metrics.PagesErrored
<1>1. TypeOK /\ [Next]_vars
  BY DEF BaseInv, CountInv, Next
<1>2. CASE ~IndexerStep
  BY <1>1, <1>2, MetricsFrame
<1>3. ASSUME IndexerStep PROVE FALSE
  <2>1. resultsCh' # resultsCh \/ ipc' # ipc
    <3>1. \A q \in Seq(Record) : q # <<>> => Tail(q) # q
      <4> SUFFICES ASSUME NEW q \in Seq(Record), q # <<>> PROVE Len(Tail(q)) # Len(q)
        OBVIOUS
      <4> QED OBVIOUS
    <3> QED BY <1>1, <1>3, <3>1 DEF IndexerStep, IndexError, IndexPage, IndexTick, IndexClosed, IndexSave,
             IndexAppend, TypeOK, ChanTypeOK
  <2>2. ipc # "exit"
    BY <1>3 DEF IndexerStep, IndexError, IndexPage, IndexTick, IndexClosed, IndexSave, IndexAppend
  <2>3. UNCHANGED <<resultsCh, ipc>> \/ Start
    BY CoordFrame DEF Cancel, chanVars, indexVars
  <2> QED BY <2>1, <2>2, <2>3 DEF Start, BaseInv, Fresh
<1> QED BY <1>2, <1>3

\* A worker's and the indexer's step take each fetch from where it was to
\* where it is counted; no other step of a crawl touches a fetch or a count.
LEMMA KnownStep ==
    ASSUME BaseInv, IndexPhases, IsFiniteSet(FetchLog), [Next]_vars, TypeOK'
    PROVE  /\ IsFiniteSet(FetchLog') /\ Fetches' \in Nat /\ Fetches <= Fetches'
           /\ KnownFetches' + Fetches = KnownFetches + Fetches'
           /\ Processing' + CountedPages = Processing + CountedPages'
<1>1. TypeOK /\ CountInv
  BY DEF BaseInv, CountInv
<1>2. Fetches \in Nat /\ CountedPages \in Nat /\ Processing \in Nat /\ Uncounted \in Nat
  <2>1. /\ metrics.PagesProcessed \in Nat /\ metrics.IndexedDocs \in Nat
        /\ metrics.PagesErrored \in Nat
    BY <1>1, CounterNumbers
  <2>2. CountedPages \in Nat /\ Processing \in Nat
    BY <2>1 DEF CountedPages, Processing
  <2>3. Cardinality(Fetching) \in Nat /\ Len(resultsCh) \in Nat /\ Fetches \in Nat
    BY <1>1, CounterNumbers
  <2>4. Uncounted \in Nat
    BY <2>3 DEF Uncounted
  <2> QED BY <2>2, <2>3, <2>4
<1>3. Uncounted' \in Nat
  <2>1. resultsCh' \in Seq(Record)
    BY DEF TypeOK, ChanTypeOK
  <2>2. IsFiniteSet(Fetching')
    BY CrawlerAssumption, FS_Subset DEF Fetching
  <2>3. Len(resultsCh') \in Nat /\ Cardinality(Fetching') \in Nat
    BY <2>1, <2>2, FS_CardinalityType
  <2> QED BY <2>3 DEF Uncounted
<1>4. ASSUME NEW w \in Workers, WorkerStep(w)
      PROVE  /\ IsFiniteSet(FetchLog') /\ Fetches' \in Nat /\ Fetches <= Fetches'
             /\ KnownFetches' + Fetches = KnownFetches + Fetches'
             /\ Processing' + CountedPages = Processing + CountedPages'
  <2>1. IsFiniteSet(FetchLog') /\ Fetches' \in Nat /\ Fetches <= Fetches'
    BY <1>1, <1>4, WorkerCounters
  <2>2. Fetches' \in Nat /\ Uncounted' + Fetches = Uncounted + Fetches'
    BY <1>1, <1>4, WorkerCounters
  <2>3. Processing' = Processing /\ CountedPages' = CountedPages
    BY <1>4, WorkerFrame DEF indexVars, Processing, CountedPages
  <2>4. KnownFetches' = CountedPages + Uncounted' /\ KnownFetches = CountedPages + Uncounted
    BY <2>3 DEF KnownFetches
  <2>5. KnownFetches' + Fetches = KnownFetches + Fetches'
    BY <1>2, <1>3, <2>2, <2>4
  <2> QED BY <2>1, <2>3, <2>5
<1>5. CASE IndexerStep
  <2>1. FetchLog' = FetchLog /\ Fetching' = Fetching
    BY <1>5, IndexerFrame DEF FetchLog, Fetching, workerVars
  <2>2. Fetches' = Fetches
    BY <2>1 DEF Fetches
  <2>3. Processing' + CountedPages = Processing + CountedPages'
    BY <1>1, <1>5, IndexerCounters
  <2>4. CountedPages' + Len(resultsCh') = CountedPages + Len(resultsCh) /\ CountedPages' \in Nat
    BY <1>1, <1>5, IndexerCounters
  <2>5. /\ KnownFetches = CountedPages + (Cardinality(Fetching) + Len(resultsCh))
        /\ KnownFetches' = CountedPages' + (Cardinality(Fetching) + Len(resultsCh'))
    BY <2>1 DEF KnownFetches, Uncounted
  <2>6. Cardinality(Fetching) \in Nat /\ Len(resultsCh) \in Nat /\ Len(resultsCh') \in Nat
    <3>1. resultsCh' \in Seq(Record)
      BY DEF TypeOK, ChanTypeOK
    <3> QED BY <1>1, <3>1, CounterNumbers
  <2>7. KnownFetches' = KnownFetches
    BY <1>2, <2>4, <2>5, <2>6
  <2>8. Fetches <= Fetches'
    BY <1>2, <2>2
  <2> QED BY <1>2, <2>1, <2>2, <2>3, <2>7, <2>8
<1>6. CASE (StartStep \/ SelectStep) \/ Cancel
  <2>1. UNCHANGED <<Fetching, resultsCh, FetchLog>> /\ flushFor' = flushFor
    BY <1>6, CoordCounters
  <2>2. /\ metrics'.PagesProcessed = metrics.PagesProcessed
        /\ metrics'.IndexedDocs = metrics.IndexedDocs
        /\ metrics'.PagesErrored = metrics.PagesErrored
    BY <1>6, CoordMetrics
  <2>3. /\ Fetches' = Fetches /\ CountedPages' = CountedPages /\ Processing' = Processing
        /\ KnownFetches' = KnownFetches
    BY <2>1, <2>2 DEF Fetches, Uncounted, CountedPages, Processing, KnownFetches
  <2>4. Fetches <= Fetches'
    BY <1>2, <2>3
  <2> QED BY <1>2, <2>1, <2>3, <2>4
<1>7. CASE UNCHANGED vars
  <2>1. UNCHANGED <<fetched, resultsCh, wpc, flushFor, metrics>>
    BY <1>7 DEF vars, chanVars, workerVars, indexVars
  <2>2. /\ FetchLog' = FetchLog /\ Fetches' = Fetches /\ CountedPages' = CountedPages
        /\ Processing' = Processing /\ KnownFetches' = KnownFetches
    BY <2>1 DEF FetchLog, Fetches, Uncounted, Fetching, CountedPages, Processing, KnownFetches
  <2>3. Fetches <= Fetches'
    BY <1>2, <2>2
  <2> QED BY <1>2, <2>2, <2>3
<1> QED BY <1>4, <1>5, <1>6, <1>7 DEF Next, Terminated

\* A step of the crawl counts as it should.
LEMMA CrawlCounters ==
    ASSUME SessionInv, SessionCounters, CrawlStep
    PROVE  SessionCounters'
<1>1. /\ BaseInv /\ TypeOK /\ TypeOK' /\ [Next]_vars /\ proc = "run"
      /\ UNCHANGED <<proc, row, crashes>>
  <2>1. BaseInv /\ [Next]_vars /\ proc = "run" /\ UNCHANGED <<proc, row, crashes>>
    BY CrawlStepIsNext DEF CrawlStep, SessionInv
  <2> QED BY <2>1, BaseStep DEF BaseInv, CountInv
<1>2. IndexPhases /\ IndexPhases' /\ IsFiniteSet(FetchLog)
  BY <1>1, IndexPhasesStep DEF SessionCounters
<1>3. IsFiniteSet(FetchLog')
  BY <1>1, <1>2, KnownStep
<1>4. KnownFetches \in Nat /\ Fetches \in Nat /\ CountedPages \in Nat /\ Processing \in Nat
  BY <1>1, <1>2, CounterNumbers, SumNumbers
<1>5. KnownFetches' \in Nat /\ Fetches' \in Nat /\ CountedPages' \in Nat /\ Processing' \in Nat
  <2>1. (TypeOK => KnownFetches \in Nat /\ CountedPages \in Nat /\ Processing \in Nat)'
    BY SumNumbers, PTL
  <2>2. Fetches' \in Nat
    BY <1>1, <1>2, KnownStep
  <2> QED BY <1>1, <2>1, <2>2
<1>6. CountedInRow' = CountedInRow /\ row' = row /\ NothingForgotten' = NothingForgotten
  BY <1>1 DEF CountedInRow, NothingForgotten
<1>7. row'.PagesProcessed <= CountedInRow' /\ CountedInRow' <= Fetches'
  <2>1. row.PagesProcessed <= CountedInRow /\ CountedInRow <= Fetches
    BY DEF SessionCounters
  <2>2. CountedInRow \in Nat
    <3>1. row \in Rows
      BY SessionTypes
    <3>2. row.IndexedDocs \in Nat /\ row.PagesErrored \in Nat
      BY <3>1 DEF Rows
    <3> QED BY <3>2 DEF CountedInRow
  <2>3. Fetches <= Fetches'
    BY <1>1, <1>2, KnownStep
  <2>4. CountedInRow <= Fetches'
    BY <1>4, <1>5, <2>1, <2>2, <2>3
  <2> QED BY <1>6, <2>1, <2>4
<1>8. /\ Processing' + CountedPages = Processing + CountedPages'
      /\ KnownFetches' + Fetches = KnownFetches + Fetches'
  BY <1>1, <1>2, KnownStep
<1>9. Processing' <= CountedPages' /\ KnownFetches' <= Fetches'
  <2>1. Processing <= CountedPages /\ KnownFetches <= Fetches
    BY <1>1 DEF SessionCounters
  <2> QED BY <1>4, <1>5, <1>8, <2>1
<1>10. NothingForgotten' => Processing' = CountedPages' /\ KnownFetches' = Fetches'
  <2> SUFFICES ASSUME NothingForgotten' PROVE Processing' = CountedPages' /\ KnownFetches' = Fetches'
    OBVIOUS
  <2>1. Processing = CountedPages /\ KnownFetches = Fetches
    BY <1>1, <1>6 DEF SessionCounters
  <2> QED BY <1>4, <1>5, <1>8, <2>1
<1> QED BY <1>1, <1>2, <1>3, <1>7, <1>9, <1>10 DEF SessionCounters

\* What a crawl starts with is what the row counted.
LEMMA ResumeCounters ==
    ASSUME SessionInv, SessionCounters, ResumeCrawlByID
    PROVE  SessionCounters'
<1>1. /\ proc = "none" /\ proc' = "run" /\ UNCHANGED <<fetched, crashes>> /\ metrics' = ResumeMetrics
      /\ flushFor' = "none" /\ ipc' = "select" /\ pc' = "top" /\ resultsCh' = <<>>
      /\ wpc' = [w \in Workers |-> "recv"]
  BY DEF ResumeCrawlByID, Begin
<1>2. row' = row \/ row' = [row EXCEPT !.status = "running"]
  BY TxEither DEF ResumeCrawlByID
<1>3. row \in Rows /\ IsFiniteSet(FetchLog) /\ Fetches \in Nat
  BY SessionTypes, CounterNumbers DEF SessionCounters
<1>4. row.PagesProcessed \in Nat /\ row.IndexedDocs \in Nat /\ row.PagesErrored \in Nat
  BY <1>3 DEF Rows
<1>5. /\ row'.PagesProcessed = row.PagesProcessed /\ row'.IndexedDocs = row.IndexedDocs
      /\ row'.PagesErrored = row.PagesErrored
  BY <1>2, <1>3 DEF Rows
<1>6. FetchLog' = FetchLog /\ Fetches' = Fetches
  BY <1>1 DEF FetchLog, Fetches
<1>7. Uncounted' = 0
  <2>1. Fetching' = {}
    BY <1>1 DEF Fetching
  <2>2. Cardinality(Fetching') = 0 /\ Len(resultsCh') = 0
    BY <1>1, <2>1, FS_EmptySet
  <2> QED BY <2>2 DEF Uncounted
<1>8. /\ metrics'.PagesProcessed = row.PagesProcessed /\ metrics'.IndexedDocs = row.IndexedDocs
      /\ metrics'.PagesErrored = row.PagesErrored
  BY <1>1, <1>4 DEF ResumeMetrics, ZeroMetrics
<1>9. /\ Processing' = row.PagesProcessed /\ CountedPages' = CountedInRow /\ CountedInRow' = CountedInRow
      /\ CountedInRow \in Nat /\ KnownFetches' = CountedInRow
  BY <1>1, <1>4, <1>5, <1>7, <1>8 DEF Processing, CountedPages, CountedInRow, KnownFetches
<1>10. IndexPhases'
  BY <1>1 DEF IndexPhases
<1>11. NothingForgotten' = NothingForgotten
  BY <1>1 DEF NothingForgotten
<1> QED BY <1>1, <1>3, <1>4, <1>5, <1>6, <1>9, <1>10, <1>11 DEF SessionCounters

\* A crash keeps the counters of the row behind; a crawl that has ended has
\* counted everything, and finishSession writes it.
LEMMA EndCounters ==
    ASSUME SessionInv, SessionCounters, FinishSession \/ Crash
    PROVE  SessionCounters'
<1>1. /\ proc = "run" /\ proc' = "none" /\ UNCHANGED fetched /\ BaseInv /\ TypeOK /\ row \in Rows
      /\ metrics \in Metrics
  BY SessionTypes DEF SessionInv, FinishSession, Crash, vars, workerVars
<1>2. /\ IsFiniteSet(FetchLog) /\ Fetches \in Nat /\ CountedPages \in Nat /\ Uncounted \in Nat
      /\ metrics.PagesProcessed \in Nat /\ metrics.IndexedDocs \in Nat /\ metrics.PagesErrored \in Nat
  BY <1>1, CounterNumbers DEF SessionCounters, CountedPages, Uncounted
<1>3. FetchLog' = FetchLog /\ Fetches' = Fetches
  BY <1>1 DEF FetchLog, Fetches
<1>4. /\ Processing \in Nat /\ metrics.PagesProcessed <= Processing
      /\ Processing <= CountedPages /\ CountedPages <= Fetches
      /\ row.PagesProcessed <= CountedInRow /\ CountedInRow <= Fetches
  <2>1. Processing \in Nat /\ metrics.PagesProcessed <= Processing
    BY <1>2 DEF Processing
  <2>2. CountedPages <= KnownFetches /\ KnownFetches \in Nat
    BY <1>2 DEF KnownFetches
  <2>3. CountedPages <= Fetches
    BY <1>1, <1>2, <2>2 DEF SessionCounters
  <2> QED BY <1>1, <2>1, <2>3 DEF SessionCounters
<1>5. ASSUME row' = row \/ \E s \in Statuses : row' = RowOf(s, metrics)
      PROVE  row'.PagesProcessed <= CountedInRow' /\ CountedInRow' <= Fetches'
  <2>1. CASE row' = row
    BY <1>3, <1>4, <2>1 DEF CountedInRow
  <2>2. CASE \E s \in Statuses : row' = RowOf(s, metrics)
    <3>1. row'.PagesProcessed = metrics.PagesProcessed /\ CountedInRow' = CountedPages
      BY <2>2 DEF RowOf, CountedInRow, CountedPages
    <3> QED BY <1>2, <1>3, <1>4, <3>1
  <2> QED BY <1>5, <2>1, <2>2
<1>6. CASE Crash
  <2>1. crashes' = crashes + 1 /\ (row' = row \/ row' = RowOf(row.status, metrics))
    BY <1>6 DEF Crash
  <2>2. crashes' # 0 /\ row.status \in Statuses
    BY <2>1, SessionTypes
  <2> QED BY <1>1, <1>2, <1>3, <1>5, <2>1, <2>2 DEF SessionCounters, NothingForgotten
<1>7. CASE FinishSession
  <2> DEFINE s == IF metrics.StopReason = "stopped" THEN "stopped" ELSE "completed"
  <2>1. s \in Statuses
    BY DEF Statuses
  <2>2. row' \in Tx(RowOf(s, metrics), row) /\ pc = "done" /\ crashes' = crashes
    BY <1>7 DEF FinishSession
  <2> HIDE DEF s
  <2>3. row' = row \/ \E x \in Statuses : row' = RowOf(x, metrics)
    BY <2>1, <2>2, TxEither
  <2>4. ASSUME NothingForgotten' PROVE row'.PagesProcessed = CountedInRow' /\ CountedInRow' = Fetches'
    <3>1. NothingForgotten /\ row' = RowOf(s, metrics)
      BY <2>2, <2>4 DEF NothingForgotten, Tx
    <3>2. Uncounted = 0
      <4>1. IndexPhases /\ ipc = "exit" /\ resultsCh = <<>>
        BY <1>1, <2>2 DEF SessionCounters, IndexPhases
      <4>2. Fetching = {}
        BY <1>1, <2>2 DEF BaseInv, Phases, Fetching
      <4>3. Cardinality(Fetching) = 0 /\ Len(resultsCh) = 0
        BY <4>1, <4>2, FS_EmptySet
      <4> QED BY <4>3 DEF Uncounted
    <3>3. Processing = metrics.PagesProcessed
      BY <1>1, <1>2, <2>2 DEF SessionCounters, IndexPhases, Processing
    <3>4. Processing = CountedPages /\ KnownFetches = Fetches
      BY <1>1, <3>1 DEF SessionCounters
    <3>5. row'.PagesProcessed = metrics.PagesProcessed /\ CountedInRow' = CountedPages
      BY <3>1 DEF RowOf, CountedInRow, CountedPages
    <3>6. CountedPages = Fetches
      BY <1>2, <3>2, <3>4 DEF KnownFetches
    <3> QED BY <1>3, <3>3, <3>4, <3>5, <3>6
  <2> QED BY <1>1, <1>2, <1>3, <1>5, <2>3, <2>4 DEF SessionCounters
<1> QED BY <1>6, <1>7

\* Every step of a session counts as it should.
LEMMA CountersStep == SessionInv /\ SessionCounters /\ [SessionNext]_allVars => SessionCounters'
<1> SUFFICES ASSUME SessionInv, SessionCounters, [SessionNext]_allVars PROVE SessionCounters'
  OBVIOUS
<1>1. CASE CrawlStep
  BY <1>1, CrawlCounters
<1>2. CASE ResumeCrawlByID
  BY <1>2, ResumeCounters
<1>3. CASE FinishSession \/ Crash
  BY <1>3, EndCounters
<1>4. CASE MarkStopped
  <2>1. /\ proc' = "none" /\ proc = "none" /\ UNCHANGED <<fetched, crashes>>
        /\ row' = row \/ row' = [row EXCEPT !.status = "stopped"]
    BY <1>4, TxEither DEF MarkStopped, vars, workerVars
  <2>2. row'.PagesProcessed = row.PagesProcessed /\ CountedInRow' = CountedInRow
    BY <2>1, SessionTypes DEF Rows, CountedInRow
  <2>3. FetchLog' = FetchLog /\ Fetches' = Fetches /\ NothingForgotten' = NothingForgotten
    BY <2>1 DEF FetchLog, Fetches, NothingForgotten
  <2> QED BY <2>1, <2>2, <2>3 DEF SessionCounters
<1>5. CASE SessionOver \/ UNCHANGED allVars
  <2>1. UNCHANGED <<pc, ipc, flushFor, pending, resultsCh, wpc, fetched, metrics, proc, row, crashes>>
    BY <1>5 DEF SessionOver, allVars, sessionVars, vars, coordVars, chanVars, workerVars, indexVars
  <2>2. /\ FetchLog' = FetchLog /\ Fetches' = Fetches /\ NothingForgotten' = NothingForgotten
        /\ Processing' = Processing /\ CountedPages' = CountedPages /\ CountedInRow' = CountedInRow
    BY <2>1 DEF FetchLog, Fetches, NothingForgotten, Processing, CountedPages, CountedInRow
  <2>3. KnownFetches' = KnownFetches /\ (IndexPhases' <=> IndexPhases)
    BY <2>1, <2>2 DEF KnownFetches, Uncounted, Fetching, IndexPhases
  <2> QED BY <2>1, <2>2, <2>3 DEF SessionCounters
<1> QED BY <1>1, <1>2, <1>3, <1>4, <1>5 DEF SessionNext

\* Over all crawls of a session the row counts every fetch at most once, and
\* exactly once between crawls when no crash and no failing write intervened:
\* restoring the counters into a resumed crawl neither loses nor doubles any.
THEOREM CountersAreCumulative == SessionSpec => []CumulativeCounters
<1>1. SessionInit => SessionCounters
  <2> SUFFICES ASSUME SessionInit PROVE SessionCounters
    OBVIOUS
  <2>1. Init /\ row = RowOf("running", ZeroMetrics) /\ proc = "run"
    BY DEF SessionInit
  <2>2. FetchLog = {} /\ Fetching = {} /\ resultsCh = <<>>
    BY <2>1 DEF Init, FetchLog, Fetching
  <2>3. IsFiniteSet(FetchLog) /\ Fetches = 0 /\ Uncounted = 0
    <3>1. Len(resultsCh) = 0
      BY <2>2
    <3> QED BY <2>2, <3>1, FS_EmptySet DEF Fetches, Uncounted
  <2>4. IndexPhases /\ flushFor = "none" /\ metrics = ZeroMetrics
    BY <2>1 DEF Init, IndexPhases
  <2>5. CountedPages = 0 /\ Processing = 0 /\ CountedInRow = 0 /\ row.PagesProcessed = 0
        /\ KnownFetches = 0
    BY <2>1, <2>3, <2>4 DEF KnownFetches, CountedPages, Processing, CountedInRow, RowOf, ZeroMetrics
  <2> QED BY <2>1, <2>3, <2>4, <2>5 DEF SessionCounters
<1>2. SessionInv /\ SessionCounters => CumulativeCounters
  <2> SUFFICES ASSUME SessionInv, SessionCounters PROVE CumulativeCounters
    OBVIOUS
  <2>1. row \in Rows /\ Fetches \in Nat
    BY SessionTypes, CounterNumbers DEF SessionCounters
  <2>2. row.PagesProcessed \in Nat /\ CountedInRow \in Nat
    BY <2>1 DEF Rows, CountedInRow
  <2>3. row.PagesProcessed <= Fetches
    BY <2>1, <2>2 DEF SessionCounters
  <2>4. proc = "none" /\ crashes = 0 /\ ~DBMayFail => row.PagesProcessed = Fetches /\ Fetches = CountedInRow
    BY DEF SessionCounters, NothingForgotten
  <2> QED BY <2>3, <2>4 DEF CumulativeCounters, Fetches, CountedInRow
<1> QED BY <1>1, <1>2, SessionInvAlways, CountersStep, PTL DEF SessionSpec


-----------------------------------------------------------------------------
(* Nothing that should be fetched is forgotten *)

\* A session of one seed without an URL limit, whose pages fail only when the
\* crawl is stopped, and whose writes do not fail.
Undisturbed == ~DBMayFail /\ MaxURLs = 0 /\ Len(Seeds) = 1 /\ Flaky = {}

Seed == Head(Seeds)

\* What the session has marked besides the seed; what a resume goes by.
Marked == dbVisited \cup newVisited

\* The tasks that some goroutine still has.
Ahead == Drainable \cup Range(newTasks) \cup Range(batch)

\* A URL was fetched, or was dropped, or somebody has a task for it that
\* deduplicateAndMark will not pass over for its depth.
KnownUrl(v) ==
    \/ fetched[v] # <<>>
    \/ v \in dropped
    \/ \E x \in Ahead : x.url = v /\ (v \in visited \/ x.depth <= MaxDepth)

\* Where a crawl ends: the tables hold what a resume needs, and the row says
\* "completed" only of a crawl that was not stopped.
EndSaved ==
    /\ proc = "none" => pc = "done"
    /\ proc = "none" /\ row.status = "completed" => ~cancelled
    /\ pc = "done" /\ cancelled => metrics.StopReason = "stopped"
    /\ pc \in {"clearQueue", "wait", "resultsClosed", "done"} => newVisited = {}
    /\ pc \in {"saveVisited", "wait", "resultsClosed", "done"} => dbQueue = overflow

\* The limit is never waited for; the marks and the tables agree.
MarksKept ==
    /\ pc # "limit"
    /\ pc # "start" => Marked \subseteq visited /\ visited \subseteq Marked \cup {Seed}

\* A marked URL was fetched, or dropped, or is still ahead; before a stop,
\* where a worker or the coordinator will take it up.
VisitedKept ==
    /\ \A v \in visited : KnownUrl(v)
    /\ ~cancelled => \A v \in visited : fetched[v] # <<>> \/ v \in dropped \/ v \in Handed \cup WaitUrls

\* A fetch that goes on has been written into the history.
FetchKnown ==
    \A w \in Workers : wpc[w] = "fetch" =>
        \E i \in DOMAIN fetched[wtask[w].url] : fetched[wtask[w].url][i] = wtask[w].depth

\* The seed is fetched first: before it is, nothing but the seed is known, and
\* before anything is marked nothing else is fetched.
SeedFirst ==
    /\ Marked = {} => FetchedUrls \subseteq {Seed} /\ \A x \in Live : x.url = Seed
    /\ fetched[Seed] = <<>> =>
        Marked = {} /\ (\A x \in Ahead : x.url = Seed) /\ (pc # "start" => visited = {Seed})

\* As long as a session has marked nothing, a resume begins at the seed again:
\* its links need not be ahead, if the seed itself is.
SeedAhead ==
    /\ Marked = {} /\ visited = {Seed} /\ \A x \in Ahead : x.url = Seed
    /\ ~cancelled => Seed \in Handed \cup WaitUrls \/ \E w \in Workers : wpc[w] = "fetch"

AboveLimit(u) == \A i \in DOMAIN fetched[u] : fetched[u][i] < MaxDepth
Followed(u) == \A v \in Range(Links[u]) : KnownUrl(v)

\* Of every page fetched with success above the depth limit, all links are
\* known, whichever crawl of the session fetched it.
LinksKept ==
    \A u \in URLs : OkPage(u) =>
        /\ u \in FetchedUrls
        /\ AboveLimit(u) => Followed(u) \/ (u = Seed /\ SeedAhead)

Closure == BaseInv /\ EndSaved /\ MarksKept /\ VisitedKept /\ FetchKnown /\ SeedFirst /\ LinksKept

\* A crash ends it: only a stop saves what is ahead.
ClosureInv == Undisturbed /\ crashes = 0 => Closure

\* The only seed.
LEMMA OneSeed ==
    ASSUME Undisturbed
    PROVE  /\ Seed \in URLs /\ SeedSet = {Seed} /\ OriginTask = [url |-> Seed, depth |-> 0]
           /\ \A x \in Range(SeedQueue) : x.url = Seed
<1>1. Seeds \in Seq(URLs) /\ Len(Seeds) = 1
  BY CrawlerAssumption DEF Undisturbed
<1>2. DOMAIN Seeds = {1} /\ Seeds[1] \in URLs /\ Seed = Seeds[1]
  BY <1>1 DEF Seed
<1>3. SeedSet = {Seed}
  BY <1>2 DEF SeedSet, Range
<1> QED BY <1>2, <1>3, SeedQueueUrls DEF OriginTask, Seed

\* The tasks ahead, part by part.
LEMMA AheadParts ==
    /\ Ahead = Range(overflow) \cup Range(taskCh) \cup Answered \cup ToAnswer
                   \cup {wtask[w] : w \in Checking} \cup Range(newTasks) \cup Range(batch)
    /\ Ahead' = Range(overflow') \cup Range(taskCh') \cup Answered' \cup ToAnswer'
                   \cup {wtask[w] : w \in Checking}' \cup Range(newTasks') \cup Range(batch')
BY DrainableParts DEF Ahead

\* The tasks of goroutines that do not move.
LEMMA AheadFrame ==
    ASSUME UNCHANGED <<wpc, wtask, taskCh, discoveredCh>>
    PROVE  /\ Range(taskCh') = Range(taskCh) /\ Answered' = Answered /\ ToAnswer' = ToAnswer
           /\ {wtask[w] : w \in Checking}' = {wtask[w] : w \in Checking}
BY DEF Answered, ToAnswer, Busy, Answer, Checking, LinkTasks

\* The tasks ahead are tasks.
LEMMA AheadType == ASSUME BaseInv, NEW x \in Ahead PROVE x \in Task /\ x.url \in URLs /\ x.depth \in Nat
<1>1. /\ overflow \in Seq(Task) /\ taskCh \in Seq(Task) /\ newTasks \in Seq(Task) /\ batch \in Seq(Task)
      /\ discoveredCh \in Seq(Seq(Task)) /\ CountInv
  BY DEF BaseInv, CountInv, TypeOK, CoordTypeOK, ChanTypeOK
<1>2. \A q \in Seq(Task) : Range(q) \subseteq Task
  BY DEF Range
<1>3. x \in Answered => x \in Task
  BY <1>1, <1>2 DEF Answered
<1>4. ASSUME x \in ToAnswer PROVE x \in Task
  <2>1. PICK w \in Busy : x \in Range(Answer(w))
    BY <1>4 DEF ToAnswer
  <2>2. Answer(w) \in Seq(Task)
    BY <1>1, AnswerType
  <2> QED BY <1>2, <2>1, <2>2
<1>5. x \in {wtask[w] : w \in Checking} => x \in Task
  BY <1>1 DEF Checking, CountInv, HeldTasks, Busy
<1>6. x \in Task
  BY <1>1, <1>2, <1>3, <1>4, <1>5, AheadParts
<1> QED BY <1>6 DEF Task

\* What the coordinator or a worker will take up is ahead.
LEMMA HandedAhead == ASSUME NEW v \in Handed \cup WaitUrls PROVE \E x \in Ahead : x.url = v
<1>1. CASE v \in Urls(taskCh) \cup Urls(overflow) \cup Urls(newTasks)
  BY <1>1, UrlsOfRange, AheadParts
<1>2. CASE v \in CheckUrls
  BY <1>2, AheadParts DEF CheckUrls
<1> QED BY <1>1, <1>2 DEF Handed, WaitUrls

\* A worker's step leaves every task ahead except one that it fetches, and adds
\* only the links of a page it fetched.
LEMMA AheadWorker ==
    ASSUME CountInv, NEW w \in Workers, WorkerStep(w)
    PROVE  /\ \/ Ahead \subseteq Ahead'
              \/ WorkerFetch(w) /\ Ahead \subseteq Ahead' \cup {wtask[w]}
           /\ \/ Ahead' \subseteq Ahead
              \/ WorkerResult(w) /\ wpc'[w] = "found" /\ Ahead' \subseteq Ahead \cup Range(LinkTasks(wtask[w]))
<1>1. /\ taskCh \in Seq(Task) /\ wpc \in [Workers -> WorkerPCs] /\ wtask \in [Workers -> Task \cup {NoTask}]
      /\ discoveredCh \in Seq(Seq(Task))
  BY DEF CountInv, TypeOK, ChanTypeOK, WorkerTypeOK
<1>2. overflow' = overflow /\ newTasks' = newTasks /\ batch' = batch
  BY WorkerFrame DEF coordVars
<1>3. \/ Ahead \subseteq Ahead'
      \/ WorkerFetch(w) /\ Ahead \subseteq Ahead' \cup {wtask[w]}
  BY <1>2, DrainWorker DEF Ahead
<1>4. \A v \in Workers : v # w => /\ wpc'[v] = wpc[v] /\ wtask'[v] = wtask[v]
                                  /\ (v \in Busy <=> v \in Busy') /\ (v \in Checking <=> v \in Checking')
  BY <1>1 DEF WorkerStep, WorkerRecv, WorkerExit, WorkerGiveBack, WorkerFetch, WorkerResult, WorkerAnswer,
     Busy, Checking
<1>5. \A v \in Workers : v # w => Answer(v)' = Answer(v)
  BY <1>4 DEF Answer, LinkTasks
<1>6. ASSUME NEW x \in ToAnswer', x \notin ToAnswer PROVE w \in Busy' /\ x \in Range(Answer(w)')
  <2>1. PICK v \in Busy' : x \in Range(Answer(v)')
    BY DEF ToAnswer
  <2>2. v \in Workers
    BY <2>1 DEF Busy
  <2> QED BY <1>4, <1>5, <1>6, <2>1, <2>2 DEF ToAnswer
<1>7. ASSUME NEW x \in {wtask[v] : v \in Checking}', x \notin {wtask[v] : v \in Checking}
      PROVE  w \in Checking' /\ x = wtask'[w]
  BY <1>4, <1>7 DEF Checking
<1>8. CASE WorkerRecv(w)
  <2>1. /\ taskCh # <<>> /\ taskCh' = Tail(taskCh) /\ wpc[w] = "recv" /\ wpc'[w] = "check"
        /\ wtask'[w] = Head(taskCh) /\ discoveredCh' = discoveredCh
    BY <1>1, <1>8 DEF WorkerRecv
  <2>2. Range(taskCh) = Range(taskCh') \cup {wtask'[w]} /\ Answer(w)' = <<>>
    BY <1>1, <2>1, QueueTail DEF Answer
  <2>3. Answered' = Answered /\ ToAnswer' \subseteq ToAnswer
    BY <1>6, <2>1, <2>2, EmptyQueue DEF Answered
  <2> QED BY <1>2, <1>3, <1>7, <2>2, <2>3, AheadParts
<1>9. CASE WorkerExit(w) \/ WorkerFetch(w)
  <2>1. /\ UNCHANGED <<taskCh, discoveredCh>> /\ wpc'[w] \in {"exit", "fetch"}
    BY <1>1, <1>9 DEF WorkerExit, WorkerFetch, chanVars
  <2>2. Answer(w)' = <<>> /\ w \notin Checking'
    BY <2>1 DEF Answer, Checking
  <2>3. Answered' = Answered /\ ToAnswer' \subseteq ToAnswer
    BY <1>6, <2>1, <2>2, EmptyQueue DEF Answered
  <2> QED BY <1>2, <1>3, <1>7, <2>1, <2>2, <2>3, AheadParts
<1>10. CASE WorkerGiveBack(w)
  <2>1. wpc[w] = "check" /\ wpc'[w] = "return" /\ UNCHANGED <<taskCh, discoveredCh, wtask>>
    BY <1>1, <1>10 DEF WorkerGiveBack, chanVars
  <2>2. Answer(w)' = <<wtask[w]>> /\ w \notin Checking' /\ wtask[w] \in {wtask[v] : v \in Checking}
    BY <2>1 DEF Answer, Checking
  <2>3. Range(<<wtask[w]>>) = {wtask[w]}
    BY DEF Range
  <2>4. Answered' = Answered /\ ToAnswer' \subseteq ToAnswer \cup {wtask[w]}
    BY <1>6, <2>1, <2>2, <2>3 DEF Answered
  <2>5. {wtask[v] : v \in Checking}' \subseteq {wtask[v] : v \in Checking}
    BY <1>7, <2>2
  <2>6. Ahead' \subseteq Ahead
    BY <1>2, <2>1, <2>2, <2>4, <2>5, AheadParts
  <2> QED BY <1>3, <2>6
<1>11. CASE WorkerResult(w)
  <2>1. wpc[w] = "fetch" /\ wpc'[w] \in {"found", "failed"} /\ UNCHANGED <<taskCh, discoveredCh, wtask>>
    BY <1>1, <1>11 DEF WorkerResult
  <2>2. Answer(w)' = (IF wpc'[w] = "found" THEN LinkTasks(wtask[w]) ELSE <<>>) /\ w \notin Checking'
    BY <2>1 DEF Answer, Checking, LinkTasks
  <2>3. Answered' = Answered
    BY <2>1 DEF Answered
  <2>4. ToAnswer' \subseteq ToAnswer \cup (IF wpc'[w] = "found" THEN Range(LinkTasks(wtask[w])) ELSE {})
    BY <1>6, <2>2, EmptyQueue
  <2>5. {wtask[v] : v \in Checking}' \subseteq {wtask[v] : v \in Checking}
    BY <1>7, <2>2
  <2>6. Ahead' \subseteq Ahead \cup (IF wpc'[w] = "found" THEN Range(LinkTasks(wtask[w])) ELSE {})
    BY <1>2, <2>1, <2>3, <2>4, <2>5, AheadParts
  <2> QED BY <1>3, <1>11, <2>6
<1>12. CASE WorkerAnswer(w)
  <2>1. /\ w \in Busy /\ wpc'[w] = "recv" /\ discoveredCh' = Append(discoveredCh, Answer(w))
        /\ taskCh' = taskCh
    BY <1>1, <1>12 DEF WorkerAnswer, Busy
  <2>2. Answered' = Answered \cup Range(Answer(w)) /\ w \notin Busy' /\ w \notin Checking'
    BY <1>1, <2>1, AnswerType, AnsweredAppend DEF Busy, Checking
  <2>3. ToAnswer' \subseteq ToAnswer /\ Range(Answer(w)) \subseteq ToAnswer
    BY <1>6, <2>1, <2>2 DEF ToAnswer
  <2> QED BY <1>2, <1>3, <1>7, <2>1, <2>2, <2>3, AheadParts
<1> QED BY <1>8, <1>9, <1>10, <1>11, <1>12 DEF WorkerStep


\* A task sent to taskCh, or straight to a worker, is ahead.
LEMMA SendAhead ==
    ASSUME CountInv, NEW t \in Task, Send(t)
    PROVE  /\ Range(taskCh') \cup {wtask[w] : w \in Checking}'
                  = Range(taskCh) \cup {wtask[w] : w \in Checking} \cup {t}
           /\ ToAnswer' = ToAnswer
<1>1. taskCh \in Seq(Task) /\ wpc \in [Workers -> WorkerPCs] /\ wtask \in [Workers -> Task \cup {NoTask}]
  BY DEF CountInv, TypeOK, ChanTypeOK, WorkerTypeOK
<1>2. CASE taskCh' = Append(taskCh, t) /\ UNCHANGED <<wpc, wtask>>
  <2>1. Range(taskCh') = Range(taskCh) \cup {t}
    BY <1>1, <1>2, QueueAppend
  <2>2. {wtask[w] : w \in Checking}' = {wtask[w] : w \in Checking} /\ ToAnswer' = ToAnswer
    BY <1>2 DEF Checking, ToAnswer, Busy, Answer, LinkTasks
  <2> QED BY <2>1, <2>2
<1>3. ASSUME NEW w \in Workers, wpc[w] = "recv",
             wpc' = [wpc EXCEPT ![w] = "check"], wtask' = [wtask EXCEPT ![w] = t],
             UNCHANGED taskCh
      PROVE  /\ Range(taskCh') \cup {wtask[v] : v \in Checking}'
                    = Range(taskCh) \cup {wtask[v] : v \in Checking} \cup {t}
             /\ ToAnswer' = ToAnswer
  <2>1. wpc'[w] = "check" /\ wtask'[w] = t /\ \A v \in Workers : v # w => wpc'[v] = wpc[v] /\ wtask'[v] = wtask[v]
    BY <1>1, <1>3
  <2>2. /\ Checking' = Checking \cup {w} /\ w \notin Checking
        /\ Busy' = Busy \cup {w} /\ w \notin Busy /\ Busy \subseteq Workers
    BY <1>3, <2>1 DEF Checking, Busy
  <2>3. {wtask[v] : v \in Checking}' = {wtask[v] : v \in Checking} \cup {t}
    BY <2>1, <2>2 DEF Checking
  <2>4. Answer(w)' = <<>> /\ \A v \in Busy : Answer(v)' = Answer(v)
    BY <2>1, <2>2 DEF Answer, LinkTasks
  <2>5. ToAnswer' = ToAnswer
    BY <2>2, <2>4, EmptyQueue DEF ToAnswer
  <2> QED BY <1>3, <2>3, <2>5
<1> QED BY <1>2, <1>3 DEF Send

\* The coordinator loses no task that is ahead, except those it passes over, and
\* adds none.
LEMMA AheadCoord ==
    ASSUME Undisturbed, BaseInv, pc # "limit", StartStep \/ SelectStep, ~Start
    PROVE  /\ Ahead' \subseteq Ahead
           /\ \/ Ahead \subseteq Ahead'
              \/ DedupSkip /\ Ahead \subseteq Ahead' \cup {Head(batch)}
<1>1. /\ overflow \in Seq(Task) /\ newTasks \in Seq(Task) /\ batch \in Seq(Task) /\ CountInv
      /\ discoveredCh \in Seq(Seq(Task))
  BY DEF BaseInv, CountInv, TypeOK, CoordTypeOK, ChanTypeOK
<1>2. CASE \/ LoopExit \/ LoopSelect \/ PersistTick \/ CtxDone \/ BeginEnqueue \/ EnqueueDone \/ SaveQueue
           \/ SaveVisited \/ FinishFlush \/ FinishClear \/ CloseResults \/ Finish
  <2>1. UNCHANGED <<overflow, newTasks, batch, taskCh, discoveredCh, wpc, wtask>>
    BY <1>2 DEF LoopExit, LoopSelect, PersistTick, CtxDone, BeginEnqueue, EnqueueDone, SaveQueue,
       SaveVisited, FinishFlush, FinishClear, CloseResults, Finish, chanVars, workerVars
  <2> QED BY <2>1, AheadFrame, AheadParts
<1>3. ~(LoopLimit \/ LimitRecv \/ DedupBreak)
  BY DEF Undisturbed, LoopLimit, LimitRecv, DedupBreak, urlLimitReached, VisitedFull
<1>4. CASE SendOverflow
  <2>1. /\ overflow # <<>> /\ Send(Head(overflow)) /\ overflow' = Tail(overflow)
        /\ UNCHANGED <<newTasks, batch, discoveredCh>>
    BY <1>4 DEF SendOverflow, BaseInv, CountInv, OverflowAtSelect
  <2>2. Head(overflow) \in Task /\ Range(overflow) = Range(overflow') \cup {Head(overflow)}
    BY <1>1, <2>1, QueueTail
  <2>3. /\ Range(taskCh') \cup {wtask[w] : w \in Checking}'
              = Range(taskCh) \cup {wtask[w] : w \in Checking} \cup {Head(overflow)}
        /\ ToAnswer' = ToAnswer
    BY <1>1, <2>1, <2>2, SendAhead
  <2>4. Answered' = Answered
    BY <2>1 DEF Answered
  <2>5. Ahead' = Ahead
    BY <2>1, <2>2, <2>3, <2>4, AheadParts
  <2> QED BY <2>5
<1>5. CASE EnqueueSend
  <2>1. /\ newTasks # <<>> /\ Send(Head(newTasks)) /\ newTasks' = Tail(newTasks)
        /\ UNCHANGED <<overflow, batch, discoveredCh>>
    BY <1>5 DEF EnqueueSend
  <2>2. Head(newTasks) \in Task /\ Range(newTasks) = Range(newTasks') \cup {Head(newTasks)}
    BY <1>1, <2>1, QueueTail
  <2>3. /\ Range(taskCh') \cup {wtask[w] : w \in Checking}'
              = Range(taskCh) \cup {wtask[w] : w \in Checking} \cup {Head(newTasks)}
        /\ ToAnswer' = ToAnswer
    BY <1>1, <2>1, <2>2, SendAhead
  <2>4. Answered' = Answered
    BY <2>1 DEF Answered
  <2>5. Ahead' = Ahead
    BY <2>1, <2>2, <2>3, <2>4, AheadParts
  <2> QED BY <2>5
<1>6. CASE RecvBatch
  <2>1. /\ discoveredCh # <<>> /\ batch' = Head(discoveredCh) /\ discoveredCh' = Tail(discoveredCh)
        /\ newTasks' = <<>> /\ newTasks = <<>> /\ batch = <<>> /\ UNCHANGED <<overflow, taskCh, wpc, wtask>>
    BY <1>6 DEF RecvBatch, BaseInv, Phases, workerVars
  <2>2. Answered = Answered' \cup Range(batch')
    BY <1>1, <2>1, AnsweredTail
  <2>3. ToAnswer' = ToAnswer /\ {wtask[w] : w \in Checking}' = {wtask[w] : w \in Checking}
    BY <2>1 DEF ToAnswer, Busy, Answer, Checking, LinkTasks
  <2>4. Ahead' = Ahead
    BY <2>1, <2>2, <2>3, EmptyQueue, AheadParts
  <2> QED BY <2>4
<1>7. CASE DedupSkip
  <2>1. batch # <<>> /\ batch' = Tail(batch) /\ UNCHANGED <<overflow, newTasks, taskCh, discoveredCh, wpc, wtask>>
    BY <1>7 DEF DedupSkip, chanVars, workerVars
  <2>2. Range(batch) = Range(batch') \cup {Head(batch)}
    BY <1>1, <2>1, QueueTail
  <2>3. Ahead = Ahead' \cup {Head(batch)}
    BY <2>1, <2>2, AheadFrame, AheadParts
  <2> QED BY <1>7, <2>3
<1>8. CASE DedupMark
  <2>1. /\ batch # <<>> /\ batch' = Tail(batch) /\ newTasks' = Append(newTasks, Head(batch))
        /\ UNCHANGED <<overflow, taskCh, discoveredCh, wpc, wtask>>
    BY <1>8 DEF DedupMark, chanVars, workerVars
  <2>2. Range(batch) = Range(batch') \cup {Head(batch)} /\ Head(batch) \in Task
    BY <1>1, <2>1, QueueTail
  <2>3. Range(newTasks') = Range(newTasks) \cup {Head(batch)}
    BY <1>1, <2>1, <2>2, QueueAppend
  <2>4. Ahead' = Ahead
    BY <2>1, <2>2, <2>3, AheadFrame, AheadParts
  <2> QED BY <2>4
<1>9. CASE AppendNew
  <2>1. newTasks' = <<>> /\ overflow' = overflow \o newTasks /\ UNCHANGED <<batch, taskCh, discoveredCh, wpc, wtask>>
    BY <1>9 DEF AppendNew, chanVars, workerVars
  <2>2. Range(overflow') = Range(overflow) \cup Range(newTasks)
    BY <1>1, <2>1, QueueConcat
  <2>3. Ahead' = Ahead
    BY <2>1, <2>2, AheadFrame, AheadParts, EmptyQueue
  <2> QED BY <2>3
<1>10. CASE EnqueueOverflow
  <2>1. /\ newTasks # <<>> /\ newTasks' = Tail(newTasks) /\ overflow' = Append(overflow, Head(newTasks))
        /\ UNCHANGED <<batch, taskCh, discoveredCh, wpc, wtask>>
    BY <1>10 DEF EnqueueOverflow, chanVars, workerVars
  <2>2. Head(newTasks) \in Task /\ Range(newTasks) = Range(newTasks') \cup {Head(newTasks)}
    BY <1>1, <2>1, QueueTail
  <2>3. Range(overflow') = Range(overflow) \cup {Head(newTasks)}
    BY <1>1, <2>1, <2>2, QueueAppend
  <2>4. Ahead' = Ahead
    BY <2>1, <2>2, <2>3, AheadFrame, AheadParts
  <2> QED BY <2>4
<1>11. CASE DrainRecv
  <2>1. /\ discoveredCh # <<>> /\ overflow' = overflow \o Head(discoveredCh) /\ discoveredCh' = Tail(discoveredCh)
        /\ UNCHANGED <<newTasks, batch, taskCh, wpc, wtask>>
    BY <1>11 DEF DrainRecv, workerVars
  <2>2. Head(discoveredCh) \in Seq(Task)
    BY <1>1, <2>1
  <2>3. Range(overflow') = Range(overflow) \cup Range(Head(discoveredCh))
    BY <1>1, <2>1, <2>2, QueueConcat
  <2>4. Answered = Answered' \cup Range(Head(discoveredCh))
    BY <1>1, <2>1, AnsweredTail
  <2>5. ToAnswer' = ToAnswer /\ {wtask[w] : w \in Checking}' = {wtask[w] : w \in Checking}
    BY <2>1 DEF ToAnswer, Busy, Answer, Checking, LinkTasks
  <2>6. Ahead' = Ahead
    BY <2>1, <2>3, <2>4, <2>5, AheadParts
  <2> QED BY <2>6
<1> QED BY <1>2, <1>3, <1>4, <1>5, <1>6, <1>7, <1>8, <1>9, <1>10, <1>11 DEF StartStep, SelectStep

\* A crawl begins with its initial queue ahead.
LEMMA AheadBegin ==
    ASSUME NEW vis, NEW q \in Seq(Task), Begin(vis, q)
    PROVE  /\ Ahead' = Range(q) /\ Handed' \cup WaitUrls' = Urls(q) /\ Live' = Range(q)
           /\ visited' = vis /\ newVisited' = {} /\ pc' = "top" /\ resultsCh' = <<>>
           /\ \A w \in Workers : wpc'[w] = "recv"
<1> DEFINE e == IF Len(q) < QueueSize THEN Len(q) ELSE QueueSize
<1>1. e \in 0..Len(q)
  BY CrawlerAssumption
<1>2. /\ taskCh' = SubSeq(q, 1, e) /\ overflow' = SubSeq(q, e + 1, Len(q))
      /\ newTasks' = <<>> /\ batch' = <<>> /\ discoveredCh' = <<>> /\ pc' = "top"
      /\ wpc' = [w \in Workers |-> "recv"] /\ visited' = vis /\ newVisited' = {} /\ resultsCh' = <<>>
  BY DEF Begin
<1> HIDE DEF e
<1>3. taskCh' \in Seq(Task) /\ overflow' \in Seq(Task) /\ taskCh' \o overflow' = q
  BY <1>1, <1>2, QueueSplit
<1>4. Range(q) = Range(taskCh') \cup Range(overflow') /\ Urls(q) = Urls(taskCh') \cup Urls(overflow')
  BY <1>3, QueueConcat
<1>5. Busy' = {} /\ Checking' = {} /\ Range(newTasks') = {} /\ Range(batch') = {} /\ Answered' = {}
      /\ Urls(newTasks') = {}
  BY <1>2, EmptyQueue DEF Busy, Checking, Answered
<1>6. ToAnswer' = {} /\ {wtask[w] : w \in Checking}' = {} /\ CheckUrls' = {} /\ {wtask[w] : w \in Busy}' = {}
  BY <1>5 DEF ToAnswer, CheckUrls
<1>7. Ahead' = Range(q)
  BY <1>4, <1>5, <1>6, AheadParts
<1>8. Handed' \cup WaitUrls' = Urls(q)
  BY <1>4, <1>5, <1>6 DEF Handed, WaitUrls
<1>9. Live' = Range(q)
  BY <1>2, <1>4, <1>5, <1>6 DEF Live, Sent, Waiting, LoopPCs
<1> QED BY <1>2, <1>7, <1>8, <1>9

\* The same of the next state: the formula has no variable of its own.
HandedIn == \A v \in Handed \cup WaitUrls : \E x \in Ahead : x.url = v

LEMMA HandedInAhead == HandedIn /\ HandedIn'
<1>1. HandedIn
  BY HandedAhead DEF HandedIn
<1> QED BY <1>1, PTL

\* Without an URL limit none is reached, and nobody waits for one.
LEMMA NoLimit ==
    ASSUME Undisturbed
    PROVE  /\ ~urlLimitReached /\ ~urlLimitReached' /\ ~VisitedFull /\ ~LoopLimit /\ ~DedupBreak
BY DEF Undisturbed, urlLimitReached, VisitedFull, LoopLimit, DedupBreak

\* Before Start only Start does anything; it is where a first crawl marks its
\* seed.
LEMMA StartMarks ==
    ASSUME Undisturbed, BaseInv, Start
    PROVE  /\ visited' = {Seed} /\ Marked' = {} /\ Ahead' = Range(SeedQueue)
           /\ Handed' \cup WaitUrls' = {Seed} /\ Live' = Range(SeedQueue)
           /\ resultsCh' = <<>> /\ pc' = "top" /\ \A w \in Workers : wpc'[w] = "recv"
           /\ index' = [u \in URLs |-> 0] /\ fetched' = [u \in URLs |-> <<>>]
<1>1. Begin(SeedSet, SeedQueue) /\ UNCHANGED <<index, dbVars, fetched>> /\ pc = "start"
  BY DEF Start
<1>2. index = [u \in URLs |-> 0] /\ fetched = [u \in URLs |-> <<>>] /\ dbVisited = {}
  BY <1>1 DEF BaseInv, Fresh
<1>3. SeedQueue \in Seq(Task) /\ SeedSet = {Seed} /\ Urls(SeedQueue) = SeedSet
  BY SeedQueueType, OneSeed, SeedQueueUrls
<1> QED BY <1>1, <1>2, <1>3, AheadBegin DEF Marked, dbVars

\* After that a step marks one URL or none, and no mark is lost.
LEMMA MarkMoves ==
    ASSUME Undisturbed, [Next]_vars, ~Start
    PROVE  \/ Marked' = Marked /\ visited' = visited /\ ~DedupMark
           \/ /\ DedupMark /\ Marked' = Marked \cup {Head(batch).url}
              /\ visited' = visited \cup {Head(batch).url}
<1>1. CASE FinishFlush \/ SaveVisited \/ PersistTick
  <2>1. flushVisited /\ visited' = visited /\ ~DedupMark
    BY <1>1 DEF FinishFlush, SaveVisited, PersistTick, DedupMark
  <2> QED BY <2>1, FlushMoves DEF Marked, Undisturbed
<1>2. CASE DedupMark
  BY <1>2 DEF DedupMark, Marked, dbVars
<1>3. CASE \/ LoopExit \/ LoopLimit \/ LoopSelect \/ DedupSkip \/ DedupBreak \/ AppendNew \/ BeginEnqueue
           \/ EnqueueSend \/ EnqueueOverflow \/ EnqueueDone \/ DrainRecv \/ SaveQueue \/ FinishClear
           \/ CloseResults \/ Finish \/ LimitRecv \/ SendOverflow \/ RecvBatch \/ CtxDone
  <2>1. UNCHANGED <<visited, newVisited, dbVisited>>
    BY <1>3 DEF LoopExit, LoopLimit, LoopSelect, DedupSkip, DedupBreak, AppendNew, BeginEnqueue,
       EnqueueSend, EnqueueOverflow, EnqueueDone, DrainRecv, SaveQueue, FinishClear, CloseResults, Finish,
       LimitRecv, SendOverflow, RecvBatch, CtxDone, dbVars
  <2> QED BY <1>2, <2>1 DEF Marked
<1>4. CASE (\E w \in Workers : WorkerStep(w)) \/ IndexerStep \/ Cancel \/ UNCHANGED vars
  <2>1. UNCHANGED <<visited, newVisited, dbVisited>>
    BY <1>4, WorkerFrame, IndexerFrame DEF Cancel, vars, coordVars, dbVars
  <2> QED BY <1>2, <2>1 DEF Marked
<1> QED BY <1>1, <1>2, <1>3, <1>4 DEF Next, Terminated, StartStep, SelectStep

\* Where the coordinator may be next.
LEMMA CoordPlaces ==
    ASSUME Undisturbed, [Next]_vars, pc # "limit"
    PROVE  /\ pc' # "limit"
           /\ pc' # "start" /\ pc = "start" => Start
           /\ pc' = "done" => pc = "done" \/ Finish
           /\ pc' = "saveVisited" => pc = "saveVisited" \/ SaveQueue
           /\ pc' = "clearQueue" => pc = "clearQueue" \/ FinishFlush
           /\ pc' = "wait" => pc = "wait" \/ SaveVisited \/ FinishClear
           /\ pc' = "resultsClosed" => pc = "resultsClosed" \/ CloseResults
<1>1. CASE StartStep \/ SelectStep
  BY <1>1, NoLimit DEF StartStep, SelectStep, Start, Begin, LoopExit, LoopSelect, DedupSkip,
     DedupMark, AppendNew, BeginEnqueue, EnqueueSend, EnqueueOverflow, EnqueueDone, DrainRecv,
     SaveQueue, SaveVisited, FinishFlush, FinishClear, CloseResults, Finish,
     LimitRecv, SendOverflow, RecvBatch, PersistTick, CtxDone
<1>2. CASE (\E w \in Workers : WorkerStep(w)) \/ IndexerStep \/ Cancel \/ UNCHANGED vars
  BY <1>2, WorkerFrame, IndexerFrame DEF Cancel, vars, coordVars
<1> QED BY <1>1, <1>2 DEF Next, Terminated

\* A step of a crawl, and what it leaves alone.
LEMMA CrawlFacts ==
    ASSUME Closure, CrawlStep
    PROVE  /\ [Next]_vars /\ BaseInv /\ BaseInv' /\ CountInv /\ TypeOK /\ pc # "limit"
           /\ proc = "run" /\ proc' = "run" /\ dropped' = dropped \cup Skipping
           /\ visited \subseteq visited' /\ visited \subseteq URLs /\ visited' \subseteq URLs
<1>1. [Next]_vars /\ BaseInv /\ pc # "limit"
  BY CrawlStepIsNext DEF Closure, MarksKept
<1>2. BaseInv' /\ visited \subseteq visited'
  BY <1>1, BaseStep, VisitedGrows
<1> QED BY <1>1, <1>2 DEF CrawlStep, BaseInv, CountInv, TypeOK, CoordTypeOK

\* A stop saves the queue, the end of a crawl clears it; both flush the marks,
\* and the reason of the end is read after that.
LEMMA EndSavedStep ==
    ASSUME Undisturbed, Closure, CrawlStep
    PROVE  EndSaved'
<1>1. [Next]_vars /\ TypeOK /\ pc # "limit" /\ proc' = "run" /\ Phases /\ EndSaved
  BY CrawlFacts DEF BaseInv, Closure
<1>2. ASSUME pc' = "done", cancelled' PROVE metrics'.StopReason = "stopped"
  <2>1. CASE Finish
    <3>1. cancelled = cancelled' /\ metrics' = [metrics EXCEPT !.StopReason = StopReasonNow, !.CrawlDone = TRUE,
                                  !.ActiveWorkers = 0, !.QueueDepth = 0]
      BY <2>1 DEF Finish
    <3>2. StopReasonNow = "stopped"
      BY <1>2, <3>1 DEF StopReasonNow
    <3> QED BY <1>1, <3>1, <3>2 DEF TypeOK, Metrics
  <2>2. CASE ~Finish
    <3>1. pc = "done" /\ ~Cancel
      BY <1>1, <1>2, <2>2, CoordPlaces DEF Cancel
    <3>2. cancelled
      <4>1. CASE (\E w \in Workers : WorkerStep(w)) \/ IndexerStep \/ UNCHANGED vars
        BY <1>2, <4>1, WorkerFrame, IndexerFrame DEF vars
      <4>2. CASE StartStep \/ SelectStep
        BY <1>2, <4>2, CoordFrame
      <4> QED BY <1>1, <3>1, <4>1, <4>2 DEF Next, Terminated
    <3>3. metrics.StopReason = "stopped"
      BY <1>1, <3>1, <3>2 DEF EndSaved
    <3>4. CASE IndexerStep
      BY <1>1, <3>3, <3>4 DEF IndexerStep, IndexError, IndexPage, IndexTick, IndexClosed, IndexSave,
         IndexAppend, TypeOK, Metrics
    <3> QED BY <1>1, <2>2, <3>3, <3>4, MetricsFrame
  <2> QED BY <2>1, <2>2
<1>3. CASE StartStep \/ SelectStep
  <2>1. ASSUME pc' \in {"clearQueue", "wait", "resultsClosed", "done"} PROVE newVisited' = {}
    <3>1. CASE FinishFlush \/ SaveVisited
      BY <3>1 DEF FinishFlush, SaveVisited, flushVisited
    <3>2. CASE ~(FinishFlush \/ SaveVisited)
      <4>1. pc \in {"clearQueue", "wait", "resultsClosed", "done"}
        BY <1>1, <2>1, <3>2, CoordPlaces DEF FinishClear, CloseResults, Finish
      <4>2. newVisited' = newVisited
        BY <1>3, <3>2, <4>1 DEF StartStep, SelectStep, Start, LoopExit, LoopLimit, LoopSelect, DedupSkip,
           DedupBreak, DedupMark, AppendNew, BeginEnqueue, EnqueueSend, EnqueueOverflow, EnqueueDone,
           DrainRecv, SaveQueue, FinishClear, CloseResults, Finish, LimitRecv, SendOverflow, RecvBatch,
           PersistTick, CtxDone
      <4> QED BY <1>1, <4>1, <4>2 DEF EndSaved
    <3> QED BY <3>1, <3>2
  <2>2. ASSUME pc' \in {"saveVisited", "wait", "resultsClosed", "done"} PROVE dbQueue' = overflow'
    <3>1. CASE SaveQueue
      BY <3>1 DEF SaveQueue, SaveSessionQueuedTasks, Tx, Undisturbed
    <3>2. CASE FinishClear
      BY <1>1, <3>2 DEF FinishClear, SaveSessionQueuedTasks, Tx, Undisturbed, Phases
    <3>3. CASE ~(SaveQueue \/ FinishClear)
      <4>1. pc \in {"saveVisited", "wait", "resultsClosed", "done"}
        BY <1>1, <2>2, <3>3, CoordPlaces DEF SaveVisited, CloseResults, Finish
      <4>2. UNCHANGED <<dbQueue, overflow>>
        BY <1>3, <3>3, <4>1 DEF StartStep, SelectStep, Start, LoopExit, LoopLimit, LoopSelect, DedupSkip,
           DedupBreak, DedupMark, AppendNew, BeginEnqueue, EnqueueSend, EnqueueOverflow, EnqueueDone,
           DrainRecv, SaveVisited, FinishFlush, CloseResults, Finish, LimitRecv, SendOverflow, RecvBatch,
           PersistTick, CtxDone, dbVars
      <4> QED BY <1>1, <4>1, <4>2 DEF EndSaved
    <3> QED BY <3>1, <3>2, <3>3
  <2> QED BY <1>1, <1>2, <2>1, <2>2 DEF EndSaved
<1>4. CASE (\E w \in Workers : WorkerStep(w)) \/ IndexerStep \/ Cancel
  <2>1. UNCHANGED <<pc, newVisited, dbQueue, overflow>>
    BY <1>4, WorkerFrame, IndexerFrame DEF Cancel, coordVars, dbVars
  <2> QED BY <1>1, <1>2, <2>1 DEF EndSaved
<1> QED BY <1>3, <1>4 DEF CrawlStep

\* Marks are made in both places, and the limit is never reached.
LEMMA MarksKeptStep ==
    ASSUME Undisturbed, Closure, CrawlStep
    PROVE  MarksKept'
<1>1. [Next]_vars /\ BaseInv /\ pc # "limit" /\ MarksKept
  BY CrawlFacts DEF Closure
<1>2. CASE Start
  BY <1>1, <1>2, StartMarks DEF MarksKept
<1>3. CASE ~Start
  BY <1>1, <1>3, MarkMoves, CoordPlaces DEF MarksKept
<1> QED BY <1>2, <1>3

\* What is known stays known: only a fetch ends a task ahead, or deduplicateAndMark,
\* which passes over a visited URL that someone else has, or drops it after a stop.
LEMMA KnownKept ==
    ASSUME Undisturbed, Closure, CrawlStep, ~Start, NEW CONSTANT v \in URLs, KnownUrl(v)
    PROVE  KnownUrl(v)'
<1>1. /\ [Next]_vars /\ BaseInv /\ CountInv /\ pc # "limit" /\ dropped' = dropped \cup Skipping
      /\ visited \subseteq visited'
  BY CrawlFacts
<1>2. CASE fetched[v] # <<>>
  BY <1>1, <1>2, FetchGrows DEF KnownUrl
<1>3. CASE v \in dropped
  BY <1>1, <1>3 DEF KnownUrl
<1>4. ASSUME NEW x \in Ahead, x.url = v, v \in visited \/ x.depth <= MaxDepth
      PROVE  KnownUrl(v)'
  <2>1. CASE x \in Ahead'
    BY <1>1, <1>4, <2>1 DEF KnownUrl
  <2>2. ASSUME NEW w \in Workers, WorkerFetch(w), x = wtask[w] PROVE KnownUrl(v)'
    <3>1. fetched \in [URLs -> Seq(Nat)] /\ x.depth \in Nat
      BY <1>1, <1>4, AheadType DEF CountInv, TypeOK, WorkerTypeOK
    <3>2. fetched'[v] = Append(fetched[v], x.depth)
      BY <1>4, <2>2, <3>1 DEF WorkerFetch
    <3> QED BY <3>1, <3>2, AppendNotEmpty DEF KnownUrl
  <2>3. ASSUME DedupSkip, x = Head(batch) PROVE KnownUrl(v)'
    <3>1. pc = "dedup" /\ batch # <<>> /\ Skipped(x) /\ UNCHANGED <<visited, overflow, newTasks, taskCh, wpc, wtask>>
      BY <2>3 DEF DedupSkip, chanVars, workerVars
    <3>2. v \in visited /\ v \in visited'
      <4>1. x.depth \in Nat /\ MaxDepth \in Nat
        BY <1>1, <1>4, AheadType, CrawlerAssumption
      <4> QED BY <1>4, <3>1, <4>1 DEF Skipped
    <3>3. v \in Handed \cup WaitUrls => v \in Handed' \cup WaitUrls'
      BY <3>1, HandedFrame DEF WaitUrls
    <3>4. v \in Handed \cup WaitUrls => KnownUrl(v)'
      BY <3>2, <3>3, HandedInAhead DEF HandedIn, KnownUrl
    <3>5. CASE ~cancelled
      BY <1>2, <1>3, <3>2, <3>4, <3>5 DEF Closure, VisitedKept
    <3>6. CASE cancelled
      <4>1. Outstanding = Handed \cup WaitUrls
        BY DEF Outstanding, Handed, WaitUrls, CheckUrls, Checking
      <4>2. v \notin Outstanding /\ fetched[v] = <<>> => v \in Skipping
        BY <1>4, <2>3, <3>1, <3>2, <3>6 DEF Skipping
      <4>3. v \in Skipping => KnownUrl(v)'
        BY <1>1 DEF KnownUrl
      <4> QED BY <1>2, <3>4, <4>1, <4>2, <4>3
    <3> QED BY <3>5, <3>6
  <2>4. CASE StartStep \/ SelectStep
    <3>1. Ahead \subseteq Ahead' \/ (DedupSkip /\ Ahead \subseteq Ahead' \cup {Head(batch)})
      BY <1>1, <2>4, AheadCoord
    <3> QED BY <1>4, <2>1, <2>3, <3>1
  <2>5. ASSUME NEW w \in Workers, WorkerStep(w) PROVE KnownUrl(v)'
    <3>1. Ahead \subseteq Ahead' \/ (WorkerFetch(w) /\ Ahead \subseteq Ahead' \cup {wtask[w]})
      BY <1>1, <2>5, AheadWorker
    <3> QED BY <1>4, <2>1, <2>2, <3>1
  <2>6. CASE IndexerStep \/ Cancel
    <3>1. UNCHANGED <<overflow, newTasks, batch, taskCh, discoveredCh, wpc, wtask>>
      BY <2>6, IndexerFrame DEF Cancel, coordVars, chanVars, workerVars
    <3>2. Ahead' = Ahead
      BY <3>1, AheadFrame, AheadParts
    <3> QED BY <1>4, <2>1, <3>2
  <2> QED BY <2>4, <2>5, <2>6 DEF CrawlStep
<1> QED BY <1>2, <1>3, <1>4 DEF KnownUrl

\* What is marked is known, and before a stop it is on its way to a worker.
LEMMA VisitedKeptStep ==
    ASSUME Undisturbed, Closure, CrawlStep
    PROVE  VisitedKept'
<1>1. /\ [Next]_vars /\ BaseInv /\ CountInv /\ TypeOK /\ visited' \subseteq URLs /\ visited \subseteq visited'
      /\ dropped \subseteq dropped' /\ VisitedKept
  BY CrawlFacts DEF Closure
<1>2. ASSUME NEW CONSTANT v, v \in visited' PROVE KnownUrl(v)'
  <2>1. v \in URLs
    BY <1>1, <1>2
  <2>2. CASE Start
    <3>1. v \in Handed' \cup WaitUrls'
      BY <1>1, <1>2, <2>2, StartMarks
    <3> QED BY <1>2, <3>1, HandedInAhead DEF HandedIn, KnownUrl
  <2>3. CASE ~Start /\ v \in visited
    <3>1. KnownUrl(v)
      BY <1>1, <2>3 DEF VisitedKept
    <3> QED BY <2>1, <2>3, <3>1, KnownKept
  <2>4. CASE ~Start /\ v \notin visited
    <3>1. DedupMark /\ v = Head(batch).url
      BY <1>1, <1>2, <2>4, MarkMoves
    <3>2. newTasks' = Append(newTasks, Head(batch)) /\ newTasks \in Seq(Task) /\ batch \in Seq(Task) /\ batch # <<>>
      BY <1>1, <3>1 DEF DedupMark, TypeOK, CoordTypeOK
    <3>3. Head(batch) \in Range(newTasks')
      BY <3>2, QueueTail, QueueAppend
    <3>4. Head(batch) \in Ahead'
      BY <3>3, AheadParts
    <3> QED BY <1>2, <3>1, <3>4 DEF KnownUrl
  <2> QED BY <2>2, <2>3, <2>4
<1>3. ASSUME ~cancelled', NEW CONSTANT v, v \in visited'
      PROVE  fetched'[v] # <<>> \/ v \in dropped' \/ v \in Handed' \cup WaitUrls'
  <2>1. v \in URLs /\ ~cancelled /\ ~LoopLimit
    BY <1>1, <1>3, CancelStable, NoLimit
  <2>2. /\ v \in Handed \cup WaitUrls => fetched'[v] # <<>> \/ v \in Handed' \cup WaitUrls'
        /\ v \in visited \/ v \in Handed' \cup WaitUrls'
    BY <1>1, <1>3, <2>1, OutstandingStep
  <2>3. fetched[v] # <<>> => fetched'[v] # <<>>
    BY <1>1, <2>1, FetchGrows
  <2>4. v \in visited => fetched[v] # <<>> \/ v \in dropped \/ v \in Handed \cup WaitUrls
    BY <1>1, <2>1 DEF VisitedKept
  <2> QED BY <1>1, <2>2, <2>3, <2>4
<1> QED BY <1>2, <1>3 DEF VisitedKept

\* A worker writes the fetch into the history when it begins it.
LEMMA FetchKnownStep ==
    ASSUME Undisturbed, Closure, CrawlStep
    PROVE  FetchKnown'
<1>1. /\ [Next]_vars /\ BaseInv /\ CountInv /\ fetched \in [URLs -> Seq(Nat)]
      /\ wpc \in [Workers -> WorkerPCs] /\ wtask \in [Workers -> Task \cup {NoTask}] /\ HeldTasks /\ FetchKnown
  BY CrawlFacts DEF Closure, TypeOK, WorkerTypeOK, CountInv
<1> SUFFICES ASSUME NEW CONSTANT w \in Workers, wpc'[w] = "fetch"
             PROVE  \E i \in DOMAIN fetched'[wtask'[w].url] : fetched'[wtask'[w].url][i] = wtask'[w].depth
  BY DEF FetchKnown
<1>2. CASE wpc[w] = "fetch" /\ wtask'[w] = wtask[w]
  <2>1. wtask[w].url \in URLs
    BY <1>1, <1>2 DEF HeldTasks, Busy, Task
  <2>2. PICK u \in URLs : u = wtask[w].url
    BY <2>1
  <2>3. \E i \in DOMAIN fetched[u] : fetched[u][i] = wtask[w].depth
    BY <1>1, <1>2, <2>2 DEF FetchKnown
  <2>4. \E i \in DOMAIN fetched'[u] : fetched'[u][i] = wtask[w].depth
    BY <1>1, <2>3, FetchGrows
  <2> QED BY <1>2, <2>2, <2>4
<1>3. CASE WorkerFetch(w)
  <2>1. wtask[w] \in Task /\ wtask' = wtask
    BY <1>1, <1>3 DEF WorkerFetch, HeldTasks, Busy
  <2>2. PICK u \in URLs, d \in Nat : u = wtask[w].url /\ d = wtask[w].depth
    BY <2>1 DEF Task
  <2>3. fetched'[u] = Append(fetched[u], d) /\ fetched[u] \in Seq(Nat)
    BY <1>1, <1>3, <2>2 DEF WorkerFetch
  <2>4. \E i \in DOMAIN fetched'[u] : fetched'[u][i] = d
    BY <2>3, AppendProperties
  <2> QED BY <2>1, <2>2, <2>4
<1>4. ASSUME NEW v \in Workers, WorkerStep(v), ~WorkerFetch(w)
      PROVE  wpc[w] = "fetch" /\ wtask'[w] = wtask[w]
  BY <1>1, <1>4 DEF WorkerStep, WorkerRecv, WorkerExit, WorkerGiveBack, WorkerFetch, WorkerResult, WorkerAnswer
<1>5. CASE IndexerStep \/ Cancel
  BY <1>2, <1>5, IndexerFrame DEF Cancel, workerVars
<1>6. CASE StartStep \/ SelectStep
  <2>1. ~Start
    BY <1>1, StartMarks
  <2>2. ASSUME NEW t, Send(t) PROVE wpc[w] = "fetch" /\ wtask'[w] = wtask[w]
    BY <1>1, <2>2 DEF Send
  <2>3. wpc[w] = "fetch" /\ wtask'[w] = wtask[w]
    BY <1>6, <2>1, <2>2, CoordFrame DEF EnqueueSend, SendOverflow
  <2> QED BY <1>2, <2>3
<1> QED BY <1>2, <1>3, <1>4, <1>5, <1>6 DEF CrawlStep

\* Only deduplicateAndMark adds to the tasks on their way to a worker.
LEMMA LiveMoves ==
    ASSUME BaseInv, [Next]_vars, ~Start
    PROVE  Live' \subseteq Live \/ (DedupMark /\ Live' \subseteq Live \cup {Head(batch)})
<1>1. CountInv
  BY DEF BaseInv
<1>2. CASE StartStep \/ SelectStep
  BY <1>2, CoordMoves
<1>3. ASSUME NEW w \in Workers, WorkerStep(w) PROVE Live' \subseteq Live
  <2>1. Sent' \subseteq Sent /\ UNCHANGED <<pc, overflow, newTasks>>
    BY <1>1, <1>3, WorkerMoves, WorkerFrame DEF coordVars
  <2> QED BY <2>1 DEF Live, Waiting
<1>4. CASE IndexerStep \/ Cancel \/ UNCHANGED vars
  <2>1. UNCHANGED <<pc, overflow, newTasks, taskCh, wpc, wtask>>
    BY <1>4, IndexerFrame DEF Cancel, vars, coordVars, chanVars, workerVars
  <2> QED BY <2>1, HandedFrame DEF Live, Waiting
<1> QED BY <1>2, <1>3, <1>4 DEF Next, Terminated

\* A worker that fetches, or starts to, has a task that was on its way to it.
LEMMA WorkerLive ==
    ASSUME CountInv, NEW w \in Busy
    PROVE  wtask[w] \in Live /\ wtask[w] \in Task /\ wtask[w].url \in URLs /\ wtask[w].depth \in Nat
BY DEF CountInv, HeldTasks, Live, Sent, Task

\* Only a page that was fetched with success adds to the tasks ahead.
LEMMA AheadMoves ==
    ASSUME Undisturbed, Closure, CrawlStep, ~Start
    PROVE  \/ Ahead' \subseteq Ahead
           \/ \E w \in Workers : /\ WorkerResult(w) /\ wpc'[w] = "found"
                                 /\ Ahead' \subseteq Ahead \cup Range(LinkTasks(wtask[w]))
<1>1. BaseInv /\ CountInv /\ pc # "limit"
  BY CrawlFacts
<1>2. CASE StartStep \/ SelectStep
  BY <1>1, <1>2, AheadCoord
<1>3. CASE \E w \in Workers : WorkerStep(w)
  BY <1>1, <1>3, AheadWorker
<1>4. CASE IndexerStep \/ Cancel
  <2>1. UNCHANGED <<overflow, newTasks, batch, taskCh, discoveredCh, wpc, wtask>>
    BY <1>4, IndexerFrame DEF Cancel, coordVars, chanVars, workerVars
  <2> QED BY <2>1, AheadFrame, AheadParts
<1> QED BY <1>2, <1>3, <1>4 DEF CrawlStep

\* Until the seed is fetched everything is about the seed.
LEMMA SeedFirstStep ==
    ASSUME Undisturbed, Closure, CrawlStep
    PROVE  SeedFirst'
<1>1. /\ [Next]_vars /\ BaseInv /\ CountInv /\ SeedFirst /\ FetchKnown /\ MarksKept /\ batch \in Seq(Task)
      /\ pc # "limit"
  BY CrawlFacts DEF Closure, TypeOK, CoordTypeOK
<1>2. Seed \in URLs /\ \A x \in Range(SeedQueue) : x.url = Seed
  BY OneSeed
<1>3. CASE Start
  <2>1. FetchedUrls' = {}
    BY <1>1, <1>3, StartMarks DEF FetchedUrls
  <2> QED BY <1>1, <1>2, <1>3, <2>1, StartMarks DEF SeedFirst
<1>4. CASE ~Start
  <2>1. ASSUME Marked' = {} PROVE FetchedUrls' \subseteq {Seed} /\ \A x \in Live' : x.url = Seed
    <3>1. ~DedupMark /\ Marked = {}
      BY <1>1, <1>4, <2>1, MarkMoves
    <3>2. FetchedUrls \subseteq {Seed} /\ \A x \in Live : x.url = Seed
      BY <1>1, <3>1 DEF SeedFirst
    <3>3. Live' \subseteq Live
      BY <1>1, <1>4, <3>1, LiveMoves
    <3>4. ASSUME NEW CONSTANT u \in URLs, fetched'[u] # <<>> PROVE u = Seed
      <4>1. fetched[u] # <<>> \/ \E w \in Workers : WorkerFetch(w) /\ wtask[w].url = u
        BY <1>1, <3>4, FetchGrows
      <4>2. ASSUME NEW w \in Workers, WorkerFetch(w), wtask[w].url = u PROVE u = Seed
        <5>1. w \in Busy
          BY <4>2 DEF WorkerFetch, Busy
        <5> QED BY <1>1, <3>2, <4>2, <5>1, WorkerLive
      <4> QED BY <3>2, <4>1, <4>2 DEF FetchedUrls
    <3> QED BY <3>2, <3>3, <3>4 DEF FetchedUrls
  <2>2. ASSUME fetched'[Seed] = <<>>
        PROVE  Marked' = {} /\ (\A x \in Ahead' : x.url = Seed) /\ (pc' # "start" => visited' = {Seed})
    <3>1. PICK s \in URLs : s = Seed
      BY <1>2
    <3>2. fetched[Seed] = <<>>
      <4>1. fetched[s] # <<>> => fetched'[s] # <<>>
        BY <1>1, FetchGrows
      <4> QED BY <2>2, <3>1, <4>1
    <3>3. Marked = {} /\ (\A x \in Ahead : x.url = Seed) /\ (pc # "start" => visited = {Seed})
      BY <1>1, <3>2 DEF SeedFirst
    <3>4. ~DedupMark
      <4>1. SUFFICES ASSUME DedupMark PROVE FALSE
        OBVIOUS
      <4>2. pc = "dedup" /\ batch # <<>> /\ ~Skipped(Head(batch))
        BY <4>1 DEF DedupMark
      <4>3. Head(batch) \in Ahead
        BY <1>1, <4>2, QueueTail, AheadParts
      <4> QED BY <3>3, <4>2, <4>3 DEF Skipped
    <3>5. Marked' = {} /\ visited' = visited
      BY <1>1, <1>4, <3>3, <3>4, MarkMoves
    <3>6. Ahead' \subseteq Ahead
      <4>1. SUFFICES ASSUME NEW w \in Workers, WorkerResult(w) PROVE FALSE
        BY <1>4, AheadMoves
      <4>2. wpc[w] = "fetch" /\ w \in Busy
        BY <4>1 DEF WorkerResult, Busy
      <4>3. wtask[w].url = Seed
        BY <1>1, <3>3, <4>2, WorkerLive DEF SeedFirst
      <4>4. \E i \in DOMAIN fetched[Seed] : fetched[Seed][i] = wtask[w].depth
        BY <1>1, <4>2, <4>3 DEF FetchKnown
      <4> QED BY <3>2, <4>4
    <3>7. pc' # "start" => pc # "start"
      BY <1>1, <1>4, CoordPlaces
    <3> QED BY <3>3, <3>5, <3>6, <3>7
  <2> QED BY <2>1, <2>2 DEF SeedFirst
<1> QED BY <1>3, <1>4

\* The links of a page fetched above the depth limit are with the worker, none
\* of them too deep.
LEMMA FoundFollows ==
    ASSUME Undisturbed, Closure, CrawlStep, NEW CONSTANT u \in URLs, NEW CONSTANT w \in Workers,
           WorkerResult(w), wtask[w].url = u, wpc'[w] = "found"
    PROVE  fetched'[u] # <<>> /\ (AboveLimit(u)' => Followed(u)')
<1>1. [Next]_vars /\ CountInv /\ FetchKnown /\ wpc[w] = "fetch" /\ w \in Busy /\ wtask' = wtask
  BY CrawlFacts DEF Closure, WorkerResult, Busy
<1>2. PICK i \in DOMAIN fetched[u] : fetched[u][i] = wtask[w].depth
  BY <1>1 DEF FetchKnown
<1>3. i \in DOMAIN fetched'[u] /\ fetched'[u][i] = wtask[w].depth
  BY <1>1, <1>2, FetchGrows
<1>4. fetched'[u] # <<>>
  BY <1>3
<1>5. ASSUME AboveLimit(u)', NEW v \in Range(Links[u]) PROVE KnownUrl(v)'
  <2>1. PICK d \in Nat : d = wtask[w].depth
    BY <1>1, WorkerLive
  <2>2. d < MaxDepth /\ MaxDepth \in Nat
    BY <1>3, <1>5, <2>1, CrawlerAssumption DEF AboveLimit
  <2>3. d + 1 <= MaxDepth
    BY <2>1, <2>2
  <2>4. PICK j \in DOMAIN Links[u] : Links[u][j] = v
    BY <1>5 DEF Range
  <2>5. LinkTasks(wtask[w]) = [k \in DOMAIN Links[u] |-> [url |-> Links[u][k], depth |-> d + 1]]
    BY <2>1 DEF LinkTasks
  <2>6. LinkTasks(wtask[w])[j] = [url |-> v, depth |-> d + 1] /\ j \in DOMAIN LinkTasks(wtask[w])
    BY <2>4, <2>5
  <2>7. [url |-> v, depth |-> d + 1] \in Range(LinkTasks(wtask[w]))
    BY <2>6 DEF Range
  <2>8. w \in Busy' /\ Answer(w)' = LinkTasks(wtask[w])
    BY <1>1 DEF Busy, Answer, LinkTasks
  <2>9. [url |-> v, depth |-> d + 1] \in Ahead'
    <3>1. [url |-> v, depth |-> d + 1] \in ToAnswer'
      BY <2>7, <2>8 DEF ToAnswer
    <3> QED BY <3>1, AheadParts
  <2>10. PICK x \in Ahead' : x.url = v /\ x.depth <= MaxDepth
    BY <2>3, <2>9
  <2> QED BY <2>10 DEF KnownUrl
<1> QED BY <1>4, <1>5 DEF Followed

\* The seed stays ahead until it is fetched with success, and then its links are.
LEMMA SeedAheadStep ==
    ASSUME Undisturbed, Closure, CrawlStep, ~Start, SeedAhead
    PROVE  SeedAhead' \/ (AboveLimit(Seed)' => Followed(Seed)')
<1>1. /\ [Next]_vars /\ BaseInv /\ CountInv /\ SeedFirst /\ batch \in Seq(Task)
      /\ wpc \in [Workers -> WorkerPCs]
  BY CrawlFacts DEF Closure, TypeOK, CoordTypeOK, WorkerTypeOK
<1>2. PICK s \in URLs : s = Seed
  BY OneSeed
<1>3. Marked = {} /\ visited = {Seed} /\ \A x \in Ahead : x.url = Seed
  BY DEF SeedAhead
<1>4. ~DedupMark
  <2>1. SUFFICES ASSUME DedupMark PROVE FALSE
    OBVIOUS
  <2>2. batch # <<>> /\ ~Skipped(Head(batch))
    BY <2>1 DEF DedupMark
  <2>3. Head(batch) \in Ahead
    BY <1>1, <2>2, QueueTail, AheadParts
  <2> QED BY <1>3, <2>2, <2>3 DEF Skipped
<1>5. Marked' = {} /\ visited' = {Seed}
  BY <1>1, <1>3, <1>4, MarkMoves
<1>6. CASE \E w \in Workers : WorkerResult(w) /\ wpc'[w] = "found"
  <2>1. PICK w \in Workers : WorkerResult(w) /\ wpc'[w] = "found"
    BY <1>6
  <2>2. w \in Busy
    BY <2>1 DEF WorkerResult, Busy
  <2>3. wtask[w].url = s
    BY <1>1, <1>2, <1>3, <2>2, WorkerLive DEF SeedFirst
  <2>4. AboveLimit(s)' => Followed(s)'
    BY <2>1, <2>3, FoundFollows
  <2> QED BY <1>2, <2>4 DEF AboveLimit, Followed, KnownUrl
<1>7. CASE ~\E w \in Workers : WorkerResult(w) /\ wpc'[w] = "found"
  <2>1. \A x \in Ahead' : x.url = Seed
    <3>1. Ahead' \subseteq Ahead
      BY <1>7, AheadMoves
    <3> QED BY <1>3, <3>1
  <2>2. ASSUME ~cancelled'
        PROVE  Seed \in Handed' \cup WaitUrls' \/ \E w \in Workers : wpc'[w] = "fetch"
    <3>1. ~cancelled /\ ~LoopLimit
      BY <1>1, <2>2, CancelStable, NoLimit
    <3>2. CASE Seed \in Handed \cup WaitUrls
      <4>1. s \in Handed' \cup WaitUrls' \/ \E w \in Workers : WorkerFetch(w)
        BY <1>1, <1>2, <2>2, <3>1, <3>2, OutstandingStep
      <4>2. ASSUME NEW w \in Workers, WorkerFetch(w) PROVE wpc'[w] = "fetch"
        BY <1>1, <4>2 DEF WorkerFetch
      <4> QED BY <1>2, <4>1, <4>2
    <3>3. ASSUME NEW w \in Workers, wpc[w] = "fetch" PROVE wpc'[w] = "fetch"
      <4>1. ~WorkerResult(w)
        <5>1. SUFFICES ASSUME WorkerResult(w) PROVE FALSE
          OBVIOUS
        <5>2. FetchOutcomes(wtask[w].url) = {TRUE}
          BY <3>1 DEF FetchOutcomes, Undisturbed
        <5>3. wpc'[w] = "found"
          BY <1>1, <5>1, <5>2 DEF WorkerResult
        <5> QED BY <1>7, <5>1, <5>3
      <4>2. ASSUME NEW v \in Workers, WorkerStep(v) PROVE wpc'[w] = "fetch"
        <5>1. v # w
          BY <3>3, <4>1, <4>2 DEF WorkerStep, WorkerRecv, WorkerExit, WorkerGiveBack, WorkerFetch, WorkerAnswer
        <5>2. wpc'[w] = wpc[w]
          BY <1>1, <4>2, <5>1 DEF WorkerStep, WorkerRecv, WorkerExit, WorkerGiveBack, WorkerFetch,
             WorkerResult, WorkerAnswer
        <5> QED BY <3>3, <5>2
      <4>3. CASE IndexerStep \/ Cancel
        BY <3>3, <4>3, IndexerFrame DEF Cancel, workerVars
      <4>4. CASE StartStep \/ SelectStep
        <5>1. ASSUME NEW t, Send(t) PROVE wpc'[w] = "fetch"
          BY <1>1, <3>3, <5>1 DEF Send
        <5> QED BY <3>3, <4>4, <5>1, CoordFrame DEF EnqueueSend, SendOverflow
      <4> QED BY <4>2, <4>3, <4>4 DEF CrawlStep
    <3> QED BY <3>1, <3>2, <3>3 DEF SeedAhead
  <2> QED BY <1>5, <2>1, <2>2 DEF SeedAhead
<1> QED BY <1>6, <1>7

\* No link of a page above the depth limit is forgotten.
LEMMA LinksKeptStep ==
    ASSUME Undisturbed, Closure, CrawlStep
    PROVE  LinksKept'
<1>1. [Next]_vars /\ BaseInv /\ CountInv /\ TypeOK /\ LinksKept
  BY CrawlFacts DEF Closure
<1> SUFFICES ASSUME NEW CONSTANT u \in URLs, OkPage(u)'
             PROVE  /\ u \in FetchedUrls'
                    /\ AboveLimit(u)' => Followed(u)' \/ (u = Seed /\ SeedAhead')
  BY DEF LinksKept
<1>2. ~Start
  <2>1. SUFFICES ASSUME Start PROVE FALSE
    OBVIOUS
  <2>2. resultsCh' = <<>> /\ index'[u] = 0
    BY <1>1, <2>1, StartMarks
  <2> QED BY <2>2, EmptyQueue DEF OkPage
<1>3. ASSUME NEW CONSTANT w \in Workers, WorkerResult(w), wtask[w].url = u, wpc'[w] = "found"
      PROVE  u \in FetchedUrls' /\ (AboveLimit(u)' => Followed(u)')
  BY <1>3, FoundFollows DEF FetchedUrls
<1>4. CASE OkPage(u)
  <2>1. u \in FetchedUrls /\ (AboveLimit(u) => Followed(u) \/ (u = Seed /\ SeedAhead))
    BY <1>1, <1>4 DEF LinksKept
  <2>2. u \in FetchedUrls' /\ (AboveLimit(u)' => AboveLimit(u))
    BY <1>1, <2>1, FetchGrows DEF FetchedUrls, AboveLimit
  <2>3. Followed(u) => Followed(u)'
    <3>1. SUFFICES ASSUME Followed(u), NEW CONSTANT v \in Range(Links[u]) PROVE KnownUrl(v)'
      BY DEF Followed
    <3>2. v \in URLs
      BY CrawlerAssumption DEF Range
    <3> QED BY <1>2, <3>1, <3>2, KnownKept DEF Followed
  <2>4. u = Seed /\ SeedAhead => SeedAhead' \/ (AboveLimit(u)' => Followed(u)')
    BY <1>2, SeedAheadStep
  <2> QED BY <2>1, <2>2, <2>3, <2>4
<1> QED BY <1>1, <1>3, <1>4, OkPageNew

\* A step of the crawl forgets nothing.
LEMMA ClosureCrawl ==
    ASSUME Undisturbed, Closure, CrawlStep
    PROVE  Closure'
<1>1. BaseInv'
  BY CrawlFacts
<1> QED BY <1>1, EndSavedStep, MarksKeptStep, VisitedKeptStep, FetchKnownStep, SeedFirstStep, LinksKeptStep
        DEF Closure

\* Closure says nothing of the row except how it ends.
LEMMA ClosureFrame ==
    ASSUME Closure, UNCHANGED <<vars, dropped>>, EndSaved'
    PROVE  Closure'
<1>1. /\ UNCHANGED <<pc, overflow, newTasks, batch, visited, newVisited, taskCh, discoveredCh, resultsCh>>
      /\ UNCHANGED <<wpc, wtask, fetched, index, dbVisited, cancelled, dropped>>
  BY DEF vars, coordVars, chanVars, workerVars, indexVars, dbVars
<1>2. BaseInv'
  BY BaseStep DEF Closure
<1>3. /\ Ahead' = Ahead /\ Handed' = Handed /\ WaitUrls' = WaitUrls /\ Live' = Live
      /\ Marked' = Marked /\ FetchedUrls' = FetchedUrls
  <2>1. Ahead' = Ahead
    BY <1>1, AheadFrame, AheadParts
  <2>2. Sent' = Sent /\ Handed' = Handed
    BY <1>1, HandedFrame
  <2> QED BY <1>1, <2>1, <2>2 DEF WaitUrls, Live, Waiting, Marked, FetchedUrls
<1>4. \A v \in URLs : KnownUrl(v)' = KnownUrl(v)
  BY <1>1, <1>3 DEF KnownUrl
<1>5. MarksKept' /\ FetchKnown' /\ SeedFirst'
  BY <1>1, <1>3 DEF Closure, MarksKept, FetchKnown, SeedFirst
<1>6. VisitedKept'
  <2>1. visited \subseteq URLs
    BY DEF Closure, BaseInv, CountInv, TypeOK, CoordTypeOK
  <2> QED BY <1>1, <1>3, <1>4, <2>1 DEF Closure, VisitedKept
<1>7. LinksKept'
  <2>1. \A u \in URLs : Followed(u)' = Followed(u)
    <3>1. \A u \in URLs : Range(Links[u]) \subseteq URLs
      BY CrawlerAssumption DEF Range
    <3> QED BY <1>4, <3>1 DEF Followed
  <2>2. SeedAhead' = SeedAhead
    BY <1>1, <1>3 DEF SeedAhead
  <2>3. \A u \in URLs : OkPage(u)' = OkPage(u) /\ AboveLimit(u)' = AboveLimit(u)
    BY <1>1 DEF OkPage, AboveLimit
  <2> QED BY <1>3, <2>1, <2>2, <2>3 DEF Closure, LinksKept
<1> QED BY <1>2, <1>5, <1>6, <1>7 DEF Closure

\* Where a crawl has ended, only the overflow is left, and it is what the table
\* holds.
LEMMA DoneAhead ==
    ASSUME Closure, pc = "done"
    PROVE  /\ Ahead = Range(overflow) /\ dbQueue = overflow /\ Marked = dbVisited
           /\ \A w \in Workers : wpc[w] = "exit"
           /\ ~cancelled => Ahead = {}
<1>1. QuietAtEnd /\ Phases /\ EndSaved
  BY ZeroIsQuiet DEF Closure, BaseInv
<1>2. taskCh = <<>> /\ discoveredCh = <<>> /\ Busy = {} /\ newTasks = <<>> /\ batch = <<>>
  BY <1>1 DEF QuietAtEnd, Phases
<1>3. Answered = {} /\ ToAnswer = {} /\ {wtask[w] : w \in Checking} = {}
  BY <1>2 DEF Answered, ToAnswer, Checking, Busy
<1>4. Ahead = Range(overflow)
  BY <1>2, <1>3, EmptyQueue, AheadParts
<1>5. ~cancelled => overflow = <<>>
  BY <1>1 DEF Phases
<1> QED BY <1>1, <1>4, <1>5, EmptyQueue DEF EndSaved, Marked, Phases

\* A resume takes up what the stop saved; a session that has marked nothing
\* begins at the seed again.
LEMMA ResumeClosure ==
    ASSUME Undisturbed, SessionInv, Closure, ResumeCrawlByID
    PROVE  Closure'
<1>1. /\ Begin(ResumeVisited, ResumeQueue) /\ cancelled' = FALSE /\ proc' = "run" /\ proc = "none"
      /\ UNCHANGED <<index, dbVisited, fetched, dropped>>
  BY DEF ResumeCrawlByID, dbVars
<1>2. BaseInv' /\ pc' = "top" /\ ResumeQueue \in Seq(Task)
  BY ResumeBase, ResumeType DEF SessionInv, SessionTypeOK
<1>3. pc = "done"
  BY <1>1 DEF Closure, EndSaved
<1>4. /\ Ahead = Range(overflow) /\ dbQueue = overflow /\ Marked = dbVisited
  BY <1>3, DoneAhead
<1>5. /\ Ahead' = Range(ResumeQueue) /\ Handed' \cup WaitUrls' = Urls(ResumeQueue)
      /\ Live' = Range(ResumeQueue) /\ visited' = ResumeVisited /\ newVisited' = {} /\ resultsCh' = <<>>
      /\ \A w \in Workers : wpc'[w] = "recv"
  BY <1>1, <1>2, AheadBegin
<1>6. Marked' = dbVisited /\ FetchedUrls' = FetchedUrls
  BY <1>1, <1>5 DEF Marked, FetchedUrls
<1>7. EndSaved' /\ FetchKnown'
  BY <1>1, <1>2, <1>5 DEF EndSaved, FetchKnown
<1>8. \A u \in URLs : OkPage(u)' => OkPage(u) /\ (AboveLimit(u)' <=> AboveLimit(u))
  BY <1>1, <1>5, EmptyQueue DEF OkPage, AboveLimit
<1>9. /\ Seed = OriginTask.url /\ Range(<<OriginTask>>) = {OriginTask} /\ Urls(<<OriginTask>>) = {Seed}
  <2>1. Seed = OriginTask.url
    BY DEF Seed, OriginTask
  <2>2. Range(<<OriginTask>>) = {OriginTask}
    BY DEF Range
  <2> QED BY <2>1, <2>2, UrlsOfRange
<1>10. CASE dbVisited = {}
  <2>1. ResumeQueue = <<OriginTask>> /\ ResumeVisited = {Seed}
    BY <1>10 DEF ResumeQueue, ResumeVisited, Seed
  <2>2. /\ Marked = {} /\ Marked' = {} /\ visited' = {Seed} /\ Handed' \cup WaitUrls' = {Seed}
        /\ (\A x \in Ahead' : x.url = Seed) /\ (\A x \in Live' : x.url = Seed)
    BY <1>4, <1>5, <1>6, <1>9, <1>10, <2>1
  <2>3. MarksKept'
    BY <1>2, <2>2 DEF MarksKept
  <2>4. VisitedKept'
    <3>1. \A v \in visited' : v \in Handed' \cup WaitUrls'
      BY <2>2
    <3>2. \A v \in visited' : KnownUrl(v)'
      BY <3>1, HandedInAhead DEF HandedIn, KnownUrl
    <3> QED BY <3>1, <3>2 DEF VisitedKept
  <2>5. FetchedUrls \subseteq {Seed}
    BY <2>2 DEF Closure, SeedFirst
  <2>6. SeedFirst'
    BY <1>6, <2>2, <2>5 DEF SeedFirst
  <2>7. LinksKept'
    <3>1. SeedAhead'
      BY <2>2 DEF SeedAhead
    <3>2. \A u \in URLs : OkPage(u)' => u \in FetchedUrls
      BY <1>8 DEF Closure, LinksKept
    <3> QED BY <1>6, <2>5, <3>1, <3>2 DEF LinksKept
  <2> QED BY <1>2, <1>7, <2>3, <2>4, <2>6, <2>7 DEF Closure
<1>11. CASE dbVisited # {}
  <2>1. visited' = dbVisited /\ ResumeQueue = IF dbQueue = <<>> THEN <<OriginTask>> ELSE dbQueue
    BY <1>5, <1>11 DEF ResumeQueue, ResumeVisited
  <2>2. Marked # {} /\ Marked' = Marked /\ visited' = Marked
    BY <1>4, <1>6, <1>11, <2>1
  <2>3. fetched[Seed] # <<>>
    BY <2>2 DEF Closure, SeedFirst
  <2>4. Marked \subseteq visited /\ visited \subseteq Marked \cup {Seed}
    BY <1>3 DEF Closure, MarksKept
  <2>5. ASSUME NEW v \in URLs, KnownUrl(v)
        PROVE  KnownUrl(v)' /\ (fetched'[v] # <<>> \/ v \in dropped' \/ v \in Handed' \cup WaitUrls')
    <3>1. CASE fetched[v] # <<>> \/ v \in dropped
      BY <1>1, <3>1 DEF KnownUrl
    <3>2. ASSUME NEW x \in Ahead, x.url = v, v \in visited \/ x.depth <= MaxDepth, fetched[v] = <<>>
          PROVE  KnownUrl(v)' /\ v \in Handed' \cup WaitUrls'
      <4>1. dbQueue # <<>>
        BY <1>4, <3>2, EmptyQueue
      <4>2. x \in Ahead'
        BY <1>4, <1>5, <2>1, <3>2, <4>1
      <4>3. v \in visited => v \in visited'
        BY <2>2, <2>3, <2>4, <3>2
      <4>4. v \in Handed' \cup WaitUrls'
        BY <1>5, <3>2, <4>2, UrlsOfRange
      <4> QED BY <3>2, <4>2, <4>3, <4>4 DEF KnownUrl
    <3> QED BY <2>5, <3>1, <3>2 DEF KnownUrl
  <2>6. MarksKept' /\ SeedFirst'
    BY <1>1, <1>2, <2>2, <2>3 DEF MarksKept, SeedFirst
  <2>7. VisitedKept'
    <3>1. \A v \in visited' : v \in URLs /\ KnownUrl(v)
      BY <2>2, <2>4 DEF Closure, VisitedKept, BaseInv, CountInv, TypeOK, CoordTypeOK
    <3> QED BY <2>5, <3>1 DEF VisitedKept
  <2>8. LinksKept'
    <3>1. SUFFICES ASSUME NEW u \in URLs, OkPage(u)'
                   PROVE  u \in FetchedUrls' /\ (AboveLimit(u)' => Followed(u)')
      BY DEF LinksKept
    <3>2. ~SeedAhead
      BY <2>2 DEF SeedAhead
    <3>3. u \in FetchedUrls /\ (AboveLimit(u)' => Followed(u))
      BY <1>8, <3>1, <3>2 DEF Closure, LinksKept
    <3>4. Range(Links[u]) \subseteq URLs
      BY CrawlerAssumption DEF Range
    <3>5. Followed(u) => Followed(u)'
      BY <2>5, <3>4 DEF Followed
    <3> QED BY <1>6, <3>3, <3>5
  <2> QED BY <1>2, <1>7, <2>6, <2>7, <2>8 DEF Closure
<1> QED BY <1>10, <1>11

\* Every step of an undisturbed session forgets nothing.
LEMMA ClosureStep == SessionInv /\ ClosureInv /\ [SessionNext]_allVars => ClosureInv'
<1> SUFFICES ASSUME SessionInv, ClosureInv, [SessionNext]_allVars, Undisturbed, crashes' = 0
             PROVE  Closure'
  BY DEF ClosureInv, Undisturbed
<1>1. crashes = 0 /\ ~Crash
  <2>1. crashes \in Nat
    BY SessionTypes
  <2>2. Crash => crashes' = crashes + 1
    BY DEF Crash
  <2>3. ~Crash
    BY <2>1, <2>2
  <2>4. crashes' = crashes
    BY <2>3 DEF SessionNext, CrawlStep, FinishSession, MarkStopped, ResumeCrawlByID, SessionOver,
       allVars, sessionVars
  <2> QED BY <2>3, <2>4
<1>2. Closure /\ EndSaved
  BY <1>1 DEF ClosureInv, Closure
<1>3. CASE CrawlStep
  BY <1>2, <1>3, ClosureCrawl
<1>4. CASE ResumeCrawlByID
  BY <1>2, <1>4, ResumeClosure
<1>5. CASE FinishSession
  <2>1. /\ UNCHANGED <<vars, dropped>> /\ proc' = "none" /\ pc = "done"
        /\ row' \in Tx(RowOf(IF metrics.StopReason = "stopped" THEN "stopped" ELSE "completed", metrics), row)
    BY <1>5 DEF FinishSession
  <2>2. row'.status = IF metrics.StopReason = "stopped" THEN "stopped" ELSE "completed"
    BY <2>1 DEF Tx, Undisturbed, RowOf
  <2>3. UNCHANGED <<pc, newVisited, dbQueue, overflow, metrics, cancelled>>
    BY <2>1 DEF vars, coordVars, dbVars
  <2>4. EndSaved'
    BY <1>2, <2>1, <2>2, <2>3 DEF EndSaved
  <2> QED BY <1>2, <2>1, <2>4, ClosureFrame
<1>6. CASE MarkStopped
  <2>1. /\ UNCHANGED <<vars, proc, dropped>> /\ row' \in Tx([row EXCEPT !.status = "stopped"], row)
    BY <1>6 DEF MarkStopped
  <2>2. row'.status = "stopped"
    <3>1. row \in Rows
      BY SessionTypes
    <3> QED BY <2>1, <3>1 DEF Tx, Undisturbed, Rows
  <2>3. UNCHANGED <<pc, newVisited, dbQueue, overflow, metrics, cancelled>>
    BY <2>1 DEF vars, coordVars, dbVars
  <2>4. EndSaved'
    BY <1>2, <2>1, <2>2, <2>3 DEF EndSaved
  <2> QED BY <1>2, <2>1, <2>4, ClosureFrame
<1>7. CASE SessionOver \/ UNCHANGED allVars
  <2>1. UNCHANGED <<vars, proc, row, dropped>>
    BY <1>7 DEF SessionOver, allVars, sessionVars
  <2>2. UNCHANGED <<pc, newVisited, dbQueue, overflow, metrics, cancelled>>
    BY <2>1 DEF vars, coordVars, dbVars
  <2>3. EndSaved'
    BY <1>2, <2>1, <2>2 DEF EndSaved
  <2> QED BY <1>2, <2>1, <2>3, ClosureFrame
<1> QED BY <1>1, <1>3, <1>4, <1>5, <1>6, <1>7 DEF SessionNext

\* At first there is nothing to forget.
LEMMA ClosureInit == SessionInit => ClosureInv
<1> SUFFICES ASSUME SessionInit, Undisturbed PROVE Closure
  BY DEF ClosureInv
<1>1. /\ proc = "run" /\ BaseInv /\ Init
  BY SessionInvInit DEF SessionInit, SessionInv
<1>2. /\ pc = "start" /\ visited = {} /\ newVisited = {} /\ dbVisited = {} /\ overflow = <<>> /\ newTasks = <<>>
      /\ batch = <<>> /\ taskCh = <<>> /\ discoveredCh = <<>> /\ resultsCh = <<>>
      /\ (\A w \in Workers : wpc[w] = "exit") /\ (\A u \in URLs : index[u] = 0 /\ fetched[u] = <<>>)
  BY <1>1 DEF Init
<1>3. Busy = {} /\ Checking = {} /\ Marked = {} /\ FetchedUrls = {}
  BY <1>2 DEF Busy, Checking, Marked, FetchedUrls
<1>4. Answered = {} /\ ToAnswer = {} /\ Live = {}
  BY <1>2, <1>3, EmptyQueue DEF Answered, ToAnswer, Live, Sent, LoopPCs
<1>5. Ahead = {}
  BY <1>2, <1>3, <1>4, EmptyQueue, AheadParts
<1>6. ~OkPage(Seed) /\ \A u \in URLs : ~OkPage(u)
  BY <1>2, EmptyQueue, OneSeed DEF OkPage
<1> QED BY <1>1, <1>2, <1>3, <1>4, <1>5, <1>6
        DEF Closure, EndSaved, MarksKept, VisitedKept, FetchKnown, SeedFirst, LinksKept

\* A session that completed after any number of stops and resumes has fetched
\* every link of its pages above the depth limit, except those that
\* deduplicateAndMark passed over although they were never fetched: for one
\* seed, without an URL limit, crashes and failing fetches or writes.
THEOREM SessionsAreClosed == SessionSpec => []SessionClosed
<1>1. ClosureInv => SessionClosed
  <2> SUFFICES ASSUME ClosureInv, proc = "none", row.status = "completed", crashes = 0, ~DBMayFail,
                      MaxURLs = 0, Len(Seeds) = 1, Flaky = {},
                      NEW u \in URLs, index[u] > 0, \A i \in DOMAIN fetched[u] : fetched[u][i] < MaxDepth,
                      NEW i \in DOMAIN Links[u]
               PROVE  fetched[Links[u][i]] # <<>> \/ Links[u][i] \in dropped
    BY DEF SessionClosed
  <2>1. Closure
    BY DEF ClosureInv, Undisturbed
  <2>2. pc = "done" /\ ~cancelled
    BY <2>1 DEF Closure, EndSaved
  <2>3. Ahead = {} /\ \A w \in Workers : wpc[w] = "exit"
    BY <2>1, <2>2, DoneAhead
  <2>4. ~SeedAhead
    <3>1. Seed \notin Handed \cup WaitUrls
      BY <2>3, HandedAhead
    <3> QED BY <2>2, <2>3, <3>1 DEF SeedAhead
  <2>5. Followed(u)
    BY <2>1, <2>4 DEF Closure, LinksKept, OkPage, AboveLimit
  <2>6. KnownUrl(Links[u][i])
    BY <2>5 DEF Followed, Range
  <2> QED BY <2>3, <2>6 DEF KnownUrl
<1>2. SessionSpec => []ClosureInv
  BY ClosureInit, ClosureStep, SessionInvAlways, PTL DEF SessionSpec
<1> QED BY <1>1, <1>2, PTL

=============================================================================
