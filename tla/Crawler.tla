------------------------------ MODULE Crawler ------------------------------
(***************************************************************************)
(* One crawl: Crawler.Start of internal/crawler/crawler.go with the three  *)
(* kinds of goroutine it runs and the channels between them.               *)
(*                                                                         *)
(*   coordinator  runs in Start's own goroutine, owns visited, overflow    *)
(*                and inFlight, and is the only sender on taskCh;          *)
(*   workers      receive tasks, fetch pages, send a page record on        *)
(*                resultsCh and the discovered links on discoveredCh;      *)
(*   indexer      receives page records, updates the index, flushes        *)
(*                postings to storage.                                     *)
(*                                                                         *)
(* An atomic step is one channel operation, one access to state shared     *)
(* with another goroutine, or one storage transaction, together with the   *)
(* goroutine-local work around it.  URLs are opaque: Links[u] is what      *)
(* processPage returns for u after normalising and filtering, in page      *)
(* order and with repetitions.  OriginURL, titles and body text are        *)
(* payload no step depends on and are left out.                            *)
(***************************************************************************)
EXTENDS Naturals, Sequences, FiniteSets, Functions

CONSTANTS
    URLs,        \* the pages of the web
    Links,       \* Links[u]: the valid crawl targets on page u, in order
    Seeds,       \* Config.Seeds(), in order
    Flaky,       \* pages whose fetch may fail although nobody cancelled it
    Workers,     \* the worker goroutines
    NoTask,      \* what a worker without a task holds
    QueueSize,   \* capacity of taskCh
    MaxDepth,    \* Config.MaxDepth
    MaxURLs,     \* Config.MaxURLs, 0 = unlimited
    FlushBatch,  \* pages whose postings fill a batch (500 rows in the code)
    DBMayFail    \* may a write to storage fail? (all errors are ignored)

Task == [url : URLs, depth : Nat]
Record == [url : URLs, ok : BOOLEAN]

ASSUME CrawlerAssumption ==
    /\ Links \in [URLs -> Seq(URLs)]
    /\ Seeds \in Seq(URLs)
    /\ Flaky \subseteq URLs
    /\ IsFiniteSet(Workers)
    /\ NoTask \notin Task
    /\ QueueSize \in Nat
    /\ MaxDepth \in Nat
    /\ MaxURLs \in Nat
    /\ FlushBatch \in Nat \ {0}
    /\ DBMayFail \in BOOLEAN

VARIABLES
    (* the goroutine of Start: the coordinator, then the shutdown *)
    pc,            \* where Start is
    inFlight,      \* tasks handed to taskCh and not yet answered
    overflow,      \* tasks that did not fit into taskCh
    visited,       \* the visited set
    newVisited,    \* visited since the last flush
    batch,         \* rest of the batch deduplicateAndMark works on
    newTasks,      \* its result, then what is left of it to enqueue
    (* channels *)
    taskCh, taskChClosed, discoveredCh, resultsCh,
    (* workers *)
    wpc,           \* wpc[w]: where worker w is
    wtask,         \* wtask[w]: the task it holds
    (* indexer *)
    ipc,           \* where the indexer is
    flushFor,      \* why it flushes: a full batch, the ticker or the close
    index,         \* index[u]: how often u was added to the index
    pending,       \* pages whose postings wait for a flush
    (* storage *)
    dbVisited,     \* session_visited_urls
    dbQueue,       \* queue
    dbPostings,    \* pages with rows in the postings table (a keyed table)
    pdata,         \* pdata[u]: how often the rows of u are in the file p.data
    (* shared *)
    cancelled,     \* ctx.Err() # nil
    metrics,       \* the atomic counters
    (* history *)
    fetched        \* fetched[u]: the depths at which u was fetched

coordVars == <<pc, inFlight, overflow, visited, newVisited, batch, newTasks>>
chanVars == <<taskCh, taskChClosed, discoveredCh, resultsCh>>
workerVars == <<wpc, wtask, fetched>>
indexVars == <<ipc, flushFor, index, pending, dbPostings, pdata>>
dbVars == <<dbVisited, dbQueue>>
vars == <<coordVars, chanVars, workerVars, indexVars, dbVars, cancelled, metrics>>

-----------------------------------------------------------------------------
(* Helpers *)

\* Both worker output channels are made with capacity NumWorkers*2.
NumWorkers == Cardinality(Workers)
OutCap == NumWorkers * 2

\* The seeds as tasks at depth 0, and the set of their URLs.
SeedQueue == [i \in DOMAIN Seeds |-> [url |-> Seeds[i], depth |-> 0]]
SeedSet == Range(Seeds)

\* Mutant: the depth of a link is not incremented.
LinkTasksSameDepth(t) ==
    [i \in DOMAIN Links[t.url] |-> [url |-> Links[t.url][i], depth |-> t.depth]]

\* The tasks a worker builds from the links on the page of task t.
LinkTasks(t) ==
    [i \in DOMAIN Links[t.url] |-> [url |-> Links[t.url][i], depth |-> t.depth + 1]]

\* How fetching u may end: it can always succeed; it can fail when the page is
\* flaky (timeout, non-HTML, ...) and when the request context is cancelled.
FetchOutcomes(u) == {TRUE} \cup (IF cancelled \/ u \in Flaky THEN {FALSE} ELSE {})

\* What a storage variable may hold after a transaction that would set it to
\* new: the callers ignore the error, so a failed transaction leaves old.
Tx(new, old) == IF DBMayFail THEN {new, old} ELSE {new}

urlLimitReached == MaxURLs > 0 /\ metrics.PagesProcessed >= MaxURLs

\* Mutants: one half of the loop condition is forgotten.
NothingInOverflow == overflow = <<>>
NothingInFlight == inFlight = 0

\* The coordinator loops while this does not hold.
NothingLeft == inFlight = 0 /\ overflow = <<>>

\* Mutants: a test is missing or off by one.
SkippedIfVisited(t) == t.url \in visited
SkippedIfDeep(t) == t.depth > MaxDepth
SkippedTooEarly(t) == t.depth >= MaxDepth \/ t.url \in visited
VisitedOverfull == MaxURLs > 0 /\ Cardinality(visited) > MaxURLs

\* The tests of deduplicateAndMark on one task.
Skipped(t) == t.depth > MaxDepth \/ t.url \in visited
VisitedFull == MaxURLs > 0 /\ Cardinality(visited) >= MaxURLs

\* Mutant: the overflow is not part of the queue depth.
QueueMetricsWithoutOverflow(m, n, o) ==
    [m EXCEPT !.QueueDepth = n, !.OverflowSize = Len(o)]

\* updateQueueMetrics for the counter and the overflow buffer given.
WithQueueMetrics(m, n, o) ==
    [m EXCEPT !.QueueDepth = n + Len(o), !.OverflowSize = Len(o)]

\* A send on taskCh: into the buffer or, when the channel is unbuffered, to a
\* worker that waits for a task.
Send(t) ==
    \/ /\ Len(taskCh) < QueueSize
       /\ taskCh' = Append(taskCh, t)
       /\ UNCHANGED <<wpc, wtask>>
    \/ \E w \in Workers :
       /\ QueueSize = 0
       /\ wpc[w] = "recv"
       /\ wpc' = [wpc EXCEPT ![w] = "check"]
       /\ wtask' = [wtask EXCEPT ![w] = t]
       /\ UNCHANGED taskCh

\* The writes to storage: three SQLite transactions, committed or rolled back,
\* and an append to the file p.data, which unlike the tables keeps duplicates.
SaveSessionQueuedTasks(q) == dbQueue' \in Tx(q, dbQueue)
AddSessionVisitedURLs(us) == dbVisited' \in Tx(dbVisited \cup us, dbVisited)
SavePostingsBatch(ps) == dbPostings' \in Tx(dbPostings \cup Range(ps), dbPostings)
AppendPostingsToFile(ps) ==
    pdata' \in Tx([u \in URLs |-> pdata[u] + Cardinality({i \in DOMAIN ps : ps[i] = u})], pdata)

flushVisited == AddSessionVisitedURLs(newVisited) /\ newVisited' = {}

-----------------------------------------------------------------------------
(* Start: set-up *)

ZeroMetrics ==
    [PagesProcessed |-> 0, PagesQueued |-> 0, PagesErrored |-> 0, IndexedDocs |-> 0,
     QueueDepth |-> 0, OverflowSize |-> 0, ActiveWorkers |-> 0,
     CrawlDone |-> FALSE, StopReason |-> "none"]

Init ==
    /\ pc = "start"
    /\ inFlight = 0 /\ overflow = <<>>
    /\ visited = {} /\ newVisited = {}
    /\ batch = <<>> /\ newTasks = <<>>
    /\ taskCh = <<>> /\ taskChClosed = FALSE
    /\ discoveredCh = <<>> /\ resultsCh = <<>>
    /\ wpc = [w \in Workers |-> "exit"]
    /\ wtask = [w \in Workers |-> NoTask]
    /\ ipc = "exit" /\ flushFor = "none"
    /\ index = [u \in URLs |-> 0]
    /\ pending = <<>> /\ dbPostings = {} /\ pdata = [u \in URLs |-> 0]
    /\ dbVisited = {} /\ dbQueue = <<>>
    /\ cancelled = FALSE
    /\ metrics = ZeroMetrics
    /\ fetched = [u \in URLs |-> <<>>]

\* The body of Start up to the launch of the goroutines, for the visited set
\* vis and the initial queue q: what fits goes into taskCh, the rest overflows.
Begin(vis, q) ==
    LET enqueued == IF Len(q) < QueueSize THEN Len(q) ELSE QueueSize IN
    /\ pc' = "top"
    /\ visited' = vis
    /\ newVisited' = {} /\ batch' = <<>> /\ newTasks' = <<>>
    /\ taskCh' = SubSeq(q, 1, enqueued)
    /\ overflow' = SubSeq(q, enqueued + 1, Len(q))
    /\ inFlight' = enqueued
    /\ taskChClosed' = FALSE /\ discoveredCh' = <<>> /\ resultsCh' = <<>>
    /\ wpc' = [w \in Workers |-> "recv"]
    /\ wtask' = [w \in Workers |-> NoTask]
    /\ ipc' = "select" /\ flushFor' = "none"
    /\ pending' = <<>>

\* Start(ctx, nil): a fresh crawl of the seeds.
Start ==
    /\ pc = "start"
    /\ Begin(SeedSet, SeedQueue)
    /\ metrics' = [metrics EXCEPT !.PagesQueued = @ + Len(SeedQueue),
                                  !.QueueDepth = Len(SeedQueue),
                                  !.ActiveWorkers = NumWorkers]
    /\ UNCHANGED <<index, dbPostings, pdata, dbVars, cancelled, fetched>>

\* StopCrawl, StopCrawlByID or a signal cancels the context of the crawl.
Cancel ==
    /\ pc # "done"
    /\ ~cancelled
    /\ cancelled' = TRUE
    /\ UNCHANGED <<coordVars, chanVars, workerVars, indexVars, dbVars, metrics>>

-----------------------------------------------------------------------------
(* The coordinator: coordinatorLoop *)

\* The loop condition is false.
LoopExit ==
    /\ pc = "top"
    /\ NothingLeft
    /\ pc' = "finish"
    /\ UNCHANGED <<inFlight, overflow, visited, newVisited, batch, newTasks,
                   chanVars, workerVars, indexVars, dbVars, cancelled, metrics>>

\* The URL limit is reached: forget the overflow, leave or wait for an answer.
LoopLimit ==
    /\ pc = "top"
    /\ ~NothingLeft
    /\ urlLimitReached
    /\ overflow' = <<>>
    /\ pc' = IF inFlight = 0 THEN "finish" ELSE "limit"
    /\ UNCHANGED <<inFlight, visited, newVisited, batch, newTasks,
                   chanVars, workerVars, indexVars, dbVars, cancelled, metrics>>

\* Mutant: the overflow is only drained while workers have something to do.
LoopSelectBusyOnly ==
    /\ pc = "top"
    /\ ~NothingLeft
    /\ ~urlLimitReached
    /\ pc' = IF overflow # <<>> /\ inFlight > 0 THEN "overflow" ELSE "idle"
    /\ UNCHANGED <<inFlight, overflow, visited, newVisited, batch, newTasks,
                   chanVars, workerVars, indexVars, dbVars, cancelled, metrics>>

\* Otherwise enter one of the two selects.
LoopSelect ==
    /\ pc = "top"
    /\ ~NothingLeft
    /\ ~urlLimitReached
    /\ pc' = IF overflow # <<>> THEN "overflow" ELSE "idle"
    /\ UNCHANGED <<inFlight, overflow, visited, newVisited, batch, newTasks,
                   chanVars, workerVars, indexVars, dbVars, cancelled, metrics>>

\* case <-discoveredCh of the select after the URL limit: the batch is dropped.
LimitRecv ==
    /\ pc = "limit"
    /\ discoveredCh # <<>>
    /\ discoveredCh' = Tail(discoveredCh)
    /\ inFlight' = inFlight - 1
    /\ metrics' = WithQueueMetrics(metrics, inFlight - 1, overflow)
    /\ pc' = "top"
    /\ UNCHANGED <<overflow, visited, newVisited, batch, newTasks, taskCh, taskChClosed,
                   resultsCh, workerVars, indexVars, dbVars, cancelled>>

\* case taskCh <- overflow[0].
SendOverflow ==
    /\ pc = "overflow"
    /\ Send(Head(overflow))
    /\ overflow' = Tail(overflow)
    /\ inFlight' = inFlight + 1
    /\ metrics' = WithQueueMetrics(metrics, inFlight + 1, Tail(overflow))
    /\ pc' = "top"
    /\ UNCHANGED <<visited, newVisited, batch, newTasks, taskChClosed, discoveredCh,
                   resultsCh, fetched, indexVars, dbVars, cancelled>>

\* Mutant: an answer is counted twice.
RecvBatchTwice ==
    /\ pc \in {"overflow", "idle"}
    /\ discoveredCh # <<>>
    /\ batch' = Head(discoveredCh)
    /\ discoveredCh' = Tail(discoveredCh)
    /\ inFlight' = inFlight - 2
    /\ newTasks' = <<>>
    /\ pc' = "dedup"
    /\ UNCHANGED <<overflow, visited, newVisited, taskCh, taskChClosed, resultsCh,
                   workerVars, indexVars, dbVars, cancelled, metrics>>

\* case batch := <-discoveredCh, in either select.
RecvBatch ==
    /\ pc \in {"overflow", "idle"}
    /\ discoveredCh # <<>>
    /\ batch' = Head(discoveredCh)
    /\ discoveredCh' = Tail(discoveredCh)
    /\ inFlight' = inFlight - 1
    /\ newTasks' = <<>>
    /\ pc' = "dedup"
    /\ UNCHANGED <<overflow, visited, newVisited, taskCh, taskChClosed, resultsCh,
                   workerVars, indexVars, dbVars, cancelled, metrics>>

\* case <-persistTicker.C, in either select.
PersistTick ==
    /\ pc \in {"overflow", "idle"}
    /\ flushVisited
    /\ pc' = "top"
    /\ UNCHANGED <<inFlight, overflow, visited, batch, newTasks, chanVars,
                   workerVars, indexVars, dbQueue, cancelled, metrics>>

\* case <-ctx.Done(), in any select: drainInFlight first closes taskCh.
CtxDone ==
    /\ pc \in {"limit", "overflow", "idle"}
    /\ cancelled
    /\ taskChClosed' = TRUE
    /\ pc' = "drain"
    /\ UNCHANGED <<inFlight, overflow, visited, newVisited, batch, newTasks, taskCh,
                   discoveredCh, resultsCh, workerVars, indexVars, dbVars, cancelled, metrics>>

\* deduplicateAndMark passes over a task that is too deep or already visited.
DedupSkip ==
    /\ pc = "dedup"
    /\ batch # <<>>
    /\ Skipped(Head(batch))
    /\ batch' = Tail(batch)
    /\ UNCHANGED <<pc, inFlight, overflow, visited, newVisited, newTasks, chanVars,
                   workerVars, indexVars, dbVars, cancelled, metrics>>

\* It stops at the first new URL once MaxURLs URLs are marked.
DedupBreak ==
    /\ pc = "dedup"
    /\ batch # <<>>
    /\ ~Skipped(Head(batch))
    /\ VisitedFull
    /\ batch' = <<>>
    /\ UNCHANGED <<pc, inFlight, overflow, visited, newVisited, newTasks, chanVars,
                   workerVars, indexVars, dbVars, cancelled, metrics>>

\* It marks and keeps a new URL.
DedupMark ==
    /\ pc = "dedup"
    /\ batch # <<>>
    /\ ~Skipped(Head(batch))
    /\ ~VisitedFull
    /\ visited' = visited \cup {Head(batch).url}
    /\ newVisited' = newVisited \cup {Head(batch).url}
    /\ newTasks' = Append(newTasks, Head(batch))
    /\ batch' = Tail(batch)
    /\ metrics' = [metrics EXCEPT !.PagesQueued = @ + 1]
    /\ UNCHANGED <<pc, inFlight, overflow, chanVars, workerVars, indexVars, dbVars, cancelled>>

\* Mutant: the new tasks replace the waiting ones.
ReplaceByNew ==
    /\ pc = "dedup"
    /\ batch = <<>> /\ overflow # <<>>
    /\ overflow' = newTasks
    /\ newTasks' = <<>>
    /\ metrics' = WithQueueMetrics(metrics, inFlight, newTasks)
    /\ pc' = "top"
    /\ UNCHANGED <<inFlight, visited, newVisited, batch, chanVars, workerVars,
                   indexVars, dbVars, cancelled>>

\* The select entered with a non-empty overflow appends the new tasks to it.
AppendNew ==
    /\ pc = "dedup"
    /\ batch = <<>> /\ overflow # <<>>
    /\ overflow' = overflow \o newTasks
    /\ newTasks' = <<>>
    /\ metrics' = WithQueueMetrics(metrics, inFlight, overflow \o newTasks)
    /\ pc' = "top"
    /\ UNCHANGED <<inFlight, visited, newVisited, batch, chanVars, workerVars,
                   indexVars, dbVars, cancelled>>

\* The other select tries to send them one by one.
BeginEnqueue ==
    /\ pc = "dedup"
    /\ batch = <<>> /\ overflow = <<>>
    /\ pc' = "enqueue"
    /\ UNCHANGED <<inFlight, overflow, visited, newVisited, batch, newTasks, chanVars,
                   workerVars, indexVars, dbVars, cancelled, metrics>>

\* Mutant: a task that does not fit is dropped.
EnqueueDrop ==
    /\ pc = "enqueue"
    /\ newTasks # <<>>
    /\ Len(taskCh) >= QueueSize
    /\ newTasks' = Tail(newTasks)
    /\ UNCHANGED <<pc, inFlight, overflow, visited, newVisited, batch, chanVars, workerVars,
                   indexVars, dbVars, cancelled, metrics>>

\* case taskCh <- t of the non-blocking send.
EnqueueSend ==
    /\ pc = "enqueue"
    /\ newTasks # <<>>
    /\ Send(Head(newTasks))
    /\ newTasks' = Tail(newTasks)
    /\ inFlight' = inFlight + 1
    /\ UNCHANGED <<pc, overflow, visited, newVisited, batch, taskChClosed, discoveredCh,
                   resultsCh, fetched, indexVars, dbVars, cancelled, metrics>>

\* default of the non-blocking send: the buffer is full (with an unbuffered
\* channel: no worker has reached its receive yet).
EnqueueOverflow ==
    /\ pc = "enqueue"
    /\ newTasks # <<>>
    /\ Len(taskCh) >= QueueSize
    /\ overflow' = Append(overflow, Head(newTasks))
    /\ newTasks' = Tail(newTasks)
    /\ UNCHANGED <<pc, inFlight, visited, newVisited, batch, chanVars, workerVars,
                   indexVars, dbVars, cancelled, metrics>>

EnqueueDone ==
    /\ pc = "enqueue"
    /\ newTasks = <<>>
    /\ metrics' = WithQueueMetrics(metrics, inFlight, overflow)
    /\ pc' = "top"
    /\ UNCHANGED <<inFlight, overflow, visited, newVisited, batch, newTasks, chanVars,
                   workerVars, indexVars, dbVars, cancelled>>

\* drainInFlight: every answer, whatever it holds, is appended to overflow.
DrainRecv ==
    /\ pc = "drain"
    /\ inFlight > 0
    /\ discoveredCh # <<>>
    /\ overflow' = overflow \o Head(discoveredCh)
    /\ discoveredCh' = Tail(discoveredCh)
    /\ inFlight' = inFlight - 1
    /\ UNCHANGED <<pc, visited, newVisited, batch, newTasks, taskCh, taskChClosed, resultsCh,
                   workerVars, indexVars, dbVars, cancelled, metrics>>

\* saveQueue, first transaction: replace the saved queue by overflow.
SaveQueue ==
    /\ pc = "drain"
    /\ inFlight = 0
    /\ SaveSessionQueuedTasks(overflow)
    /\ pc' = "saveVisited"
    /\ UNCHANGED <<inFlight, overflow, visited, newVisited, batch, newTasks, chanVars,
                   workerVars, indexVars, dbVisited, cancelled, metrics>>

\* saveQueue, second transaction; coordinatorLoop returns.
SaveVisited ==
    /\ pc = "saveVisited"
    /\ flushVisited
    /\ pc' = "wait"
    /\ UNCHANGED <<inFlight, overflow, visited, batch, newTasks, chanVars,
                   workerVars, indexVars, dbQueue, cancelled, metrics>>

\* Mutant: only a stopped crawl flushes its visited set.
FinishNoFlush ==
    /\ pc = "finish"
    /\ pc' = "clearQueue"
    /\ UNCHANGED <<inFlight, overflow, visited, newVisited, batch, newTasks, chanVars,
                   workerVars, indexVars, dbVars, cancelled, metrics>>

\* Normal completion: flush the visited set, ...
FinishFlush ==
    /\ pc = "finish"
    /\ flushVisited
    /\ pc' = "clearQueue"
    /\ UNCHANGED <<inFlight, overflow, visited, batch, newTasks, chanVars,
                   workerVars, indexVars, dbQueue, cancelled, metrics>>

\* ... clear the saved queue; the deferred closeTaskCh closes the channel.
FinishClear ==
    /\ pc = "clearQueue"
    /\ SaveSessionQueuedTasks(<<>>)
    /\ taskChClosed' = TRUE
    /\ pc' = "wait"
    /\ UNCHANGED <<inFlight, overflow, visited, newVisited, batch, newTasks, taskCh,
                   discoveredCh, resultsCh, workerVars, indexVars, dbVisited, cancelled, metrics>>

-----------------------------------------------------------------------------
(* The end of Start *)

\* wg.Wait() returns when every worker has; then resultsCh is closed.
CloseResults ==
    /\ pc = "wait"
    /\ \A w \in Workers : wpc[w] = "exit"
    /\ pc' = "resultsClosed"
    /\ UNCHANGED <<inFlight, overflow, visited, newVisited, batch, newTasks, chanVars,
                   workerVars, indexVars, dbVars, cancelled, metrics>>

\* Mutant: the URL limit is compared with > instead of >=.
StopReasonOffByOne ==
    IF cancelled THEN "stopped"
    ELSE IF MaxURLs > 0 /\ metrics.PagesProcessed > MaxURLs THEN "url_limit" ELSE "completed"

StopReasonNow ==
    IF cancelled THEN "stopped" ELSE IF urlLimitReached THEN "url_limit" ELSE "completed"

\* <-indexDone, then the stop reason and the final metrics; Start returns.
Finish ==
    /\ pc = "resultsClosed"
    /\ ipc = "exit"
    /\ metrics' = [metrics EXCEPT !.StopReason = StopReasonNow, !.CrawlDone = TRUE,
                                  !.ActiveWorkers = 0, !.QueueDepth = 0]
    /\ pc' = "done"
    /\ UNCHANGED <<inFlight, overflow, visited, newVisited, batch, newTasks, chanVars,
                   workerVars, indexVars, dbVars, cancelled>>

-----------------------------------------------------------------------------
(* A worker: workerLoop *)

\* for task := range taskCh: the next task, ...
WorkerRecv(w) ==
    /\ wpc[w] = "recv"
    /\ taskCh # <<>>
    /\ wtask' = [wtask EXCEPT ![w] = Head(taskCh)]
    /\ taskCh' = Tail(taskCh)
    /\ wpc' = [wpc EXCEPT ![w] = "check"]
    /\ UNCHANGED <<coordVars, taskChClosed, discoveredCh, resultsCh, fetched, indexVars,
                   dbVars, cancelled, metrics>>

\* ... or the end of the loop when the channel is closed and empty.
WorkerExit(w) ==
    /\ wpc[w] = "recv"
    /\ taskCh = <<>> /\ taskChClosed
    /\ wpc' = [wpc EXCEPT ![w] = "exit"]
    /\ UNCHANGED <<coordVars, chanVars, wtask, fetched, indexVars, dbVars, cancelled, metrics>>

\* Mutant: the worker drops the task without an answer.
WorkerDrop(w) ==
    /\ wpc[w] = "check"
    /\ cancelled
    /\ wpc' = [wpc EXCEPT ![w] = "recv"]
    /\ UNCHANGED <<coordVars, chanVars, wtask, fetched, indexVars, dbVars, cancelled, metrics>>

\* ctx.Err() # nil: the task will be handed back.
WorkerGiveBack(w) ==
    /\ wpc[w] = "check"
    /\ cancelled
    /\ wpc' = [wpc EXCEPT ![w] = "return"]
    /\ UNCHANGED <<coordVars, chanVars, wtask, fetched, indexVars, dbVars, cancelled, metrics>>

\* Otherwise processPage starts to fetch the page.
WorkerFetch(w) ==
    /\ wpc[w] = "check"
    /\ ~cancelled
    /\ wpc' = [wpc EXCEPT ![w] = "fetch"]
    /\ fetched' = [fetched EXCEPT ![wtask[w].url] = Append(@, wtask[w].depth)]
    /\ UNCHANGED <<coordVars, chanVars, wtask, indexVars, dbVars, cancelled, metrics>>

\* processPage returns and the record is sent on resultsCh.
WorkerResult(w) ==
    /\ wpc[w] = "fetch"
    /\ Len(resultsCh) < OutCap
    /\ \E ok \in FetchOutcomes(wtask[w].url) :
        /\ resultsCh' = Append(resultsCh, [url |-> wtask[w].url, ok |-> ok])
        /\ wpc' = [wpc EXCEPT ![w] = IF ok THEN "found" ELSE "failed"]
    /\ UNCHANGED <<coordVars, taskCh, taskChClosed, discoveredCh, wtask, fetched, indexVars,
                   dbVars, cancelled, metrics>>

\* Mutant: an empty answer instead of the task that is handed back.
AnswerWithoutTask(w) == IF wpc[w] = "found" THEN LinkTasks(wtask[w]) ELSE <<>>

\* What a worker answers: its own task when it hands it back, the links of the
\* page when the fetch succeeded, nothing when it failed.
Answer(w) ==
    CASE wpc[w] = "return" -> <<wtask[w]>>
      [] wpc[w] = "found"  -> LinkTasks(wtask[w])
      [] OTHER             -> <<>>

\* discoveredCh <- ...
WorkerAnswer(w) ==
    /\ wpc[w] \in {"return", "found", "failed"}
    /\ Len(discoveredCh) < OutCap
    /\ discoveredCh' = Append(discoveredCh, Answer(w))
    /\ wpc' = [wpc EXCEPT ![w] = "recv"]
    /\ wtask' = [wtask EXCEPT ![w] = NoTask]
    /\ UNCHANGED <<coordVars, taskCh, taskChClosed, resultsCh, fetched, indexVars, dbVars,
                   cancelled, metrics>>

-----------------------------------------------------------------------------
(* The indexer: the anonymous goroutine of Start *)

\* case record <- resultsCh: an error record is only counted.
IndexError ==
    /\ ipc = "select"
    /\ resultsCh # <<>> /\ ~Head(resultsCh).ok
    /\ resultsCh' = Tail(resultsCh)
    /\ metrics' = [metrics EXCEPT !.PagesErrored = @ + 1, !.PagesProcessed = @ + 1]
    /\ UNCHANGED <<coordVars, taskCh, taskChClosed, discoveredCh, workerVars, indexVars,
                   dbVars, cancelled>>

\* A page is indexed and its postings join the pending ones.  PagesProcessed
\* is counted last, so after the flush when the batch is full.
IndexPage ==
    /\ ipc = "select"
    /\ resultsCh # <<>> /\ Head(resultsCh).ok
    /\ resultsCh' = Tail(resultsCh)
    /\ index' = [index EXCEPT ![Head(resultsCh).url] = @ + 1]
    /\ pending' = Append(pending, Head(resultsCh).url)
    /\ IF Len(pending) + 1 >= FlushBatch
       THEN /\ metrics' = [metrics EXCEPT !.IndexedDocs = @ + 1]
            /\ ipc' = "save" /\ flushFor' = "batch"
       ELSE /\ metrics' = [metrics EXCEPT !.IndexedDocs = @ + 1, !.PagesProcessed = @ + 1]
            /\ UNCHANGED <<ipc, flushFor>>
    /\ UNCHANGED <<coordVars, taskCh, taskChClosed, discoveredCh, workerVars, dbPostings,
                   pdata, dbVars, cancelled>>

\* case <-flushInterval.C.
IndexTick ==
    /\ ipc = "select"
    /\ pending # <<>>
    /\ ipc' = "save" /\ flushFor' = "tick"
    /\ UNCHANGED <<coordVars, chanVars, workerVars, index, pending, dbPostings, pdata,
                   dbVars, cancelled, metrics>>

\* Mutant: the goroutine returns without the last flush.
IndexClosedNoFlush ==
    /\ ipc = "select"
    /\ pc = "resultsClosed" /\ resultsCh = <<>>
    /\ ipc' = "exit"
    /\ UNCHANGED <<coordVars, chanVars, workerVars, flushFor, index, pending, dbPostings, pdata,
                   dbVars, cancelled, metrics>>

\* resultsCh is closed and empty: flush what is left, if anything, and return.
IndexClosed ==
    /\ ipc = "select"
    /\ pc = "resultsClosed" /\ resultsCh = <<>>
    /\ IF pending # <<>>
       THEN ipc' = "save" /\ flushFor' = "close"
       ELSE ipc' = "exit" /\ UNCHANGED flushFor
    /\ UNCHANGED <<coordVars, chanVars, workerVars, index, pending, dbPostings, pdata,
                   dbVars, cancelled, metrics>>

\* Every flush: SavePostingsBatch, one upsert transaction, ...
IndexSave ==
    /\ ipc = "save"
    /\ SavePostingsBatch(pending)
    /\ ipc' = "append"
    /\ UNCHANGED <<coordVars, chanVars, workerVars, flushFor, index, pending, pdata,
                   dbVars, cancelled, metrics>>

\* ... then AppendPostingsToFile, and the goroutine goes on or returns.
IndexAppend ==
    /\ ipc = "append"
    /\ AppendPostingsToFile(pending)
    /\ pending' = <<>>
    /\ ipc' = IF flushFor = "close" THEN "exit" ELSE "select"
    /\ flushFor' = "none"
    /\ metrics' = [metrics EXCEPT !.PagesProcessed = @ + (IF flushFor = "batch" THEN 1 ELSE 0)]
    /\ UNCHANGED <<coordVars, chanVars, workerVars, index, dbPostings, dbVars, cancelled>>

-----------------------------------------------------------------------------
(* The specification *)

\* Steps of coordinatorLoop outside its selects, and of the rest of Start.
StartStep ==
    \/ Start \/ LoopExit \/ LoopLimit \/ LoopSelect
    \/ DedupSkip \/ DedupBreak \/ DedupMark \/ AppendNew \/ BeginEnqueue
    \/ EnqueueSend \/ EnqueueOverflow \/ EnqueueDone
    \/ DrainRecv \/ SaveQueue \/ SaveVisited \/ FinishFlush \/ FinishClear
    \/ CloseResults \/ Finish

\* The cases of its selects.
SelectStep == LimitRecv \/ SendOverflow \/ RecvBatch \/ PersistTick \/ CtxDone

WorkerStep(w) ==
    \/ WorkerRecv(w) \/ WorkerExit(w) \/ WorkerGiveBack(w)
    \/ WorkerFetch(w) \/ WorkerResult(w) \/ WorkerAnswer(w)

IndexerStep ==
    \/ IndexError \/ IndexPage \/ IndexTick \/ IndexClosed \/ IndexSave \/ IndexAppend

\* Start has returned; nothing of the crawl runs any more.
Terminated == pc = "done" /\ UNCHANGED vars

Next ==
    \/ StartStep \/ SelectStep
    \/ \E w \in Workers : WorkerStep(w)
    \/ IndexerStep
    \/ Cancel
    \/ Terminated

Spec == Init /\ [][Next]_vars

\* The Go scheduler runs every goroutine that can run, and RequestTimeout ends
\* every fetch: weak fairness for each goroutine.  A select picks uniformly
\* among its ready cases, so a case that is ready again and again is taken in
\* the end even though the ticker keeps ending the select: strong fairness.
Fairness ==
    /\ WF_vars(StartStep)
    /\ SF_vars(LimitRecv) /\ SF_vars(SendOverflow) /\ SF_vars(RecvBatch) /\ SF_vars(CtxDone)
    /\ \A w \in Workers : WF_vars(WorkerStep(w))
    /\ WF_vars(IndexError \/ IndexPage \/ IndexClosed \/ IndexSave \/ IndexAppend)

FairSpec == Spec /\ Fairness

-----------------------------------------------------------------------------
(* Properties *)

StartPCs == {"start", "top", "limit", "overflow", "idle", "dedup", "enqueue", "drain",
             "saveVisited", "finish", "clearQueue", "wait", "resultsClosed", "done"}
WorkerPCs == {"exit", "recv", "check", "fetch", "found", "failed", "return"}

CoordTypeOK ==
    /\ pc \in StartPCs
    /\ inFlight \in Nat
    /\ overflow \in Seq(Task) /\ batch \in Seq(Task) /\ newTasks \in Seq(Task)
    /\ visited \subseteq URLs /\ newVisited \subseteq URLs

ChanTypeOK ==
    /\ taskCh \in Seq(Task) /\ taskChClosed \in BOOLEAN
    /\ discoveredCh \in Seq(Seq(Task)) /\ resultsCh \in Seq(Record)

WorkerTypeOK ==
    /\ wpc \in [Workers -> WorkerPCs]
    /\ wtask \in [Workers -> Task \cup {NoTask}]
    /\ fetched \in [URLs -> Seq(Nat)]

IndexTypeOK ==
    /\ ipc \in {"exit", "select", "save", "append"}
    /\ flushFor \in {"none", "batch", "tick", "close"}
    /\ index \in [URLs -> Nat] /\ pdata \in [URLs -> Nat]
    /\ pending \in Seq(URLs)
    /\ dbPostings \subseteq URLs

DbTypeOK == dbVisited \subseteq URLs /\ dbQueue \in Seq(Task)

Metrics ==
    [PagesProcessed : Nat, PagesQueued : Nat, PagesErrored : Nat, IndexedDocs : Nat,
     QueueDepth : Nat, OverflowSize : Nat, ActiveWorkers : Nat, CrawlDone : BOOLEAN,
     StopReason : {"none", "completed", "url_limit", "stopped"}]

\* Every variable has its type; in particular the counter inFlight, which the
\* code decrements without a test, never becomes negative.
TypeOK ==
    /\ CoordTypeOK /\ ChanTypeOK /\ WorkerTypeOK /\ IndexTypeOK /\ DbTypeOK
    /\ metrics \in Metrics
    /\ cancelled \in BOOLEAN

\* The workers that hold a task they have not answered.
Busy == {w \in Workers : wpc[w] \in {"check", "fetch", "found", "failed", "return"}}

\* The bookkeeping completion rests on: inFlight counts exactly the tasks in
\* taskCh, in the hands of a worker, or answered on discoveredCh.
InFlightExact ==
    inFlight = Len(taskCh) + Cardinality(Busy) + Len(discoveredCh)

\* Whichever way the coordinator ended, it left no task in a channel and no
\* worker at work: wg.Wait cannot block and no answer is lost.
QuietAtEnd ==
    pc \in {"finish", "clearQueue", "saveVisited", "wait", "resultsClosed", "done"}
        => taskCh = <<>> /\ discoveredCh = <<>> /\ Busy = {}

Urls(s) == {s[i].url : i \in DOMAIN s}

\* The URLs some goroutine still has to deal with: queued, or held by a worker
\* that has not started the fetch.
Outstanding ==
    Urls(overflow) \cup Urls(newTasks) \cup Urls(taskCh)
        \cup {wtask[w].url : w \in {v \in Workers : wpc[v] = "check"}}

\* The visited set and the queues stay in step while the crawl goes on: a URL
\* that was marked visited has been fetched or still waits its turn.
NoTaskLost ==
    ~cancelled /\ ~urlLimitReached
        => \A u \in visited : fetched[u] # <<>> \/ u \in Outstanding

\* No page is fetched twice in one crawl (the seeds must be distinct).
AtMostOnce == \A u \in URLs : Len(fetched[u]) <= 1

\* MaxURLs bounds the pages that are fetched (the seeds, if they are more, are
\* all fetched); what is checked is len(visited), which only stands for it.
URLLimitRespected ==
    MaxURLs > 0 => Cardinality({u \in URLs : fetched[u] # <<>>})
                      <= (IF MaxURLs < Len(Seeds) THEN Len(Seeds) ELSE MaxURLs)

\* The reason "completed" is earned: every link of every indexed page above
\* the depth limit was fetched, and all seeds were.
CompletedIsClosed ==
    metrics.StopReason = "completed" =>
        /\ \A u \in SeedSet : fetched[u] # <<>>
        /\ \A u \in URLs : index[u] > 0 /\ (\E i \in DOMAIN fetched[u] : fetched[u][i] < MaxDepth)
              => \A i \in DOMAIN Links[u] : fetched[Links[u][i]] # <<>>

\* Start returns only when every fetched page was accounted for, and what was
\* indexed was also written to the postings table and to p.data, each page as
\* often as it was indexed.
EverythingFlushed ==
    pc = "done" =>
        /\ metrics.PagesProcessed = metrics.IndexedDocs + metrics.PagesErrored
        /\ \A u \in URLs : index[u] <= Len(fetched[u])
        /\ ~DBMayFail => pdata = index /\ dbPostings = {u \in URLs : index[u] > 0}

\* However the crawl ends, session_visited_urls holds what it marked, apart from
\* the seeds, which are never written there.
VisitedSaved == pc = "done" /\ ~DBMayFail => dbVisited = visited \ SeedSet

\* The dashboard's queue depth is right whenever the coordinator waits.
QueueDepthTruthful ==
    pc \in {"overflow", "idle"} => metrics.QueueDepth = inFlight + Len(overflow)

\* What drainInFlight may come to save: the overflow, the tasks the workers
\* have not taken or hand back, and the links they found.
Drainable ==
    UNION ({Range(overflow), Range(taskCh)}
           \cup {Range(discoveredCh[i]) : i \in DOMAIN discoveredCh}
           \cup {Range(Answer(w)) : w \in Busy}
           \cup {{wtask[w]} : w \in {v \in Workers : wpc[v] = "check"}})

\* From the moment the coordinator sees the cancellation no task is lost on
\* its way into the saved queue.
DrainKeepsTasks == [][pc = "drain" => Drainable \subseteq Drainable']_vars

\* Every crawl of a finite web ends, with or without cancellation.
Termination == <>(pc = "done")

=============================================================================
