# A TLA+ model of the Google-in-a-Day crawler

This directory specifies the concurrent core of the crawler in `../src`: what a
single crawl does with its goroutines and channels, what becomes of a session that
is stopped, resumed and crashed, what the session manager does with many crawls,
HTTP requests, the database and restarts, and what the index, its files and a
search make of all that. TLC checks small instances; TLAPS proves every safety
property that holds, and that a crawl implements its abstract specification, for all
instances.

    tlc -config crawl_site.cfg MCSite         # any run of the table below
    tlapm CrawlerProofs.tla                   # all proofs of a module

## 1. Inventory of the system

| Component | Source | State | Operations |
|---|---|---|---|
| Coordinator | `internal/crawler/crawler.go` `Start`, `coordinatorLoop`, `deduplicateAndMark` | `visited`, `newVisited`, `overflow`, `inFlight`, `taskCh` (only sender) | enqueue seeds, receive answers, deduplicate, enqueue or overflow, persist visited URLs every 2 s, drain and save on cancellation, clear on completion |
| Workers | `internal/crawler/worker.go` | the task in hand | receive, hand back when cancelled, fetch and parse, send a record on `resultsCh`, send links on `discoveredCh` |
| Indexer | `crawler.go` `Start` (anonymous goroutine) | pending postings | index a page, flush at 500 rows, every 3 s and at the end |
| Session manager | `internal/crawler/manager.go` | `m.crawls`, `nextID`, one `activeCrawl` per crawl | `StartCrawl`, `ResumeCrawlByID`, `StopCrawl(ByID)`, `finishSession`, session updater, `RestoreIndex` |
| Dashboard | `internal/dashboard/server.go` | none | form actions and JSON endpoints that call the manager; pages |
| SQLite storage | `internal/storage/sqlite.go` | `crawl_sessions`, `queue`, `session_visited_urls`, `postings` | one statement or transaction per call; the callers ignore most errors |
| p.data | `internal/storage/pdata.go` | a file of postings | append, clear, load |
| Process | `cmd/crawler/main.go` | the parent context | first signal cancels, second exits, start-up restores the index |
| Index and search | `internal/index` | postings by token, `docCount` | add, look up, rank |
| URL handling | `worker.go` `normalizeURL`, `isValidCrawlTarget`, `parseHTML` | none | pure functions |

How they interact. Coordinator, workers and indexer share three bounded channels
and the atomic counters of `Metrics`. The coordinator blocks on `taskCh` or
`discoveredCh`, the workers on all three, the indexer on `resultsCh`; a context
cancels coordinator and workers independently of each other. Every crawl writes
to the same index, tables and file. The manager's map is changed by requests and
by the deferred function of each crawl's goroutine, both under `m.mu`, but the
decisions around it (status rows, done channels, waits) happen outside the lock.

What is hard: detecting that a crawl is complete from a counter; a stop that
races with answers that are under way; the URL limit, which is read in one
goroutine and counted in another; a request that arrives while the goroutine of
the previous crawl still cleans up; a handler that stops waiting after five
seconds; clears that are several statements; processes that end in between.
`PROJECT.json` lists these hazards with their lines and the properties that
cover them.

What makes a component correct: the coordinator ends when and only when nothing
is left to do, loses no task and fetches nothing twice; the indexer has stored
everything before `Start` returns; the manager's map and the session rows agree
with the goroutines that exist; the lock is always released; requests are
answered; a restart brings the index back.

## 2. Modules

| Module | What it is |
|---|---|
| `Worklist` | abstract: what a crawl promises, without goroutines, channels and queues |
| `Crawler` | one crawl: coordinator, workers, indexer, storage; specification, properties, mutants |
| `CrawlerRefinement` | `Crawler` implements `Worklist` |
| `CrawlerClaims` | what documents and comments say of a crawl, and breadth-first order |
| `CrawlSession` | a session: `Crawler` started again from the tables, after stops and crashes |
| `WebLinks` | from hrefs to crawl targets: `normalizeURL`, `isValidCrawlTarget` |
| `CrawlSite` | `Crawler` with links that `WebLinks` makes of hrefs |
| `Manager` | sessions, crawl goroutines, requests, clear, restart; specification, properties, mutants |
| `Index` | inverted index, search, postings table, p.data, restore |
| `MCCrawler`, `MCSite`, `MCSession`, `MCManager`, `MCIndex` | sites, texts and constants for TLC |
| `CrawlerProofs` | theorems about `Crawler`: types, the count of tasks in flight, quiet ends; no task lost, the URL limit, no page fetched twice |
| `CrawlerEndProofs` | queue depth, what is saved, drained and flushed when a crawl ends |
| `CrawlerRefinementProofs` | `Crawler` implements `Worklist` |
| `CrawlerCompletionProofs` | completed crawls are closed; with one worker, depths are distances and nothing within reach is left out |
| `CrawlSiteProofs` | no page is fetched under two URLs |
| `SessionProofs` | theorems about `CrawlSession` |
| `ManagerProofs` | theorems about `Manager`: map and lock; rows, counts and postings |
| `IndexProofs` | theorems about `Index`: types, file, table and count, the search, what losses and restarts leave |

`CrawlSession` extends `Crawler` and reuses its actions, and `SessionProofs` the
lemmas about them; `CrawlerRefinement`
instantiates `Worklist`; `CrawlSite` extends `Crawler` and `WebLinks`, and `MCSite`
computes the links of its site with it. `Manager` and `Index` each have the crawl reduced to what they
can see of it: one run has one page and the order of its storage writes in
`Manager`, pages and flushes without coordinator and workers in `Index`.

### Crawler

An atomic step is one channel operation, one access to shared state or one storage
transaction together with the local work around it. `pc` is the position of
`Start` (which runs the coordinator itself), `wpc[w]` that of worker `w`, `ipc`
that of the indexer.

* Channels are sequences; a send needs room (`QueueSize`, `OutCap`). With
  `QueueSize = 0` a send on `taskCh` is a rendezvous with a worker in its receive.
  A non-blocking send may fail then even if a worker is idle, since it may not
  have reached its receive yet.
* The three `select` statements are the positions `limit`, `overflow` and `idle`;
  each of their cases is an action: `LimitRecv`, `SendOverflow`, `RecvBatch`,
  `PersistTick`, `CtxDone`. When several are enabled any may be taken, as in Go.
* `deduplicateAndMark` is done task by task (`DedupSkip`, `DedupBreak`,
  `DedupMark`); then `AppendNew` or `BeginEnqueue`, `EnqueueSend`,
  `EnqueueOverflow`, `EnqueueDone`, because workers take tasks in between.
* Cancellation is the action `Cancel`, possible at any time before `Start` returns.
  Whoever looks at the context sees it from then on.
* `CtxDone`, `DrainRecv`, `SaveQueue`, `SaveVisited` are `drainInFlight` and
  `saveQueue`; `LoopExit`, `FinishFlush`, `FinishClear` the normal end;
  `CloseResults` and `Finish` the rest of `Start`.
* `IndexPage`, `IndexError`, `IndexTick`, `IndexClosed` are the indexer's select;
  each flush is `IndexSave` (table) then `IndexAppend` (file).
  `PagesProcessed` is counted after the flush when the batch was full, as in the code.

Abstractions: URLs are opaque; `Links[u]` is what `processPage` returns after
normalising and filtering, in order and with repetitions. A fetch may fail for
pages in `Flaky` and whenever the context is cancelled. `FlushBatch` counts pages
instead of 500 rows. Origin, title and text are payload. `c.db` is not nil and
`sessionID > 0`, as in every call by the manager with a database; `DBMayFail` lets
each write fail (the callers ignore the error). `fetched` is a history variable.

### Manager

A crawl is a *run* with the positions `crawl`, `ending`, `look`, `snap`, `write`,
`count`, `delete`, `close`, `closed`: `Crawler.Start` reduced to what the manager
can see (`CrawlIndex`, `CrawlSavePostings`, `CrawlAppendPData`, `CrawlEnd`,
`CrawlReturn`), then `finishSession` in four steps (lookup under the lock, snapshot
of the metrics found, `FinishCrawlSession`, saved count), the removal of the map
entry and `close(done)`. Requests run in handlers with a position of their own:

* `FormStop`, `FormStopCrawl`, `FormList`, `FormDone`, `FormWait`, `FormMark`,
  `FormReturn`: the form actions `stop` and `stop_crawl`, with the wait that may
  time out (`SlowStop`) and the unconditional `UpdateSessionStatus`;
* `StopCrawl`, `StopCrawlByID`: the JSON endpoints, which only cancel;
* `Resume`, `ResumeLoad`, `ResumeMark`, `ResumeLaunch`: `ResumeCrawlByID`, which
  holds `mu` over all of them (`mu = h`);
* `ClearResumeData`, `ClearSessions`: `DeleteCompletedCrawlSessions`;
* `StartCrawl`, `StartCrawlLocal`: `StartCrawl` with a session row, or with the
  local counter after a failed insert;
* `Shutdown` (first signal), `Restart` (end of the process by signal or crash,
  then `RestoreIndex`).

Abstractions: counts are 0 or 1 for "some"; counters of a row are represented by
the run whose metrics they are; a document by the run that produced it. `COUNT`
and `UPDATE` in `finishSession` are one step, and so are the two `DELETE`s of
queue and visited rows in a clear. `StopReason` values other than `stopped` all
give `completed`, so they are merged; `failed` is never produced. Locals that are
dead are reset. Bounds: `MaxSession` ids, `MaxRun` goroutines, `MaxRestart`
restarts, `PageRuns` and `TickRuns` the runs that index a page or whose updater
ticks.

### Worklist and the refinement

`Worklist` knows four things: the pages known, the depths at which pages were
fetched, whether a stop was asked for, and the reason given at the end. A page
becomes known through a link of a fetched page above the depth limit (`Discover`),
is fetched once, one link below some fetched page that links to it (`Visit`), and
the reason must be true when it is given (`WFinish`). The mapping takes `visited`
for known, the history `fetched` for the log, `cancelled`, and `metrics.StopReason`.
`Crawler` may mark several pages per answer, keep them in two queues and fetch them
in any order; all of that is stuttering or one abstract step.

### CrawlSession

The variables of `Crawler`, the session's row (status and the four counters it
keeps) and whether a goroutine runs the crawl. `ResumeCrawlByID` begins a crawl from
`dbVisited` and `dbQueue` as `Start` does: no visited URLs, and the queue is ignored;
no queue, and the seed is fetched again whether visited or not; else the queue is
enqueued without looking at visited set or depth. `Crash` ends the process in any
state of a crawl: memory goes, tables and file stay as they are at that moment,
between the two transactions of `saveQueue` too, and the row has the counters of
this moment (the updater has just ticked) or still those from the beginning of the
crawl (it has not ticked yet); a tick in between gives values between the two, and
choosing them all would only multiply states. `MarkStopped` is the form action `stop_crawl`, which
marks a row whose crawl is gone and so makes a crashed session resumable.
Overlapping requests are the subject of `Manager`; here a resume comes after the old
goroutine has ended. The history `loaded` is what the present crawl started from,
`dropped` the URLs whose handed-back task was taken for a link to a visited page
(the code bug of `claim_stop_tasks`); `SessionClosed` exempts exactly these.

### WebLinks and CrawlSite

A reference is a record of scheme, host, leading slash, number of `..`, segments,
number of slashes at its end and fragment; `ResolveReference` and which URLs a
server answers alike are external. The site of `crawl_site` is written as hrefs,
relative, rooted, protocol-relative, with capitals, fragments and slashes, to
another host, to a PDF and to `mailto:`, and `Links` is computed from them (`MCSite`).
`CrawlSite` takes any site: `URLOf` says which URL, as a record, each member of
`URLs` stands for, and `SiteAssumption` that the links of a page are normal forms of
hrefs on it.

### Index

`AddDocument` and `AddPosting` under the write lock are one step each; `Search`
takes the read lock once per token, so `Lookup` is a step per token. A flush is
`SavePostingsBatch` (one transaction, `INSERT OR REPLACE`), then `OpenPData` (mutex
and open) and `AppendPostingsToFile`. `StartCrawl` removes p.data at any moment; what
is written to a handle opened before goes nowhere (`handle`). `Restart` ends the
process anywhere: during a write p.data gets some of the lines and perhaps a part of
one, and that line, having no newline, swallows the first line of the next append.
A text is the sequence of its words as `index.tokenize` splits it; `Pieces` says what
the ASCII tokenizer of `collectPostings` makes of a word. Abstractions: the cut line
is skipped on load (a line cut inside its first word gives a row under a token
nobody wrote); frequencies have one digit; title and origin are payload; rows come
in a fixed order within a page; both writes succeed.

## 3. What the runs check

| Run | Instance | Result |
|---|---|---|
| `crawl_site` | a site of four pages under six URLs, given by its hrefs, 2 workers, `QueueSize` 1, `MaxDepth` 2, stop at any moment | all safety properties hold (156 000 states) |
| `crawl_live` | two seeds, failing pages, `MaxURLs` 3, unbuffered `taskCh`, stop, fairness | implements `Worklist`, bookkeeping and limit hold, every crawl ends (171 000) |
| `crawl_bfs` | a site with a short and a long way to a page, 1 worker | breadth-first depths, `completed` covers everything |
| `session_resume` | four pages in a chain with links back, 1 worker, `MaxDepth` 1, three crawls, one crash | depth, refetches, coverage and counters of a session are bounded (4 300 000) |
| `index_search` | 2 indexers, 2 pages out of three, batches of 3 rows, 2 restarts, a two-word search | search and restore are right (290 000) |
| `manager_rough` | 1 session, 2 runs, 1 handler, early resume, timeouts, failing statements, restart | map, lock and types are right (2 100 000) |
| `manager_patient` | 1 session, 2 runs, 2 handlers, pages, updater ticks, timeouts, no early resume | registered, no zombie, saved count, postings stored (1 800 000) |
| `manager_live` | early resume, timeouts, fairness | stopped crawls end, requests return |
| `claim_stop_tasks` | 2 pages, 1 worker | violated, see below |
| `claim_reachable` | site of `crawl_bfs`, 2 workers | violated |
| `claim_zombie` | early resume | violated |
| `claim_restore` | two crawls, restart | violated |

Properties of a crawl: `InFlightExact` (the counter equals what is really on the
way), `QuietAtEnd` (no task, answer or busy worker when the coordinator ends),
`NoTaskLost` (a URL marked visited was fetched or is queued somewhere),
`AtMostOnce`, `URLLimitRespected`, `CompletedIsClosed` (the reason
"completed" means all links above the depth limit were fetched),
`EverythingFlushed`, `VisitedSaved` (the table ends up with everything marked,
except the seeds), `QueueDepthTruthful`, `DrainKeepsTasks` (after the coordinator
saw the stop nothing gets lost), `PageOnce` (however a link is written, a page is
fetched under one URL, except a site's root), `Termination`, `ImplementsWorklist`,
`BFSDepth`, `ReachableCovered`.

Properties of a session: `DepthCreep` (each resume may fetch one level deeper than
the one before, because the drain saves links without a depth test, and never
more; for a first crawl this is `MaxDepth` itself), `RefetchBound` (a crawl fetches a page again only as often as the queue it
loaded names it, and once more if the page was not loaded as visited, whatever was
stopped or crashed before), `SessionClosed` (a session that completed after stops
has fetched every link of its indexed pages above the limit, except tasks dropped
as `claim_stop_tasks` shows; it supposes that no page fails by itself, see below), `CumulativeCounters` (a row never counts more pages
than were fetched, and without a crash exactly those).

Properties of the index: `SearchBounded` (a search that overlaps indexing finds at
least what was there when it began and at most what is there when it returns),
`TopKBest` (and cuts off nothing that was better from the start), `RestoreExact`
(if every row reached p.data, a restart answers every query of plain words as the
running process does; plain is a word that `tokenize` keeps whole and that is no part
of another word of the pages), `NothingInvented` (no sequence of flushes, lost files, torn
writes and restarts counts an occurrence twice), `RowsLost` (a torn write costs at
most one row written before or after it), `FileInTable` (the file never holds what
the table lacks), `DocCountTruthful`. README.md:77 of the repository says that a search sees
"a fully consistent, if partial, index - never a half-written document"; that holds
of each `Lookup`, and `SearchBounded` is what remains of it for a query of several
words.

Properties of the manager: `MapIsLive` (what is registered exists), `LockDiscipline`,
`LiveIsRegistered` (what exists is registered; it implies that a session has one
crawl at a time), `RunningIsLive` (no zombie rows), `SavedCountTruthful`,
`StoredWhenReturned`, `StopWorks`, `RequestsReturn`. Every property has a mutant in
`PROJECT.json`: a plausible bug in the mapped code that violates it.

Why the bounds suffice. One slot in `taskCh` and two workers are the smallest
instance in which the channel is full, the overflow is used from both selects,
answers overtake each other and workers are at different positions at the
cancellation; the site has a page linked from two others, twice from one, a cycle
and a page one level too deep. `FlushBatch` 2 makes the batch, ticker and final
flush all happen. Three crawls of a session are a first one, a resume from what it
left and a resume from what a resume left (where repetitions and depth could grow);
`MaxDepth` 1 with a chain of four pages leaves room for a page two levels too deep.
Two indexers, a batch that one page fills and one that it does not, and two restarts
give a file that is removed while it is written, the fallback to the table, and a
torn line followed by another append. Two runs of one session are the old and the resumed crawl; two
handlers let a clear or a stop overlap a resume. More workers, pages, sessions
and handlers are covered by the theorems for the invariants named there.

Fairness. In `Crawler` every goroutine that can step does (weak fairness; the
request timeout ends every fetch). A Go `select` chooses uniformly among ready
cases, so a case that is ready again and again is taken although the ticker keeps
returning to the loop (strong fairness of the cases other than the ticker). In
`Manager` a cancelled crawl goes on to its end (this is `Termination` of
`Crawler`); goroutines that need `m.mu` get it, since a `sync.Mutex` hands over
to a starving waiter (strong fairness); nobody is obliged to send requests, and a
crawl nobody stops need not end.

`EarlyResume = FALSE` is an assumption on the user: Resume is not asked for while
the old goroutine of that session is still registered. The code does not prevent
it, which is what `claim_zombie` shows.

### Disagreements between code and documents

* `claim_stop_tasks` (`crawler.go:359`): a task handed back by a worker "so
  coordinator can save it for resume" is dropped as already visited when the
  coordinator receives it before it notices the cancellation itself.
* `claim_reachable` (`crawler.go:420`): with two workers a page may be marked at
  the depth of a longer path; pages within `MaxDepth` links are then never crawled
  and the session is `completed`.
* `claim_zombie` (`manager.go:442`): after an early resume the old goroutine
  deletes the new crawl's entry; the new crawl cannot be stopped any more and its
  row says `running` for ever.
* `claim_restore` (`manager.go:225`): `StartCrawl` removes `p.data` each time and
  `RestoreIndex` prefers the file, so pages of other crawls vanish at a restart.

Also met while modelling, without a run of their own: a seed listed twice is
fetched twice and all seeds are fetched whatever `MaxURLs` is (`crawler.go:124`);
seeds are never written to `session_visited_urls` (`crawler.go:131`, stated in
`VisitedSaved`); pages whose fetch a stop interrupts are not saved (`worker.go:89`)
while links to crawled pages and links below the depth limit are (`crawler.go:296`,
stated in `DepthCreep` and `RefetchBound`); a crawl stopped before any link of its
seed was marked leaves no visited URLs, so a resume begins at the seed again and
ignores the links that were saved, which are lost if the seed cannot be fetched this
time (`crawler.go:117`; `SessionClosed` therefore asks for `Flaky = {}`); below depth
200 a posting lowers the score of its page, since `tf*10+1000-depth*5` is negative
there: the dashboard's form admits depths up to 50 (`server.go:771`), the JSON API and
the `-depth` flag have no bound; the updater of a crawl that completed by
itself is never stopped and may overwrite the counters of a resumed crawl
(`manager.go:283`); the root of a site is crawled as `http://h` and as `http://h/`
(`worker.go:221`, stated in `PageOnce`); seed hosts are kept as typed and looked up in
lower case (`crawler.go:96`); `OverflowSize` is 0 until the
first change although seeds overflowed (`crawler.go:147`); session ids may collide
after a failed insert (`manager.go:211`); rows of crawls that a restart ended stay
`running` (`main.go:97`); a clear may delete a session row after its queue rows
were written (`sqlite.go:469`).

## 4. What is proved

The proof modules use only the named assumptions of the specifications
(`CrawlerAssumption`, `SessionAssumption`, `ManagerAssumption`, `IndexAssumption`),
which say that the sets are finite and the parameters numbers, and those of a site
(`SiteAssumption`, `LowerAssumption`). A theorem that needs more names it in its
statement. Invariants are conjunctions of named parts; each is proved inductive by a
lemma with one step per action, and what several steps need is a lemma.

### A crawl

For every site, seeds, finite set of workers, queue size and limits, with or without
failing writes.

`CrawlerProofs`:

* `TypeCorrect`: `Spec => []TypeOK`. That `inFlight` stays a natural number is not
  inductive by itself: a decrement needs to know that there is an answer that was
  counted. Hence `CountInv`: `TypeOK`, `InFlightExact`, `HeldTasks` (a worker that is
  busy holds a task) and `OverflowAtSelect` (the select that sends `overflow[0]` is
  entered only when there is one). `discoveredCh` non-empty and `InFlightExact` give
  `inFlight > 0`. The sum over the workers is the cardinality of `Busy`; two lemmas say
  how it changes when one worker becomes busy or idle.
* `InFlightIsExact`, from the same invariant; `QuietAtTheEnd`, from `CountInv` and
  `ZeroAtEnd` (the coordinator leaves its loop or its drain only at `inFlight = 0`).

The other proofs start from `BaseInv`: `CountInv`, `ZeroAtEnd`, `Fresh` (nothing has
happened before `Start`) and `Phases` (what is empty, and who is gone, at each position
of `Start`).

* `NoTaskIsLost`: what is outstanding is what was handed out (`taskCh`, a worker that
  has yet to check the context) and what waits (`overflow`, `newTasks`). The lemmas
  `SendMoves`, `WorkerMoves`, `CoordMoves` say for every step which of the two a task
  leaves and enters; a task that leaves both was fetched, or the crawl is stopped.
* `URLLimitIsRespected`: `MaxURLs` is compared with `len(visited)`, so the argument
  is that every page fetched was admitted to `visited` (`Admitted`) and that
  `visited` never exceeds the limit, apart from the seeds (`VisitedBounded`).
* `FetchedAtMostOnce`: the queues and the workers never hold two tasks for one URL, nor
  a task for a page fetched (`Exclusive`), because a task is appended only together
  with the marking. Its hypothesis `DistinctSeeds` is needed: a seed listed twice is
  fetched twice (`crawler.go:124`).

`CrawlerEndProofs`:

* `QueueDepthIsTruthful` (`DepthInv`: each position that leads to a select has just
  written the metric), `VisitedIsSaved` (`SavedInv`: the table and `newVisited` together
  hold what was marked), and the action property `DrainKeepsEveryTask`.
* `EverythingIsFlushed`: `IndexPhases` (the indexer leaves with nothing pending, after
  `resultsCh` is closed and empty), `CounterInv` (`PagesProcessed` lags by one during the
  flush of a full batch), `IndexedFetched` (a page is in the index, in `resultsCh` and with
  a worker together at most as often as it was fetched) and `FlushInv` (what is in the
  index is in the file or pending). Counting in a sequence is the cardinality of the
  places where something stands.

`CrawlerRefinementProofs`, with `DistinctSeeds`:

* `CrawlerImplementsWorklist`: `Spec => ImplementsWorklist`, under the mapping of
  `CrawlerRefinement`. `CrawlInv` adds `Provenance` (every task on its way is a seed or
  a link, one deeper, of a page fetched; an answer is such a link or marked already; a
  worker's task agrees with the record of its fetch), `Processed` (each page fetched is
  counted by the metrics, in `resultsCh`, with its worker or in the batch whose flush
  precedes the counting) and `ReasonLast` (the reason is given last). `WorklistStep`
  maps every step to `Discover`, `Visit`, `WFinish` or a stutter.

`CrawlerCompletionProofs`, with `DistinctSeeds`:

* `CompletedCrawlsAreClosed`: of a page fetched above the limit every link is marked
  or in an answer (`LinksFollowed`), as long as neither the limit nor a stop ended the
  crawl (`LimitPhase`); at the end there are no answers, and what is marked was fetched.
* `DepthIsDistance`: with a single worker and no page that fails by itself, the depth
  under which a page is fetched is its distance from the seeds. (With two workers it is
  not: `claim_reachable`. A page that fails hides its links.) It rests on two invariants:
  * `DepthOrder`: until a stop, all tasks there are have one of two neighbouring depths,
    and they stand in order along the way from the worker through `taskCh` and `overflow`
    to the answers (`InOrder`). The queue is no FIFO by construction: `deduplicateAndMark`
    sends new tasks to `taskCh` past a non-empty overflow if there is room. What saves the
    order is that the only worker answers before it takes the next task, so an answer is
    never overtaken by a deeper one. A stop ends it, since what is handed back jumps
    the queue, but then nothing more is fetched.
  * `DistanceInv`: what is fetched or on its way is at its distance. When a page is marked
    at depth d, every page nearer than d is marked already (`NearerIsMarked`): otherwise
    take the link on the shortest way that leads from a marked page to one that is not.
    The marked page cannot wait or be with the worker, for it would stand in front of a
    task two deeper, which `DepthOrder` excludes; and if it was fetched its links are
    marked or in an answer (`LinksFollowed`), which `DepthOrder` excludes too.
  `Within` is a recursive function; `WithinUnfold` shows that it satisfies its definition,
  by taking the least depth at which no function would (`LayersExist`).
* `CompletedCrawlsCoverTheWeb`: from both, by the same least counterexample: a page within
  reach that was not fetched would be a link of one that was, above the limit.

`CrawlSiteProofs`, from `SiteAssumption` and `LowerAssumption` (lower-casing twice is
lower-casing once):

* `PageFetchedOnce`: what is fetched is a seed or a link (`Provenance`), links are normal
  forms (`NormalizedIsNormal`), and two normal forms that a server answers alike are equal
  (`NormalFormsDiffer`), except at a root, which has two. The hypothesis `SeedsNormal` is
  needed because `Start` does not normalise seeds (`crawler.go:124`): a seed typed with a
  slash at its end is fetched a second time when a page links to it.

### A session

`SessionProofs`, for any number of stops, resumes, crashes and failing writes. A step
of the crawl inside a session is a step of `Crawler` (`CrawlStepIsNext`), so the lemmas
above apply; a resume and a crash are what is new.

* `SessionTypeCorrect`: `SessionInv` says that `BaseInv` holds while a crawl runs.
  `ResumeBase` shows that what `ResumeCrawlByID` loads begins a crawl in which it holds.
* `DepthCreepsByOne`: with `Reach` = `MaxDepth` + crawls - 1, tasks on their way to a
  worker are at most `Reach` deep, answers and what a drain saves one more, and a
  resume raises `Reach` by one.
* `RefetchesAreBounded`: for each page, the fetches of this crawl and its tasks in play
  are at most the quota of the loaded queue, plus one unless the page was loaded as
  visited or is yet to be marked; the one is what `deduplicateAndMark` may add.
* `CountersAreCumulative`: `SessionCounters` says where each fetch is: counted by the
  metrics, in `resultsCh` or with its worker (`KnownFetches`). While neither a crash nor a
  failing write intervened these are all fetches; otherwise at most.

* `SessionsAreClosed`: `SessionClosed` relates the links of pages to fetches that other
  crawls of the session made, so what is invariant must survive a stop and a resume.
  `Closure` says of an undisturbed session (`Undisturbed`: one seed, no URL limit, no
  page that fails by itself, no failing write; and no crash so far) that
  * a marked URL is known (`VisitedKept`, `KnownUrl`): it was fetched, or it was dropped, or
    a task for it is `Ahead`, with some goroutine, that `deduplicateAndMark` will not pass
    over for its depth. Before a stop a URL that is not fetched is where a worker or the
    coordinator takes it up (`OutstandingStep`, shared with `NoTaskIsLost`), so another
    answer that names it may be passed over;
  * the links of a page fetched above the limit are known (`LinksKept`), since the worker's
    answer holds them at a depth that is admitted (`FoundFollows`), and a URL that is known
    stays known (`KnownKept`);
  * a stop saves what is ahead and all marks (`EndSaved`, `MarksKept`), so what was known
    is known to the crawl that is resumed (`ResumeClosure`).

  The exception is a session stopped before anything but its seed was marked: the table of
  visited URLs is then empty, and `Start` ignores the saved queue (`crawler.go:117`). What
  saves it is that nothing but the seed was fetched (`SeedFirst`) and that the seed is
  fetched again (`SeedAhead`). This is also where `Flaky = {}` is needed.

### The manager

For every number of sessions, runs, handlers and restarts.

* `ManagerTypeCorrect`, `RegisteredIsLive`, `LockIsDisciplined`: with early resumes,
  timeouts and failing statements. The invariant `ManagerInv` adds `Launched` (runs are
  launched in order, each for a session) and `ResumeReady` (inside
  `ResumeCrawlByID` the session is not registered and a run may be launched; here
  the lock is what keeps others away).
* `PatientIsRegistered`: without early resumes and failing statements (`Patient`) every
  running crawl is registered. It needs `KnownIds` (all ids in use come from the
  table, so a new row's id is fresh), without which a start could replace the
  entry of a running crawl.
* `IndexedIsStored`: without failing writes, what a returned crawl indexed is in the
  table. `StoreInv` follows a page from the index through the batch into the table and
  through restarts, which rebuild the index from what was stored.
* `RunningRowsAreLive`, `SavedCountIsTrue`: if `Patient` and before the first restart. Both
  conditions are needed: `claim_zombie` shows a row left `running` by an early resume, and
  a restart leaves the rows of the crawls it ends `running` (`main.go:97`). `RecordInv`:
  a running row has a crawl that will write its end or a resume that will launch one
  (`RunningIsLive`), the saved count is 0 until a crawl ends (`CountReset`), a crawl that
  leaves tasks was cancelled and will be recorded as stopped (`LeftoverStopped`), and the
  count of a settled session is right (`CountRight`).

### The index

`IndexProofs`, for all texts, indexers, batch sizes, numbers of restarts and searches.
`FlattenSeq` and `FoldLeft` are defined by recursion, and the induction theorems of the
library cannot be used; what these operators return is proved by taking the least
position at which it would fail.

* `IndexTypeCorrect`, `PDataIsInTable`, `DocCountIsTruthful` from `StorageInv`:
  `StorageTypes`, `Flushing` (who is in the middle of a flush, and who has the mutex),
  `TableAhead` (each readable row of p.data, and each row that is about to be written,
  is in the table already; a torn line makes nothing readable), `OnlyAdded` (postings
  and rows come from pages that were added) and `CountBounds`.
* `LostRowsAreFew`: `RowsLost` compares bags of rows, so `RowsInv` keeps an account of
  places: there is a set `lost` of positions in `stored`, and every other row stands in
  a finished line of p.data of its own; `lost` has at most `tornWrites` elements, one
  fewer while the last line is unfinished, because the next write will then swallow its
  own first row (`AppendedLines`). `BagAtMost` turns places into numbers of copies.
* `NothingIsInvented`, `RestoredIsExact`: an occurrence is looked for by sums. A measure
  gives each row a number (its frequency, what it adds to a score, or one), `Sigma` is what
  the members of a sequence come to, and `SumsInv` keeps the accounts for every measure:
  * `PagesInv`: there are disjoint sets of pages, `held[i]` whose rows wait with indexer `i`
    and `kept` whose rows are in p.data. The rows in memory come to exactly what their pages
    do; the readable lines of p.data come to at most that (a removal empties `kept`, a torn
    write moves all pages of the batch, of which some rows may then be missing), and to
    exactly that while no write was cut short. If moreover no page was lost with p.data or
    in a batch (`NoneGone`), the index has all postings;
  * `TableRows`: a row of the table is one of a page, and the only one for its token and
    URL, so the table cannot count twice either;
  * `Within`: the postings of a token and a URL come to no more than the pages do.

  `SumsInv` is needed because neither property can survive a restart by itself: the index
  that is rebuilt depends on what was in p.data and the table. The two tokenizers agree on
  a word of a plain query (`TokenAlike`), `TokensCount` gives what a search finds as sums
  over its tokens, and for `RestoredIsExact` the number of rows (the measure that is one)
  shows that no page is missing.
* `SearchIsBounded`: while a search goes on there is an index between the one at its
  beginning and the present one for each token looked up (`Between`), and results and
  scores can only grow with the index (`MorePostings`, `MoreTokens`).
  `BestAreKept`, from the same invariant. Both are proved under `Shallow`, all pages at
  depth 200 or less: a deeper match has a negative gain, and then one more posting
  does lower a score.

### Only model-checked

* Liveness: `Termination`, `StopWorks`, `RequestsReturn` (the prover does not treat
  fairness). All other properties of the passing runs are theorems.
* The violations.

## 5. Not modelled

HTML parsing (`parseHTML` walks the tree of a library and keeps no state: what is on
a page is a constant), the dashboard's template and read-only endpoints other than
the search, flag and form parsing, the legacy tables and the functions nobody calls
(`ResumeCrawl`, `HasResumableState`, `RemoveActiveCrawl`, `SaveCrawlState`,
`ClearAll`). Times and the data race on `metrics.StartTime`. Failing writes in
`CrawlSession` and `Index` (they are in `Manager`). A crawl without a database
(`c.db == nil`): it is `Crawler` with the storage steps left out. Lines of p.data
longer than the scanner's megabyte.

## 6. Plan

1. `NoTaskLost` after the cancellation, with the tasks handed back counted as on their
   way.
2. Further properties of overlapping requests: a clear against a resume, a start
   during a stop of all crawls, leftover updaters.
