---------------------------- MODULE CrawlSession ----------------------------
(***************************************************************************)
(* One crawl session through stops, resumes and crashes: Crawler started   *)
(* again and again from what the tables hold (ResumeCrawlByID of           *)
(* internal/crawler/manager.go), with the session's row in crawl_sessions. *)
(* Two crawls of a session at the same time, and requests that overlap,    *)
(* are the subject of Manager; here a resume comes after the old goroutine *)
(* is gone.                                                                *)
(***************************************************************************)
EXTENDS CrawlerClaims

CONSTANTS
    MaxRuns,     \* bound on the crawls of the session
    MaxCrashes   \* bound on ends of the process while a crawl runs

ASSUME SessionAssumption ==
    MaxRuns \in Nat /\ MaxCrashes \in Nat /\ Seeds # <<>>

VARIABLES
    proc,      \* "run" while the goroutine of a crawl exists
    row,       \* the session's row: status and counters
    runs,      \* how many crawls were launched
    crashes,   \* how many of them a crash ended
    (* history *)
    loaded,    \* what the present crawl started from, and what was fetched before
    dropped    \* URLs whose last task deduplicateAndMark skipped

sessionVars == <<proc, row, runs, crashes, loaded, dropped>>
allVars == <<vars, sessionVars>>

-----------------------------------------------------------------------------
(* Helpers *)

\* The row with a status and the four counters of a Metrics that it keeps.
RowOf(s, m) ==
    [status |-> s, PagesProcessed |-> m.PagesProcessed, PagesQueued |-> m.PagesQueued,
     IndexedDocs |-> m.IndexedDocs, PagesErrored |-> m.PagesErrored]

Started(vis, q) ==
    [visited |-> vis, queue |-> q, before |-> [u \in URLs |-> Len(fetched[u])]]

\* The primary seed as a task: Config.SeedURL, all that a row keeps of the seeds.
OriginTask == [url |-> Head(Seeds), depth |-> 0]

\* Mutant: the saved queue is not used.
ResumeQueueSeedOnly == <<OriginTask>>

\* What Start makes of the rows that ResumeCrawlByID loads: without visited
\* URLs it begins afresh and ignores the queue; without queued tasks the queue
\* is the seed, visited or not.
ResumeQueue == IF dbVisited = {} \/ dbQueue = <<>> THEN <<OriginTask>> ELSE dbQueue
ResumeVisited == IF dbVisited = {} THEN {Head(Seeds)} ELSE dbVisited

\* Mutant: the counters of the row are not restored.
ResumeMetricsZero ==
    [ZeroMetrics EXCEPT !.PagesQueued = Len(ResumeQueue), !.QueueDepth = Len(ResumeQueue),
                        !.ActiveWorkers = NumWorkers]

\* The counters continue those of the row; Start adds the initial queue.
ResumeMetrics ==
    [ZeroMetrics EXCEPT !.PagesProcessed = row.PagesProcessed,
                        !.IndexedDocs = row.IndexedDocs,
                        !.PagesErrored = row.PagesErrored,
                        !.PagesQueued = row.PagesQueued + Len(ResumeQueue),
                        !.QueueDepth = Len(ResumeQueue),
                        !.ActiveWorkers = NumWorkers]

-----------------------------------------------------------------------------
(* Actions *)

\* StartCrawl has inserted the row and launched the goroutine.
SessionInit ==
    /\ Init
    /\ proc = "run"
    /\ row = RowOf("running", ZeroMetrics)
    /\ runs = 1 /\ crashes = 0
    /\ loaded = Started(SeedSet, SeedQueue)
    /\ dropped = {}

\* A URL that is marked, was never fetched and has no other task left, when
\* deduplicateAndMark is about to skip it after the cancellation.
Skipping ==
    IF cancelled /\ pc = "dedup" /\ batch # <<>>
    THEN {u \in visited \ Outstanding : u = Head(batch).url /\ fetched[u] = <<>>}
    ELSE {}

\* A step of the crawl.
CrawlStep ==
    /\ proc = "run"
    /\ \/ StartStep \/ SelectStep \/ IndexerStep \/ Cancel
       \/ \E w \in Workers : WorkerStep(w)
    /\ dropped' = dropped \cup Skipping
    /\ UNCHANGED <<proc, row, runs, crashes, loaded>>

\* Start has returned: finishSession writes status and counters, the goroutine
\* ends.  Nothing reads what it leaves in memory, apart from the index.
FinishSession ==
    /\ proc = "run" /\ pc = "done"
    /\ row' \in Tx(RowOf(IF metrics.StopReason = "stopped" THEN "stopped" ELSE "completed", metrics),
                   row)
    /\ proc' = "none"
    /\ UNCHANGED <<vars, runs, crashes, loaded, dropped>>

\* The form action stop_crawl for a session without a crawl: its row is marked
\* whatever it says, which is also what makes a crashed session resumable.
MarkStopped ==
    /\ proc = "none" /\ row.status # "stopped"
    /\ row' \in Tx([row EXCEPT !.status = "stopped"], row)
    /\ UNCHANGED <<vars, proc, runs, crashes, loaded, dropped>>

\* ResumeCrawlByID and the set-up of Start.
ResumeCrawlByID ==
    /\ proc = "none" /\ row.status = "stopped"
    /\ runs < MaxRuns
    /\ row' \in Tx([row EXCEPT !.status = "running"], row)
    /\ Begin(ResumeVisited, ResumeQueue)
    /\ metrics' = ResumeMetrics
    /\ cancelled' = FALSE
    /\ proc' = "run" /\ runs' = runs + 1
    /\ loaded' = Started(ResumeVisited, ResumeQueue)
    /\ UNCHANGED <<index, dbPostings, pdata, dbVars, fetched, crashes, dropped>>

\* The process ends while the crawl runs and a new one starts: memory is lost
\* (the index is restored from p.data or, if that is empty, from the table),
\* tables and file stay, and the row goes on saying "running".  The session
\* updater may just have written the counters, or never; a last tick in between
\* leaves counters between these two, which no property tells apart.
Crash ==
    /\ proc = "run"
    /\ crashes < MaxCrashes
    /\ crashes' = crashes + 1
    /\ proc' = "none"
    /\ row' \in {row, RowOf(row.status, metrics)}
    /\ index' = IF \E u \in URLs : pdata[u] > 0 THEN pdata
                ELSE [u \in URLs |-> IF u \in dbPostings THEN 1 ELSE 0]
    /\ pc' = "start" /\ ipc' = "exit" /\ wpc' = [w \in Workers |-> "exit"]
    /\ inFlight' = 0 /\ overflow' = <<>> /\ batch' = <<>> /\ newTasks' = <<>>
    /\ visited' = {} /\ newVisited' = {} /\ pending' = <<>> /\ flushFor' = "none"
    /\ taskCh' = <<>> /\ taskChClosed' = FALSE /\ discoveredCh' = <<>> /\ resultsCh' = <<>>
    /\ wtask' = [w \in Workers |-> NoTask]
    /\ cancelled' = FALSE /\ metrics' = ZeroMetrics
    /\ UNCHANGED <<dbPostings, pdata, dbVars, fetched, runs, loaded, dropped>>

\* Nobody need resume the session.
SessionOver == proc = "none" /\ UNCHANGED allVars

SessionNext ==
    \/ CrawlStep \/ FinishSession
    \/ MarkStopped \/ ResumeCrawlByID \/ Crash
    \/ SessionOver

SessionSpec == SessionInit /\ [][SessionNext]_allVars

-----------------------------------------------------------------------------
(* Properties *)

SessionTypeOK ==
    /\ TypeOK
    /\ proc \in {"run", "none"}
    /\ row \in [status : {"running", "stopped", "completed"}, PagesProcessed : Nat,
                PagesQueued : Nat, IndexedDocs : Nat, PagesErrored : Nat]
    /\ runs \in Nat /\ crashes \in Nat
    /\ loaded \in [visited : SUBSET URLs, queue : Seq(Task), before : [URLs -> Nat]]
    /\ dropped \subseteq URLs

\* MaxDepth bounds what a first crawl fetches.  drainInFlight saves links
\* without looking at their depth and a resume enqueues them unseen, so each
\* resume reaches one level deeper, and never more than one.
DepthCreep ==
    \A u \in URLs : \A i \in DOMAIN fetched[u] : fetched[u][i] <= MaxDepth + (runs - 1)

\* What a crawl fetches again: a page of the saved queue as often as it is in
\* there, and once more only if it was not among the visited URLs loaded.  In
\* particular a URL that the table knows is fetched again only if the queue
\* names it, however often the process stopped, crashed and resumed.
RefetchBound ==
    \A u \in URLs :
        Len(fetched[u]) - loaded.before[u]
            <= Cardinality({i \in DOMAIN loaded.queue : loaded.queue[i].url = u})
                 + (IF u \in loaded.visited THEN 0 ELSE 1)

\* A session that completed after any number of stops and resumes has fetched
\* every link of its pages above the depth limit, except tasks that were
\* handed back too early and taken for links to visited pages.  Pages must not
\* fail by themselves: a crawl stopped before the links of the seed were marked
\* is resumed at the seed, and if that fetch fails, the saved links are lost.
SessionClosed ==
    proc = "none" /\ row.status = "completed" /\ crashes = 0 /\ ~DBMayFail
            /\ MaxURLs = 0 /\ Len(Seeds) = 1 /\ Flaky = {} =>
        \A u \in URLs : index[u] > 0 /\ (\A i \in DOMAIN fetched[u] : fetched[u][i] < MaxDepth)
            => \A i \in DOMAIN Links[u] : fetched[Links[u][i]] # <<>> \/ Links[u][i] \in dropped

\* The fetches of all crawls of the session, one pair for each.
FetchLog == UNION {{u} \X DOMAIN fetched[u] : u \in URLs}

\* The counters are cumulative over all crawls of the session: every fetch is
\* counted once, and none twice although rows are restored into counters.
CumulativeCounters ==
    LET fetches == Cardinality(FetchLog) IN
    /\ row.PagesProcessed <= fetches
    /\ proc = "none" /\ crashes = 0 /\ ~DBMayFail =>
         row.PagesProcessed = fetches /\ fetches = row.IndexedDocs + row.PagesErrored

=============================================================================
