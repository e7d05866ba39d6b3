--------------------------- MODULE CrawlerClaims ---------------------------
(***************************************************************************)
(* What the requirements document and a comment say of a crawl, stated as  *)
(* properties of Crawler.  ReachableCovered and BFSDepth hold with a       *)
(* single worker, which a run of their own shows.                          *)
(***************************************************************************)
EXTENDS Crawler

\* worker.go:59: a task a worker hands back because of the cancellation is
\* saved by the coordinator: after a stop every visited URL was fetched or is
\* in the saved queue.
StopKeepsTasks ==
    metrics.StopReason = "stopped" /\ ~DBMayFail /\ MaxURLs = 0
        => \A u \in visited : fetched[u] # <<>> \/ u \in Urls(dbQueue)

\* The pages at most n links away from a seed.
Within[n \in 0..MaxDepth] ==
    IF n = 0 THEN Range(Seeds)
    ELSE Within[n - 1] \cup UNION {Range(Links[u]) : u \in Within[n - 1]}

\* product_prd.md:164: "completed" means that every page reachable within the
\* depth limit was crawled.
ReachableCovered ==
    metrics.StopReason = "completed" /\ Flaky = {} /\ MaxURLs = 0
        => \A u \in Within[MaxDepth] : fetched[u] # <<>>

\* The depth recorded for a page is its distance from the seeds, although the
\* queue is split between taskCh and overflow and filled from both sides.
BFSDepth ==
    \A u \in URLs : \A i \in DOMAIN fetched[u] :
        LET dist == fetched[u][i] IN
        u \in Within[dist] /\ (dist > 0 => u \notin Within[dist - 1])

=============================================================================
