------------------------- MODULE CrawlerRefinement -------------------------
(***************************************************************************)
(* Crawler implements Worklist.                                            *)
(***************************************************************************)
EXTENDS Crawler

W == INSTANCE Worklist WITH
        Pages <- URLs, Out <- Links, Roots <- SeedSet, DepthMax <- MaxDepth, Limit <- MaxURLs,
        known <- visited, log <- fetched, asked <- cancelled, reason <- metrics.StopReason

\* The four kinds of goroutine, the two queues and the visited set together
\* work off a list of known pages: whatever their interleaving, a page is
\* marked only because of a page already fetched, fetched once, at the depth a
\* fetched page gives it, and the crawl ends with the true reason.
ImplementsWorklist == W!WSpec

=============================================================================
