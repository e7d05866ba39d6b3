----------------------------- MODULE CrawlSite -----------------------------
(***************************************************************************)
(* A crawl of pages whose links are written as hrefs: Crawler with the     *)
(* Links that processPage makes of them by WebLinks.                       *)
(***************************************************************************)
EXTENDS Crawler, WebLinks

CONSTANTS
    Hrefs,       \* Hrefs[u]: the hrefs on the page at u, in order
    URLOf        \* URLOf[u]: the URL that u stands for

\* Two URLs differ as strings; the links of a page are valid targets, each the
\* normal form of an href on it.
ASSUME SiteAssumption ==
    /\ Hrefs \in [URLs -> Seq(Reference)]
    /\ URLOf \in [URLs -> Reference]
    /\ \A u, v \in URLs : URLOf[u] = URLOf[v] => u = v
    /\ \A u \in URLs : \A v \in Range(Links[u]) :
        /\ isValidCrawlTarget(URLOf[v])
        /\ \E h \in Range(Hrefs[u]) : URLOf[v] = normalizeURL(h, URLOf[u])

\* However a link is written, in one crawl a page is fetched under one URL only;
\* the one exception is a site's root, which normalizeURL leaves in two forms,
\* with the slash and without.
PageOnce ==
    \A u, v \in {x \in URLs : fetched[x] # <<>>} :
        SamePage(URLOf[u], URLOf[v]) => u = v \/ URLOf[u].path = <<>>

=============================================================================
