------------------------------- MODULE MCSite -------------------------------
(***************************************************************************)
(* The instance of CrawlSite that TLC checks.                              *)
(***************************************************************************)
EXTENDS MCCrawler, CrawlSite

\* A small site as its hrefs: a link home, links to a page twice, to a page that
\* is too deep, to another host, to a file and to something else than HTTP, in
\* the many ways hrefs are written.
LowerCase == [x \in {"", "http", "h", "o", "mailto"} |-> x] @@ ("HTTP" :> "http") @@ ("H" :> "h")
Href(scheme, host, rooted, up, path, slashes, frag) ==
    [scheme |-> scheme, host |-> host, rooted |-> rooted, up |-> up, path |-> path,
     slashes |-> slashes, frag |-> frag]
HrefsAt ==
    (<<>> :> <<Href("", "", FALSE, 0, <<"a">>, 0, FALSE), Href("", "", TRUE, 0, <<>>, 1, FALSE)>>)
    @@ (<<"a">> :> <<Href("", "", FALSE, 0, <<"c">>, 0, TRUE), Href("", "h", TRUE, 0, <<>>, 1, TRUE),
                     Href("HTTP", "H", TRUE, 0, <<"c">>, 1, FALSE)>>)
    @@ (<<"c">> :> <<Href("", "", FALSE, 1, <<"t">>, 0, FALSE), Href("", "", FALSE, 0, <<>>, 0, TRUE),
                     Href("http", "o", TRUE, 0, <<>>, 1, FALSE), Href("", "", FALSE, 0, <<"x.pdf">>, 0, FALSE),
                     Href("mailto", "", FALSE, 0, <<"x">>, 0, FALSE)>>)
    @@ (<<"t">> :> <<>>)

\* What the URLs stand for.  The seed is typed without a slash, z is the same
\* page with it, and d is c with a slash that normalizeURL takes away.
Page(path, slashes) == Href("http", "h", path # <<>> \/ slashes > 0, 0, path, slashes, FALSE)
SiteURLs ==
    (s :> Page(<<>>, 0)) @@ (z :> Page(<<>>, 1)) @@ (a :> Page(<<"a">>, 0))
    @@ (c :> Page(<<"c">>, 0)) @@ (d :> Page(<<"c">>, 1)) @@ (t :> Page(<<"t">>, 0))
SiteHrefs == [u \in DOMAIN SiteURLs |-> HrefsAt[SiteURLs[u].path]]
SiteLinks ==
    [u \in DOMAIN SiteURLs |->
        LET links == ValidLinks(SiteHrefs[u], SiteURLs[u])
        IN [i \in DOMAIN links |-> CHOOSE v \in DOMAIN SiteURLs : SiteURLs[v] = links[i]]]
=============================================================================
