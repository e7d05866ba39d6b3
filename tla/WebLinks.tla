------------------------------ MODULE WebLinks ------------------------------
(***************************************************************************)
(* From the hrefs of a page to crawl targets: normalizeURL and             *)
(* isValidCrawlTarget of internal/crawler/worker.go.                       *)
(*                                                                         *)
(* A reference is a record: scheme and host ("" when it has none), whether *)
(* its path begins with a slash (rooted), how many ".." the path begins    *)
(* with, its further segments, how many slashes end it, and whether a      *)
(* fragment follows.  Userinfo and query, which nothing looks at, are part *)
(* of host and last segment.                                               *)
(***************************************************************************)
EXTENDS Naturals, Sequences

CONSTANTS
    Lower,       \* Lower[x]: scheme or host x in lower case
    SkipNames,   \* segments that end in one of the extensions of skipExts
    SameDomain,  \* Config.SameDomain
    SeedHosts    \* the hosts of the seeds, as they were typed

\* strings.ToLower is idempotent.
ASSUME LowerAssumption == \A x \in DOMAIN Lower : Lower[x] \in DOMAIN Lower /\ Lower[Lower[x]] = Lower[x]

Reference ==
    [scheme : DOMAIN Lower, host : DOMAIN Lower, rooted : BOOLEAN, up : Nat, path : Seq(STRING),
     slashes : Nat, frag : BOOLEAN]

\* The directory of a URL, n levels up: its path up to the last slash.
Dir(u, n) ==
    LET depth == Len(u.path) - (IF u.slashes = 0 THEN 1 ELSE 0)
    IN IF depth <= n THEN <<>> ELSE SubSeq(u.path, 1, depth - n)

\* net/url's ResolveReference (external) for an absolute base: the result has
\* no ".." left.
ResolveReference(base, ref) ==
    IF ref.scheme # "" THEN [ref EXCEPT !.up = 0]
    ELSE IF ref.host # "" THEN [ref EXCEPT !.up = 0, !.scheme = base.scheme]
    ELSE IF ~ref.rooted /\ ref.up = 0 /\ ref.path = <<>> THEN [base EXCEPT !.up = 0, !.frag = ref.frag]
    ELSE LET path == (IF ref.rooted THEN <<>> ELSE Dir(base, ref.up)) \o ref.path IN
         [base EXCEPT !.up = 0, !.path = path, !.rooted = TRUE, !.frag = ref.frag,
                      !.slashes = IF path = <<>> /\ ref.slashes = 0 THEN 1 ELSE ref.slashes]

\* Mutant: slashes at the end are kept.
normalizeURLKeepSlash(href, base) ==
    LET resolved == ResolveReference(base, href) IN
    [resolved EXCEPT !.scheme = Lower[@], !.host = Lower[@], !.frag = FALSE]

\* Lower-case scheme and host, no fragment, and no slash at the end of a path
\* longer than one character: "/" stays, "" and "//" end up as "".
normalizeURL(href, base) ==
    LET resolved == ResolveReference(base, href)
        root == resolved.path = <<>> /\ resolved.slashes = 1
    IN [resolved EXCEPT !.scheme = Lower[@], !.host = Lower[@], !.frag = FALSE,
                        !.slashes = IF root THEN 1 ELSE 0,
                        !.rooted = root \/ resolved.path # <<>>]

\* The host is looked up in lower case among hosts that are not.
isValidCrawlTarget(u) ==
    /\ u.scheme \in {"http", "https"}
    /\ u.path = <<>> \/ u.path[Len(u.path)] \notin SkipNames
    /\ SameDomain /\ SeedHosts # {} => Lower[u.host] \in SeedHosts

\* The links processPage returns for the hrefs on the page at url.
ValidLinks(hrefs, url) ==
    SelectSeq([i \in DOMAIN hrefs |-> normalizeURL(hrefs[i], url)], isValidCrawlTarget)

\* Two URLs that servers answer with the same page (external): case of scheme
\* and host, the fragment and slashes at the end make no difference.
SamePage(u, v) ==
    Lower[u.scheme] = Lower[v.scheme] /\ Lower[u.host] = Lower[v.host] /\ u.path = v.path

=============================================================================
