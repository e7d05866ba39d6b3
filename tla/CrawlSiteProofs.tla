-------------------------- MODULE CrawlSiteProofs --------------------------
(***************************************************************************)
(* However its links are written, a site's pages are fetched under one URL *)
(* each: proofs about CrawlSite and WebLinks.                              *)
(***************************************************************************)
EXTENDS CrawlerRefinementProofs, CrawlSite

\* A URL in the form normalizeURL gives a page below the root.
Normal(u) ==
    /\ Lower[u.scheme] = u.scheme /\ Lower[u.host] = u.host
    /\ u.rooted /\ u.up = 0 /\ u.slashes = 0 /\ ~u.frag

\* What a reference is made of.
LEMMA ReferenceParts ==
    ASSUME NEW x \in Reference
    PROVE  /\ x = [scheme |-> x.scheme, host |-> x.host, rooted |-> x.rooted, up |-> x.up,
                   path |-> x.path, slashes |-> x.slashes, frag |-> x.frag]
           /\ x.scheme \in DOMAIN Lower /\ x.host \in DOMAIN Lower /\ x.rooted \in BOOLEAN
           /\ x.up \in Nat /\ x.path \in Seq(STRING) /\ x.slashes \in Nat /\ x.frag \in BOOLEAN
BY DEF Reference

\* The directory of a URL is a path.
LEMMA DirPath ==
    ASSUME NEW base \in Reference, NEW n \in Nat
    PROVE  Dir(base, n) \in Seq(STRING)
<1> DEFINE len == Len(base.path)
           depth == len - (IF base.slashes = 0 THEN 1 ELSE 0)
<1>1. base.path \in Seq(STRING)
  BY ReferenceParts
<1>2. len \in Nat /\ \A i \in 1..len : base.path[i] \in STRING
  BY <1>1
<1>3. Dir(base, n) = IF depth <= n THEN <<>> ELSE SubSeq(base.path, 1, depth - n)
  BY DEF Dir
<1> HIDE DEF len
<1>4. depth \in Int /\ depth <= len
  BY <1>2
<1> HIDE DEF depth
<1>5. CASE depth <= n
  <2>1. <<>> \in Seq(STRING)
    OBVIOUS
  <2> QED BY <1>3, <1>5, <2>1
<1>6. CASE ~(depth <= n)
  <2>1. depth - n \in Int /\ 1 \in Int /\ \A i \in 1..(depth - n) : base.path[i] \in STRING
    BY <1>2, <1>4
  <2>2. SubSeq(base.path, 1, depth - n) \in Seq(STRING)
    BY <2>1, SubSeqProperties
  <2> QED BY <1>3, <1>6, <2>2
<1> QED BY <1>5, <1>6

\* What a reference resolves to is a reference without "..".
LEMMA ResolvedReference ==
    ASSUME NEW base \in Reference, NEW ref \in Reference
    PROVE  ResolveReference(base, ref) \in Reference /\ ResolveReference(base, ref).up = 0
<1> DEFINE dir == IF ref.rooted THEN <<>> ELSE Dir(base, ref.up)
           path == dir \o ref.path
           slashes == IF path = <<>> /\ ref.slashes = 0 THEN 1 ELSE ref.slashes
<1>1. /\ ref.rooted \in BOOLEAN /\ ref.up \in Nat /\ ref.path \in Seq(STRING) /\ ref.slashes \in Nat
      /\ ref.frag \in BOOLEAN
  BY ReferenceParts
<1>2. dir \in Seq(STRING)
  <2>1. Dir(base, ref.up) \in Seq(STRING)
    BY <1>1, DirPath
  <2>2. <<>> \in Seq(STRING)
    OBVIOUS
  <2> QED BY <2>1, <2>2
<1>3. path \in Seq(STRING) /\ slashes \in Nat
  <2> HIDE DEF dir
  <2>1. path \in Seq(STRING)
    BY <1>1, <1>2
  <2> QED BY <1>1, <2>1
<1>4. CASE ref.scheme # ""
  BY <1>4 DEF ResolveReference, Reference
<1>5. CASE ref.scheme = "" /\ ref.host # ""
  <2>1. base.scheme \in DOMAIN Lower
    BY ReferenceParts
  <2> QED BY <1>5, <2>1 DEF ResolveReference, Reference
<1>6. CASE ref.scheme = "" /\ ref.host = "" /\ ~ref.rooted /\ ref.up = 0 /\ ref.path = <<>>
  BY <1>1, <1>6 DEF ResolveReference, Reference
<1>7. CASE ref.scheme = "" /\ ref.host = "" /\ ~(~ref.rooted /\ ref.up = 0 /\ ref.path = <<>>)
  <2>1. ResolveReference(base, ref) =
          [base EXCEPT !.up = 0, !.path = path, !.rooted = TRUE, !.frag = ref.frag, !.slashes = slashes]
    BY <1>7 DEF ResolveReference
  <2> HIDE DEF path, slashes
  <2>2. ResolveReference(base, ref) =
          [scheme |-> base.scheme, host |-> base.host, rooted |-> TRUE, up |-> 0,
           path |-> path, slashes |-> slashes, frag |-> ref.frag]
    BY <2>1 DEF Reference
  <2>3. base.scheme \in DOMAIN Lower /\ base.host \in DOMAIN Lower
    BY ReferenceParts
  <2> HIDE DEF dir
  <2> QED BY <1>1, <1>3, <2>2, <2>3 DEF Reference
<1> QED BY <1>4, <1>5, <1>6, <1>7

\* normalizeURL gives every page below a root its normal form.
LEMMA NormalizedIsNormal ==
    ASSUME NEW base \in Reference, NEW href \in Reference, normalizeURL(href, base).path # <<>>
    PROVE  Normal(normalizeURL(href, base))
<1> DEFINE r == ResolveReference(base, href)
           root == r.path = <<>> /\ r.slashes = 1
           n == normalizeURL(href, base)
<1>1. r \in Reference /\ r.up = 0
  BY ResolvedReference
<1>2. r.scheme \in DOMAIN Lower /\ r.host \in DOMAIN Lower
  BY <1>1 DEF Reference
<1>3. n = [r EXCEPT !.scheme = Lower[@], !.host = Lower[@], !.frag = FALSE,
                    !.slashes = IF root THEN 1 ELSE 0, !.rooted = root \/ r.path # <<>>]
  BY DEF normalizeURL
<1> HIDE DEF r, n
<1>4. /\ n.scheme = Lower[r.scheme] /\ n.host = Lower[r.host] /\ n.frag = FALSE /\ n.path = r.path
      /\ n.slashes = (IF root THEN 1 ELSE 0) /\ n.rooted = (root \/ r.path # <<>>) /\ n.up = r.up
  BY <1>1, <1>3 DEF Reference
<1>5. r.path # <<>> /\ ~root
  BY <1>4 DEF n
<1>6. Lower[n.scheme] = n.scheme /\ Lower[n.host] = n.host
  BY <1>2, <1>4, LowerAssumption
<1> QED BY <1>1, <1>4, <1>5, <1>6 DEF Normal, n

\* Normal URLs that servers answer with the same page are the same URL.
LEMMA NormalFormsDiffer ==
    ASSUME NEW u \in Reference, NEW v \in Reference, Normal(u), Normal(v), SamePage(u, v)
    PROVE  u = v
<1>1. \A x \in Reference : x = [scheme |-> x.scheme, host |-> x.host, rooted |-> x.rooted, up |-> x.up,
                                path |-> x.path, slashes |-> x.slashes, frag |-> x.frag]
                           /\ x.rooted \in BOOLEAN /\ x.frag \in BOOLEAN
  BY ReferenceParts
<1>2. /\ u.scheme = v.scheme /\ u.host = v.host /\ u.path = v.path
      /\ u.rooted = v.rooted /\ u.up = v.up /\ u.slashes = v.slashes /\ u.frag = v.frag
  BY <1>1 DEF Normal, SamePage
<1> QED BY <1>1, <1>2

\* Every page that was fetched is a seed or a link of some page.
FetchedLinked == \A u \in FetchedUrls : u \in SeedSet \/ \E p \in URLs : u \in Range(Links[p])

\* A worker fetches only what it was handed.
LEMMA FetchedLinkedAlways == ASSUME DistinctSeeds PROVE Spec => []FetchedLinked
<1>1. Init => FetchedLinked
  BY DEF Init, FetchedLinked, FetchedUrls
<1>2. ASSUME BaseInv, Exclusive, Provenance, FetchedLinked, [Next]_vars PROVE FetchedLinked'
  <2>1. ASSUME NEW w \in Workers, WorkerFetch(w) PROVE FetchedLinked'
    <3>1. wtask[w] \in Live /\ FetchedUrls' = FetchedUrls \cup {wtask[w].url}
      BY <1>2, <2>1, FetchMoves
    <3>2. Grounded(wtask[w])
      BY <1>2, <3>1 DEF Provenance
    <3>3. wtask[w].url \in SeedSet \/ \E p \in URLs : wtask[w].url \in Range(Links[p])
      BY <3>2 DEF Grounded, Found, FetchedUrls
    <3> QED BY <1>2, <3>1, <3>3 DEF FetchedLinked
  <2>2. CASE \A w \in Workers : ~WorkerFetch(w)
    <3>1. fetched' = fetched
      BY <1>2, <2>2, HistoryFrame
    <3> QED BY <1>2, <3>1 DEF FetchedLinked, FetchedUrls
  <2> QED BY <2>1, <2>2
<1> QED BY <1>1, <1>2, BaseAlways, ExclusiveAlways, ProvenanceAlways, PTL DEF Spec

\* A seed is typed as a site's root or in normal form: seeds are not normalised.
SeedsNormal == \A u \in SeedSet : URLOf[u].path = <<>> \/ Normal(URLOf[u])

\* For every site and every way its links are written: no page but a root is
\* fetched under two URLs.
THEOREM PageFetchedOnce == ASSUME DistinctSeeds, SeedsNormal PROVE Spec => []PageOnce
<1>1. FetchedLinked => PageOnce
  <2> SUFFICES ASSUME FetchedLinked, NEW u \in FetchedUrls, NEW v \in FetchedUrls,
                      SamePage(URLOf[u], URLOf[v]), URLOf[u].path # <<>>
               PROVE  u = v
    BY DEF PageOnce, FetchedUrls
  <2>1. ASSUME NEW x \in FetchedUrls, URLOf[x].path # <<>> PROVE URLOf[x] \in Reference /\ Normal(URLOf[x])
    <3>1. x \in URLs /\ URLOf[x] \in Reference
      BY SiteAssumption DEF FetchedUrls
    <3>2. CASE x \in SeedSet
      BY <2>1, <3>1, <3>2 DEF SeedsNormal
    <3>3. ASSUME NEW p \in URLs, x \in Range(Links[p]) PROVE Normal(URLOf[x])
      <4>1. PICK h \in Range(Hrefs[p]) : URLOf[x] = normalizeURL(h, URLOf[p])
        BY <3>3, SiteAssumption
      <4>2. h \in Reference /\ URLOf[p] \in Reference
        BY SiteAssumption DEF Range
      <4> QED BY <2>1, <4>1, <4>2, NormalizedIsNormal
    <3> QED BY <3>1, <3>2, <3>3 DEF FetchedLinked
  <2>2. URLOf[v].path # <<>>
    BY DEF SamePage
  <2>3. URLOf[u] = URLOf[v]
    BY <2>1, <2>2, NormalFormsDiffer
  <2> QED BY <2>3, SiteAssumption DEF FetchedUrls
<1> QED BY <1>1, FetchedLinkedAlways, PTL

=============================================================================
