---------------------------- MODULE MCCrawler ----------------------------
(***************************************************************************)
(* The instances of Crawler that TLC checks.                               *)
(***************************************************************************)
EXTENDS CrawlerClaims, CrawlerRefinement, TLC

CONSTANTS s, a, b, c, d, t, z, w1, w2

\* Two seeds, one linked from the other, and more pages than MaxURLs admits
\* unless some page fails.
LimitLinks == (s :> <<a, b>>) @@ (b :> <<t, s>>) @@ (a :> <<t>>) @@ (t :> <<b>>)

\* A page of two ways to reach it, the longer one first, with a page below it.
DiamondLinks ==
    (s :> <<a, b>>) @@ (a :> <<c>>) @@ (c :> <<t>>) @@ (b :> <<t>>) @@ (t :> <<z>>) @@ (z :> <<>>)

\* Two pages that link to each other.
PairLinks == (s :> <<a>>) @@ (a :> <<s>>)

OneSeed == <<s>>
TwoSeeds == <<s, b>>

Symm == Permutations(Workers)
=============================================================================
