----------------------------- MODULE MCSession -----------------------------
(***************************************************************************)
(* The instances of CrawlSession that TLC checks.                          *)
(***************************************************************************)
EXTENDS CrawlSession, TLC

CONSTANTS s, a, b, t, w1

\* A page that is linked twice from the same page, links back to visited pages,
\* and a page just below the depth limit.
ChainLinks == (s :> <<a>>) @@ (a :> <<b, s, b>>) @@ (b :> <<a, t>>) @@ (t :> <<s>>)

OneSeed == <<s>>
=============================================================================
