------------------------------ MODULE MCIndex ------------------------------
(***************************************************************************)
(* The instance of Index that TLC checks.                                  *)
(***************************************************************************)
EXTENDS Index

CONSTANTS u1, u2, go, web, the, cafe, caf, i1, i2

\* A stop word; a word with a letter that is not ASCII, and what is left without it.
LexWords == {go, web, the, cafe, caf}
LexPieces == [w \in LexWords |-> IF w = cafe THEN <<caf>> ELSE <<w>>]

\* A page, another one, and the first one as it is found later and deeper.
WebPages == {[url |-> u1, depth |-> 0, words |-> <<go, the, go>>],
             [url |-> u2, depth |-> 1, words |-> <<web, go, cafe>>],
             [url |-> u1, depth |-> 1, words |-> <<web>>]}

WebQueries == {<<go, the, web>>, <<cafe>>, <<caf>>}

Symm == Permutations(Indexers)
=============================================================================
