---------------------------- MODULE IndexProofs ----------------------------
(***************************************************************************)
(* Theorems about the index and its storage.                               *)
(***************************************************************************)
EXTENDS Index, FiniteSetTheorems, SequenceTheorems, WellFoundedInduction, TLAPS

-----------------------------------------------------------------------------
(* Flattening a sequence of sequences *)

\* Every set of natural numbers has a least element.
LEMMA LeastNumber ==
    ASSUME NEW S, S \subseteq Nat, S # {}
    PROVE  \E x \in S : \A y \in S : x <= y
<1> DEFINE R == {ss \in Nat \X Nat : ss[1] < ss[2]}
<1>1. IsWellFoundedOn(R, Nat)
  <2>1. R = OpToRel(<, Nat)
    BY Zenon DEF OpToRel
  <2> QED BY <2>1, NatLessThanWellFounded, Zenon
<1>2. \A x, y \in Nat : x < y => <<x, y>> \in R
  OBVIOUS
<1> HIDE DEF R
<1>3. PICK x \in S : \A y \in S : ~ (<<y, x>> \in R)
  BY <1>1, WFMin
<1>4. \A y \in S : ~(y < x)
  BY <1>2, <1>3
<1> QED BY <1>3, <1>4

\* Concatenation unites the ranges.
LEMMA RangeConcat ==
    ASSUME NEW T, NEW q \in Seq(T), NEW r \in Seq(T)
    PROVE  q \o r \in Seq(T) /\ Range(q \o r) = Range(q) \cup Range(r)
<1> DEFINE c == q \o r
<1>1. Len(q) \in Nat /\ Len(r) \in Nat /\ DOMAIN q = 1..Len(q) /\ DOMAIN r = 1..Len(r)
  OBVIOUS
<1>2. /\ c \in Seq(T) /\ Len(c) = Len(q) + Len(r) /\ DOMAIN c = 1..(Len(q) + Len(r))
      /\ \A i \in 1..(Len(q) + Len(r)) : c[i] = IF i <= Len(q) THEN q[i] ELSE r[i - Len(q)]
  BY <1>1, ConcatProperties
<1> HIDE DEF c
<1>3. ASSUME NEW x \in Range(c) PROVE x \in Range(q) \cup Range(r)
  <2>1. PICK i \in 1..(Len(q) + Len(r)) : c[i] = x
    BY <1>2, <1>3 DEF Range
  <2>2. CASE i <= Len(q)
    <3>1. i \in 1..Len(q) /\ q[i] = x
      BY <1>1, <1>2, <2>1, <2>2
    <3> QED BY <1>1, <3>1 DEF Range
  <2>3. CASE ~(i <= Len(q))
    <3>1. i - Len(q) \in 1..Len(r) /\ r[i - Len(q)] = x
      BY <1>1, <1>2, <2>1, <2>3
    <3> QED BY <1>1, <3>1 DEF Range
  <2> QED BY <2>2, <2>3
<1>4. ASSUME NEW x \in Range(q) PROVE x \in Range(c)
  <2>1. PICK i \in 1..Len(q) : q[i] = x
    BY <1>1, <1>4 DEF Range
  <2>2. i \in 1..(Len(q) + Len(r)) /\ c[i] = x
    BY <1>1, <1>2, <2>1
  <2> QED BY <1>2, <2>2 DEF Range
<1>5. ASSUME NEW x \in Range(r) PROVE x \in Range(c)
  <2>1. PICK i \in 1..Len(r) : r[i] = x
    BY <1>1, <1>5 DEF Range
  <2>2. Len(q) + i \in 1..(Len(q) + Len(r)) /\ c[Len(q) + i] = x
    BY <1>1, <1>2, <2>1
  <2> QED BY <1>2, <2>2 DEF Range
<1> QED BY <1>2, <1>3, <1>4, <1>5 DEF c

\* The function by which FlattenSeq concatenates the first m parts of s.
IsFlatten(g, s, m) == g = [i \in 1..m |-> IF i = 1 THEN s[i] ELSE g[i - 1] \o s[i]]

\* Such a function concatenates sequences over T, and finds what is in them.
Flattens(g, s, m, T) ==
    /\ IsFlatten(g, s, m) /\ g \in [1..m -> Seq(T)]
    /\ \A i \in 1..m : Range(g[i]) = UNION {Range(s[j]) : j \in 1..i}

\* There is such a function: the least m for which there is none cannot be.
LEMMA FlattenExists ==
    ASSUME NEW T, NEW s \in Seq(Seq(T)), NEW m \in 1..Len(s)
    PROVE  \E g : Flattens(g, s, m, T)
<1> DEFINE Bad == {k \in 1..Len(s) : ~ \E g : Flattens(g, s, k, T)}
<1> SUFFICES ASSUME Bad # {} PROVE FALSE
  OBVIOUS
<1>1. Len(s) \in Nat /\ \A i \in 1..Len(s) : s[i] \in Seq(T)
  OBVIOUS
<1>0. Bad \subseteq Nat /\ (\A k \in 1..Len(s) : k \notin Bad => \E g : Flattens(g, s, k, T))
      /\ (\A k \in Bad : k \in 1..Len(s) /\ ~ \E g : Flattens(g, s, k, T))
  BY <1>1
<1> HIDE DEF Bad
<1>2. PICK k \in Bad : \A y \in Bad : k <= y
  BY <1>0, LeastNumber
<1>3. k \in 1..Len(s) /\ ~ \E g : Flattens(g, s, k, T)
  BY <1>0
<1>4. CASE k = 1
  <2> DEFINE g == [i \in 1..1 |-> s[1]]
  <2>1. s[1] \in Seq(T)
    BY <1>1, <1>3, <1>4
  <2>2. IsFlatten(g, s, 1)
    BY DEF IsFlatten
  <2>3. Range(g[1]) = UNION {Range(s[j]) : j \in 1..1}
    OBVIOUS
  <2>4. g \in [1..1 -> Seq(T)] /\ \A i \in 1..1 : i = 1
    BY <2>1
  <2> HIDE DEF g
  <2>5. \A i \in 1..1 : Range(g[i]) = UNION {Range(s[j]) : j \in 1..i}
    BY <2>3, <2>4
  <2> QED BY <1>3, <1>4, <2>2, <2>4, <2>5 DEF Flattens
<1>5. CASE k # 1
  <2>1. k - 1 \in 1..Len(s) /\ ~(k <= k - 1) /\ k \in Nat /\ 1 \in 1..(k - 1)
    BY <1>1, <1>3, <1>5
  <2>2. PICK h : Flattens(h, s, k - 1, T)
    BY <1>0, <1>2, <2>1
  <2>3. /\ h \in [1..(k - 1) -> Seq(T)]
        /\ \A i \in 1..(k - 1) : h[i] = IF i = 1 THEN s[i] ELSE h[i - 1] \o s[i]
        /\ \A i \in 1..(k - 1) : Range(h[i]) = UNION {Range(s[j]) : j \in 1..i}
    BY <2>2 DEF Flattens, IsFlatten
  <2> DEFINE last == h[k - 1] \o s[k]
             g == [i \in 1..k |-> IF i = k THEN last ELSE h[i]]
  <2>4. h[k - 1] \in Seq(T) /\ s[k] \in Seq(T)
    BY <1>1, <1>3, <2>1, <2>3
  <2>5. last \in Seq(T) /\ Range(last) = Range(h[k - 1]) \cup Range(s[k])
    BY <2>4, RangeConcat
  <2>6. \A i \in 1..k : i = k \/ i \in 1..(k - 1)
    BY <2>1
  <2>7. g \in [1..k -> Seq(T)]
    BY <2>3, <2>5, <2>6
  <2>8. ASSUME NEW i \in 1..k PROVE g[i] = IF i = 1 THEN s[i] ELSE g[i - 1] \o s[i]
    <3>1. CASE i = k
      <4>1. g[k] = last /\ g[k - 1] = h[k - 1] /\ i # 1
        <5>1. k \in 1..k /\ k - 1 \in 1..k /\ k - 1 # k
          BY <2>1
        <5> QED BY <1>5, <3>1, <5>1
      <4> QED BY <3>1, <4>1
    <3>2. CASE i # k
      <4>1. i \in 1..(k - 1) /\ g[i] = h[i]
        BY <2>6, <3>2
      <4>2. i # 1 => i - 1 \in 1..(k - 1) /\ i - 1 # k /\ i - 1 \in 1..k
        BY <2>1, <4>1
      <4>3. i # 1 => g[i - 1] = h[i - 1]
        BY <4>2
      <4> HIDE DEF g
      <4> QED BY <2>3, <4>1, <4>3
    <3> QED BY <3>1, <3>2
  <2>9. IsFlatten(g, s, k)
    <3>1. g = [i \in 1..k |-> g[i]]
      OBVIOUS
    <3> HIDE DEF g
    <3>2. [i \in 1..k |-> g[i]] = [i \in 1..k |-> IF i = 1 THEN s[i] ELSE g[i - 1] \o s[i]]
      BY <2>8
    <3> QED BY <3>1, <3>2 DEF IsFlatten
  <2>10. ASSUME NEW i \in 1..k PROVE Range(g[i]) = UNION {Range(s[j]) : j \in 1..i}
    <3>1. CASE i = k
      <4>1. g[i] = last /\ k - 1 \in 1..(k - 1)
        <5>1. k \in 1..k /\ k - 1 \in 1..(k - 1)
          BY <2>1
        <5> QED BY <3>1, <5>1
      <4>2. Range(h[k - 1]) = UNION {Range(s[j]) : j \in 1..(k - 1)}
        BY <2>3, <4>1
      <4>3. 1..k = 1..(k - 1) \cup {k}
        BY <2>1
      <4>4. UNION {Range(s[j]) : j \in 1..k} = (UNION {Range(s[j]) : j \in 1..(k - 1)}) \cup Range(s[k])
        BY <4>3
      <4> QED BY <2>5, <3>1, <4>1, <4>2, <4>4
    <3>2. CASE i # k
      <4>1. i \in 1..(k - 1) /\ g[i] = h[i]
        BY <2>6, <3>2
      <4> QED BY <2>3, <4>1
    <3> QED BY <3>1, <3>2
  <2> HIDE DEF g
  <2> QED BY <1>3, <2>7, <2>9, <2>10 DEF Flattens
<1> QED BY <1>4, <1>5

\* FlattenSeq gives the last value of such a function.
LEMMA FlattenIs ==
    ASSUME NEW T, NEW s \in Seq(Seq(T)), Len(s) # 0
    PROVE  \E f : Flattens(f, s, Len(s), T) /\ FlattenSeq(s) = f[Len(s)]
<1> DEFINE g == CHOOSE h : IsFlatten(h, s, Len(s))
<1>1. FlattenSeq(s) = g[Len(s)]
  BY DEF FlattenSeq, IsFlatten
<1>2. Len(s) \in 1..Len(s) /\ DOMAIN s = 1..Len(s)
  OBVIOUS
<1>3. PICK f : Flattens(f, s, Len(s), T)
  BY <1>2, FlattenExists
<1>4. IsFlatten(g, s, Len(s))
  BY <1>3 DEF Flattens
<1> HIDE DEF g
<1>5. g = f
  <2> DEFINE Bad == {k \in 1..Len(s) : g[k] # f[k]}
  <2>1. /\ g = [i \in 1..Len(s) |-> IF i = 1 THEN s[i] ELSE g[i - 1] \o s[i]]
        /\ f = [i \in 1..Len(s) |-> IF i = 1 THEN s[i] ELSE f[i - 1] \o s[i]]
    BY <1>3, <1>4 DEF IsFlatten, Flattens
  <2>5. Bad \subseteq Nat /\ \A k \in 1..Len(s) : k \in Bad <=> g[k] # f[k]
    OBVIOUS
  <2>6. Bad \subseteq 1..Len(s)
    OBVIOUS
  <2> HIDE DEF Bad
  <2>2. ASSUME Bad # {} PROVE FALSE
    <3>1. PICK k \in Bad : \A y \in Bad : k <= y
      BY <2>2, <2>5, LeastNumber
    <3>2. k \in 1..Len(s) /\ g[k] # f[k]
      BY <2>5, <2>6
    <3>3. k # 1
      BY <2>1, <3>2
    <3>4. k - 1 \in 1..Len(s) /\ ~(k <= k - 1)
      BY <3>2, <3>3
    <3>5. g[k - 1] = f[k - 1]
      BY <2>5, <3>1, <3>4
    <3>6. \A h : IsFlatten(h, s, Len(s)) => h[k] = IF k = 1 THEN s[k] ELSE h[k - 1] \o s[k]
      BY <3>2 DEF IsFlatten
    <3>7. IsFlatten(f, s, Len(s))
      BY <1>3 DEF Flattens
    <3>8. g[k] = g[k - 1] \o s[k] /\ f[k] = f[k - 1] \o s[k]
      BY <1>4, <3>3, <3>6, <3>7
    <3> QED BY <3>2, <3>5, <3>8
  <2>3. \A k \in 1..Len(s) : g[k] = f[k]
    BY <2>2, <2>5
  <2>4. g = [k \in 1..Len(s) |-> g[k]] /\ f = [k \in 1..Len(s) |-> f[k]]
    BY <2>1
  <2> QED BY <2>3, <2>4
<1> QED BY <1>1, <1>3, <1>5

\* FlattenSeq gives a sequence of what is in the parts.
LEMMA Flattened ==
    ASSUME NEW T, NEW s \in Seq(Seq(T))
    PROVE  /\ FlattenSeq(s) \in Seq(T)
           /\ Range(FlattenSeq(s)) = UNION {Range(s[i]) : i \in DOMAIN s}
<1>1. CASE Len(s) = 0
  <2>1. s = <<>> /\ FlattenSeq(s) = s
    BY <1>1 DEF FlattenSeq
  <2>2. DOMAIN s = {} /\ s \in Seq(T)
    BY <2>1
  <2>3. Range(s) = {} /\ UNION {Range(s[i]) : i \in DOMAIN s} = {}
    BY <2>2 DEF Range
  <2> QED BY <2>1, <2>2, <2>3
<1>2. CASE Len(s) # 0
  <2>1. PICK f : Flattens(f, s, Len(s), T) /\ FlattenSeq(s) = f[Len(s)]
    BY <1>2, FlattenIs
  <2>2. Len(s) \in 1..Len(s) /\ DOMAIN s = 1..Len(s)
    BY <1>2
  <2> QED BY <2>1, <2>2 DEF Flattens
<1> QED BY <1>1, <1>2

-----------------------------------------------------------------------------
(* Sequences and sets *)

\* A sequence holds finitely many things, at most as many as it is long.
LEMMA RangeFinite ==
    ASSUME NEW T, NEW q \in Seq(T)
    PROVE  IsFiniteSet(Range(q)) /\ Cardinality(Range(q)) <= Len(q) /\ Range(q) \subseteq T
<1>1. Len(q) \in Nat /\ DOMAIN q = 1..Len(q) /\ \A i \in 1..Len(q) : q[i] \in T
  OBVIOUS
<1>2. IsFiniteSet(1..Len(q)) /\ Cardinality(1..Len(q)) = Len(q)
  <2> DEFINE n == Len(q)
  <2>1. n \in Nat
    BY <1>1
  <2> HIDE DEF n
  <2>2. IsFiniteSet(1..n) /\ Cardinality(1..n) = n
    BY <2>1, FS_Interval
  <2> QED BY <2>2 DEF n
<1>3. q \in Surjection(1..Len(q), Range(q))
  <2>1. q \in [1..Len(q) -> Range(q)]
    BY <1>1 DEF Range
  <2> QED BY <1>1, <2>1 DEF Surjection, Range
<1> QED BY <1>1, <1>2, <1>3, FS_Surjection DEF Range

\* SetToSeq lists a finite set, each member once.
LEMMA SetListed ==
    ASSUME NEW S, IsFiniteSet(S)
    PROVE  /\ SetToSeq(S) \in Seq(S) /\ Range(SetToSeq(S)) = S
           /\ \A i, j \in 1..Len(SetToSeq(S)) : SetToSeq(S)[i] = SetToSeq(S)[j] => i = j
<1> DEFINE n == Cardinality(S)
           q == SetToSeq(S)
<1>1. n \in Nat /\ ExistsBijection(1..n, S)
  BY FS_CardinalityType
<1>2. \E f \in [1..n -> S] : IsInjective(f)
  BY <1>1 DEF ExistsBijection, Bijection, Injection
<1>3. q \in [1..n -> S] /\ IsInjective(q)
  BY <1>2 DEF SetToSeq
<1>4. IsFiniteSet(1..n) /\ Cardinality(1..n) = n
  BY <1>1, FS_Interval
<1> HIDE DEF q, n
<1>5. q \in Injection(1..n, S)
  BY <1>3 DEF Injection
<1>6. q \in Surjection(1..n, S)
  BY <1>4, <1>5, FS_Injection DEF n
<1>7. Range(q) = S
  BY <1>3, <1>6 DEF Surjection, Range
<1>8. q \in Seq(S)
  BY <1>1, <1>3, SeqDef
<1>9. \A i, j \in 1..Len(q) : q[i] = q[j] => i = j
  BY <1>1, <1>3 DEF IsInjective
<1> QED BY <1>7, <1>8, <1>9 DEF q

\* A part of a sequence holds some of what it holds.
LEMMA RangeSubSeq ==
    ASSUME NEW T, NEW q \in Seq(T), NEW m \in 1..(Len(q) + 1), NEW n \in 0..Len(q)
    PROVE  SubSeq(q, m, n) \in Seq(T) /\ Range(SubSeq(q, m, n)) \subseteq Range(q)
<1>1. Len(q) \in Nat /\ DOMAIN q = 1..Len(q) /\ \A i \in m..n : i \in 1..Len(q) /\ q[i] \in Range(q)
  BY DEF Range
<1>2. SubSeq(q, m, n) \in Seq(Range(q))
  BY <1>1, SubSeqProperties
<1>3. Range(q) \subseteq T
  BY RangeFinite
<1>4. SubSeq(q, m, n) \in Seq(T)
  BY <1>2, <1>3, SeqMonotonic
<1> QED BY <1>2, <1>4, RangeFinite

-----------------------------------------------------------------------------
(* Tokens and rows *)

\* Rows and postings of the pages there are.
Depths == {p.depth : p \in Pages}
RowType == [token : Words, url : URLs, depth : Depths, tf : Nat]
PostingType == [url : URLs, depth : Depths, tf : Nat]

\* The tokens of a text.
LEMMA TokensType ==
    ASSUME NEW text \in Seq(Words)
    PROVE  tokenize(text) \in Seq(Words)
<1> DEFINE s == [n \in DOMAIN text |-> IF text[n] \in DroppedWords THEN <<>> ELSE <<text[n]>>]
<1>1. DOMAIN text = 1..Len(text) /\ Len(text) \in Nat /\ \A n \in 1..Len(text) : text[n] \in Words
  OBVIOUS
<1>2. \A n \in 1..Len(text) : s[n] \in Seq(Words)
  BY <1>1
<1>3. s \in Seq(Seq(Words))
  BY <1>1, <1>2
<1> HIDE DEF s
<1>4. FlattenSeq(s) \in Seq(Words)
  BY <1>3, Flattened
<1> QED BY <1>4 DEF tokenize, s

\* The tokens of the rows of a text.
LEMMA RowTokensType ==
    ASSUME NEW text \in Seq(Words)
    PROVE  RowTokens(text) \in Seq(Words)
<1> DEFINE s == [i \in DOMAIN text |-> Pieces[text[i]]]
<1>1. DOMAIN text = 1..Len(text) /\ Len(text) \in Nat /\ \A n \in 1..Len(text) : text[n] \in Words
  OBVIOUS
<1>2. \A n \in 1..Len(text) : s[n] \in Seq(Words)
  BY <1>1, IndexAssumption
<1>3. s \in Seq(Seq(Words))
  BY <1>1, <1>2
<1> HIDE DEF s
<1>4. FlattenSeq(s) \in Seq(Words)
  BY <1>3, Flattened
<1> QED BY <1>4 DEF RowTokens, s

\* How often a token occurs is a number.
LEMMA CountNat ==
    ASSUME NEW text \in Seq(Words), NEW t
    PROVE  Count(t, text) \in Nat
<1>1. Len(text) \in Nat /\ DOMAIN text = 1..Len(text)
  OBVIOUS
<1>2. IsFiniteSet(DOMAIN text)
  BY <1>1, FS_Interval
<1>3. IsFiniteSet({i \in DOMAIN text : text[i] = t})
  BY <1>2, FS_Subset
<1> QED BY <1>3, FS_CardinalityType DEF Count

\* The row of a page for a token.
RowAt(p, t) == [token |-> t, url |-> p.url, depth |-> p.depth, tf |-> Count(t, RowTokens(p.words))]

\* The rows of a page, one for each token.
LEMMA RowsOfPage ==
    ASSUME NEW p \in Pages
    PROVE  /\ collectPostings(p) \in Seq(RowType)
           /\ \A row \in Range(collectPostings(p)) : row.url = p.url
           /\ Range(collectPostings(p)) = {RowAt(p, t) : t \in Range(RowTokens(p.words))}
           /\ \A i, j \in 1..Len(collectPostings(p)) :
                 collectPostings(p)[i].token = collectPostings(p)[j].token => i = j
<1> DEFINE tokens == RowTokens(p.words)
           S == {RowAt(p, t) : t \in Range(tokens)}
<1>1. p.words \in Seq(Words) /\ p.depth \in Depths /\ p.url \in URLs
  BY IndexAssumption DEF URLs, Depths
<1>2. tokens \in Seq(Words)
  BY <1>1, RowTokensType
<1>3. IsFiniteSet(Range(tokens)) /\ Range(tokens) \subseteq Words
  BY <1>2, RangeFinite
<1>4. S \subseteq RowType /\ \A row \in S : row.url = p.url
  BY <1>1, <1>2, <1>3, CountNat DEF RowType, RowAt
<1>5. IsFiniteSet(S)
  <2> DEFINE f == [t \in Range(tokens) |-> RowAt(p, t)]
  <2>1. f \in Surjection(Range(tokens), S)
    BY DEF Surjection
  <2> HIDE DEF f, S
  <2> QED BY <1>3, <2>1, FS_Surjection
<1>6. collectPostings(p) = SetToSeq(S)
  BY DEF collectPostings, RowAt
<1>8. \A x, y \in S : x.token = y.token => x = y
  BY DEF RowAt
<1> HIDE DEF S
<1>7. /\ collectPostings(p) \in Seq(S) /\ Range(collectPostings(p)) = S
      /\ \A i, j \in 1..Len(collectPostings(p)) : collectPostings(p)[i] = collectPostings(p)[j] => i = j
  BY <1>5, <1>6, SetListed
<1>9. \A i, j \in 1..Len(collectPostings(p)) :
          collectPostings(p)[i].token = collectPostings(p)[j].token => i = j
  <2> DEFINE q == collectPostings(p)
  <2>1. \A i \in 1..Len(q) : q[i] \in S
    BY <1>7
  <2> HIDE DEF q
  <2> QED BY <1>7, <1>8, <2>1 DEF q
<1> QED BY <1>4, <1>7, <1>9, SeqMonotonic DEF S

-----------------------------------------------------------------------------
(* The lines of p.data *)

\* A line of p.data.
LineType == [row : RowType, whole : BOOLEAN, nl : BOOLEAN]

\* The rows that can be read back from lines.
WholeRows(ls) == {line.row : line \in {l \in Range(ls) : l.whole}}

\* Whole lines are read back as their rows.
LEMMA LinesOfRows ==
    ASSUME NEW rows \in Seq(RowType)
    PROVE  Lines(rows) \in Seq(LineType) /\ WholeRows(Lines(rows)) \subseteq Range(rows)
<1>1. Len(rows) \in Nat /\ DOMAIN rows = 1..Len(rows) /\ \A n \in 1..Len(rows) : rows[n] \in RowType
  OBVIOUS
<1>2. Lines(rows) = [n \in 1..Len(rows) |-> Line(rows[n])]
  BY <1>1 DEF Lines
<1>3. \A n \in 1..Len(rows) : Line(rows[n]) \in LineType /\ Line(rows[n]).row = rows[n]
  BY <1>1 DEF Line, LineType
<1>4. Lines(rows) \in [1..Len(rows) -> LineType]
  BY <1>2, <1>3
<1>5. Lines(rows) \in Seq(LineType)
  BY <1>1, <1>4, SeqDef
<1>6. ASSUME NEW line \in Range(Lines(rows)) PROVE line.row \in Range(rows)
  <2>1. PICK n \in 1..Len(rows) : line = Line(rows[n])
    BY <1>2, <1>6 DEF Range
  <2> QED BY <1>1, <1>3, <2>1 DEF Range
<1> QED BY <1>5, <1>6 DEF WholeRows

\* Appending makes no row readable that was not there before.
LEMMA Appended ==
    ASSUME NEW f \in Seq(LineType), NEW ls \in Seq(LineType)
    PROVE  /\ AppendLines(f, ls) \in Seq(LineType)
           /\ WholeRows(AppendLines(f, ls)) \subseteq WholeRows(f) \cup WholeRows(ls)
<1>1. f \o ls \in Seq(LineType) /\ Range(f \o ls) = Range(f) \cup Range(ls)
  BY RangeConcat
<1>2. CASE AppendLines(f, ls) = f \o ls
  BY <1>1, <1>2 DEF WholeRows
<1>3. CASE AppendLines(f, ls) # f \o ls
  <2> DEFINE cut == [Head(ls) EXCEPT !.whole = FALSE]
             rest == <<cut>> \o Tail(ls)
  <2>1. f # <<>> /\ ls # <<>>
    BY <1>3 DEF AppendLines
  <2>2. AppendLines(f, ls) = Front(f) \o <<cut>> \o Tail(ls)
    BY <1>3 DEF AppendLines
  <2>3. Len(f) \in Nat /\ Len(f) # 0 /\ Len(ls) \in Nat /\ Len(ls) # 0
    BY <2>1, EmptySeq
  <2>4. Front(f) \in Seq(LineType) /\ Range(Front(f)) \subseteq Range(f)
    <3>1. 1 \in 1..(Len(f) + 1) /\ Len(f) - 1 \in 0..Len(f)
      BY <2>3
    <3> QED BY <3>1, RangeSubSeq DEF Front
  <2>5. Tail(ls) \in Seq(LineType) /\ Range(Tail(ls)) \subseteq Range(ls)
    <3>1. Tail(ls) \in Seq(LineType) /\ Len(Tail(ls)) = Len(ls) - 1
          /\ \A k \in 1..Len(Tail(ls)) : Tail(ls)[k] = ls[k + 1]
      BY <2>1, HeadTailProperties
    <3>2. ASSUME NEW k \in 1..Len(Tail(ls)) PROVE Tail(ls)[k] \in Range(ls)
      BY <2>3, <3>1 DEF Range
    <3>3. DOMAIN Tail(ls) = 1..Len(Tail(ls))
      BY <3>1
    <3> QED BY <3>1, <3>2, <3>3 DEF Range
  <2>6. Head(ls) \in LineType
    BY <2>1
  <2>7. cut \in LineType /\ ~cut.whole
    BY <2>6 DEF LineType
  <2> HIDE DEF cut
  <2>8. <<cut>> \in Seq(LineType) /\ Range(<<cut>>) = {cut}
    BY <2>7 DEF Range
  <2>9. Front(f) \o <<cut>> \in Seq(LineType)
        /\ Range(Front(f) \o <<cut>>) = Range(Front(f)) \cup {cut}
    <3>1. Front(f) \in Seq(LineType) /\ <<cut>> \in Seq(LineType)
      BY <2>4, <2>8
    <3>2. /\ Front(f) \o <<cut>> \in Seq(LineType)
          /\ Range(Front(f) \o <<cut>>) = Range(Front(f)) \cup Range(<<cut>>)
      BY <3>1, RangeConcat, Zenon
    <3> QED BY <2>8, <3>2
  <2> DEFINE start == Front(f) \o <<cut>>
  <2>10. AppendLines(f, ls) = start \o Tail(ls) /\ start \in Seq(LineType)
         /\ Range(start) = Range(Front(f)) \cup {cut}
    BY <2>2, <2>9
  <2> HIDE DEF start
  <2>11. start \o Tail(ls) \in Seq(LineType)
         /\ Range(start \o Tail(ls)) = Range(start) \cup Range(Tail(ls))
    <3>1. start \in Seq(LineType) /\ Tail(ls) \in Seq(LineType)
      BY <2>5, <2>10
    <3> QED BY <3>1, RangeConcat, Zenon
  <2> QED BY <2>4, <2>5, <2>7, <2>10, <2>11 DEF WholeRows
<1> QED BY <1>2, <1>3

\* Lines for the first of some rows.
FirstLines(ls, rows) == Len(ls) <= Len(rows) /\ \A k \in 1..Len(ls) : ls[k].row = rows[k]

\* A write that the end of the process interrupts appends lines of rows to be written.
LEMMA TornAppends ==
    ASSUME NEW i \in Indexers, pending[i] \in Seq(RowType), file \in Seq(LineType),
           NEW f \in TornFiles(i)
    PROVE  \E ls \in Seq(LineType) : /\ f = AppendLines(file, ls)
                                     /\ WholeRows(ls) \subseteq Range(pending[i])
                                     /\ FirstLines(ls, pending[i])
<1> DEFINE rows == pending[i]
<1>1. rows \in Seq(RowType) /\ Len(rows) \in Nat /\ \A k \in 1..Len(rows) : rows[k] \in RowType /\ rows[k] \in Range(rows)
  BY DEF Range
<1>2. ASSUME NEW n \in 0..Len(rows)
      PROVE  /\ Lines(SubSeq(rows, 1, n)) \in Seq(LineType)
             /\ WholeRows(Lines(SubSeq(rows, 1, n))) \subseteq Range(rows)
             /\ Len(Lines(SubSeq(rows, 1, n))) = n
             /\ \A k \in 1..n : Lines(SubSeq(rows, 1, n))[k].row = rows[k]
  <2>1. 1 \in 1..(Len(rows) + 1)
    BY <1>1
  <2>2. SubSeq(rows, 1, n) \in Seq(RowType) /\ Range(SubSeq(rows, 1, n)) \subseteq Range(rows)
    BY <1>1, <2>1, RangeSubSeq
  <2>3. Len(SubSeq(rows, 1, n)) = n /\ \A k \in 1..n : SubSeq(rows, 1, n)[k] = rows[k]
    <3>1. 1 \in Int /\ n \in Int /\ n - 1 + 1 = n /\ (1 <= n \/ n = 0)
          /\ \A k \in 1..n : 1 + k - 1 = k /\ rows[k] \in RowType
      BY <1>1
    <3> QED BY <3>1, SubSeqProperties
  <2> DEFINE part == SubSeq(rows, 1, n)
  <2> HIDE DEF part
  <2>4. Lines(part) = [k \in DOMAIN part |-> Line(part[k])]
    BY DEF Lines
  <2>5. DOMAIN part = 1..n /\ n \in Nat
    BY <1>1, <2>2, <2>3 DEF part
  <2>6. Len(Lines(part)) = n /\ \A k \in 1..n : Lines(part)[k].row = part[k]
    <3>1. \A k \in 1..n : Lines(part)[k] = Line(part[k])
      BY <2>4, <2>5
    <3> QED BY <2>4, <2>5, <3>1 DEF Line
  <2> QED BY <2>2, <2>3, <2>6, LinesOfRows DEF part
<1>3. CASE \E n \in 0..Len(rows) : f = AppendLines(file, Lines(SubSeq(rows, 1, n)))
  <2>1. PICK n \in 0..Len(rows) : f = AppendLines(file, Lines(SubSeq(rows, 1, n)))
    BY <1>3
  <2> DEFINE ls == Lines(SubSeq(rows, 1, n))
  <2>2. ls \in Seq(LineType) /\ WholeRows(ls) \subseteq Range(rows) /\ Len(ls) = n
        /\ \A k \in 1..n : ls[k].row = rows[k]
    BY <1>2
  <2>3. f = AppendLines(file, ls)
    BY <2>1
  <2> HIDE DEF ls
  <2>4. FirstLines(ls, rows)
    BY <1>1, <2>2 DEF FirstLines
  <2> QED BY <2>2, <2>3, <2>4
<1>4. CASE \E n \in 0..(Len(rows) - 1), w \in BOOLEAN :
             f = AppendLines(file, Append(Lines(SubSeq(rows, 1, n)),
                                          [row |-> rows[n + 1], whole |-> w, nl |-> FALSE]))
  <2>1. PICK n \in 0..(Len(rows) - 1), w \in BOOLEAN :
             f = AppendLines(file, Append(Lines(SubSeq(rows, 1, n)),
                                          [row |-> rows[n + 1], whole |-> w, nl |-> FALSE]))
    BY <1>4
  <2> DEFINE ls == Lines(SubSeq(rows, 1, n))
             line == [row |-> rows[n + 1], whole |-> w, nl |-> FALSE]
  <2>2. n \in 0..Len(rows) /\ n + 1 \in 1..Len(rows)
    BY <1>1
  <2>3. ls \in Seq(LineType) /\ WholeRows(ls) \subseteq Range(rows) /\ Len(ls) = n
        /\ \A k \in 1..n : ls[k].row = rows[k]
    BY <1>2, <2>2
  <2>4. line \in LineType /\ line.row \in Range(rows) /\ line.row = rows[n + 1]
    BY <1>1, <2>2 DEF LineType
  <2> HIDE DEF line, ls
  <2>5. <<line>> \in Seq(LineType) /\ Range(<<line>>) = {line}
    BY <2>4 DEF Range
  <2>6. Append(ls, line) = ls \o <<line>>
    BY <2>3, <2>4, AppendIsConcat
  <2>7. Append(ls, line) \in Seq(LineType) /\ Range(Append(ls, line)) = Range(ls) \cup {line}
    <3>1. ls \in Seq(LineType) /\ <<line>> \in Seq(LineType)
      BY <2>3, <2>5
    <3>2. /\ ls \o <<line>> \in Seq(LineType)
          /\ Range(ls \o <<line>>) = Range(ls) \cup Range(<<line>>)
      BY <3>1, RangeConcat, Zenon
    <3> QED BY <2>5, <2>6, <3>2
  <2>8. WholeRows(Append(ls, line)) \subseteq Range(rows)
    BY <2>3, <2>4, <2>7 DEF WholeRows
  <2>9. f = AppendLines(file, Append(ls, line))
    BY <2>1 DEF ls, line
  <2> DEFINE new == Append(ls, line)
  <2>11. FirstLines(new, rows)
    <3>1. /\ Len(new) = n + 1 /\ new[n + 1] = line /\ \A k \in 1..n : new[k] = ls[k]
      BY <2>3, <2>4, AppendProperties
    <3> HIDE DEF new
    <3>2. n + 1 <= Len(rows) /\ \A k \in 1..(n + 1) : k \in 1..n \/ k = n + 1
      BY <1>1
    <3> QED BY <2>3, <2>4, <3>1, <3>2 DEF FirstLines
  <2>10. f = AppendLines(file, new) /\ new \in Seq(LineType) /\ WholeRows(new) \subseteq Range(rows)
         /\ FirstLines(new, rows)
    BY <2>7, <2>8, <2>9, <2>11
  <2> HIDE DEF new
  <2> QED BY <2>10
<1> DEFINE After(n) == AppendLines(file, Lines(SubSeq(rows, 1, n)))
           Whole == {After(n) : n \in 0..Len(rows)}
           Torn(n, w) == AppendLines(file, Append(Lines(SubSeq(rows, 1, n)),
                                                  [row |-> rows[n + 1], whole |-> w, nl |-> FALSE]))
           Cut == {Torn(n, w) : n \in 0..(Len(rows) - 1), w \in BOOLEAN}
<1>5. TornFiles(i) = Whole \cup Cut
  BY DEF TornFiles
<1>6. CASE f \in Whole
  <2> HIDE DEF After
  <2>1. \E n \in 0..Len(rows) : f = After(n)
    BY <1>6
  <2> QED BY <1>3, <2>1 DEF After
<1>7. CASE f \in Cut
  <2> HIDE DEF Torn
  <2>1. \E n \in 0..(Len(rows) - 1), w \in BOOLEAN : f = Torn(n, w)
    BY <1>7
  <2> QED BY <1>4, <2>1 DEF Torn
<1> QED
  <2> HIDE DEF Whole, Cut
  <2> QED BY <1>5, <1>6, <1>7

\* It makes no row readable that was not there or to be written.
LEMMA TornWrite ==
    ASSUME NEW i \in Indexers, pending[i] \in Seq(RowType), file \in Seq(LineType),
           NEW f \in TornFiles(i)
    PROVE  f \in Seq(LineType) /\ WholeRows(f) \subseteq WholeRows(file) \cup Range(pending[i])
<1>1. PICK ls \in Seq(LineType) : f = AppendLines(file, ls) /\ WholeRows(ls) \subseteq Range(pending[i])
  BY TornAppends
<1> QED BY <1>1, Appended

\* What is read back is the rows of the whole lines.
LEMMA Loaded ==
    file \in Seq(LineType) =>
        LoadPostingsFromFile \in Seq(RowType) /\ Range(LoadPostingsFromFile) = WholeRows(file)
<1> SUFFICES ASSUME file \in Seq(LineType)
             PROVE  LoadPostingsFromFile \in Seq(RowType) /\ Range(LoadPostingsFromFile) = WholeRows(file)
  OBVIOUS
<1> DEFINE s == [n \in DOMAIN file |-> IF file[n].whole THEN <<file[n].row>> ELSE <<>>]
<1>1. DOMAIN file = 1..Len(file) /\ Len(file) \in Nat
      /\ \A n \in 1..Len(file) : file[n].row \in RowType
  <2>1. DOMAIN file = 1..Len(file) /\ Len(file) \in Nat /\ \A n \in 1..Len(file) : file[n] \in LineType
    OBVIOUS
  <2>2. \A line \in LineType : line.row \in RowType
    BY DEF LineType
  <2> QED BY <2>1, <2>2
<1>2. \A n \in 1..Len(file) : s[n] \in Seq(RowType)
  BY <1>1
<1>3. s \in Seq(Seq(RowType)) /\ DOMAIN s = 1..Len(file)
  BY <1>1, <1>2
<1>4. \A n \in 1..Len(file) : Range(s[n]) = IF file[n].whole THEN {file[n].row} ELSE {}
  BY <1>1 DEF Range
<1>5. LoadPostingsFromFile = FlattenSeq(s)
  BY DEF LoadPostingsFromFile
<1> HIDE DEF s
<1>6. FlattenSeq(s) \in Seq(RowType) /\ Range(FlattenSeq(s)) = UNION {Range(s[n]) : n \in 1..Len(file)}
  BY <1>3, Flattened
<1>7. UNION {Range(s[n]) : n \in 1..Len(file)} = WholeRows(file)
  <2>1. Range(file) = {file[n] : n \in 1..Len(file)}
    BY <1>1 DEF Range
  <2>2. WholeRows(file) = {file[n].row : n \in {m \in 1..Len(file) : file[m].whole}}
    BY <2>1 DEF WholeRows
  <2>3. ASSUME NEW row, NEW n \in 1..Len(file), row \in Range(s[n]) PROVE row \in WholeRows(file)
    BY <1>4, <2>2, <2>3
  <2>4. ASSUME NEW row \in WholeRows(file) PROVE \E n \in 1..Len(file) : row \in Range(s[n])
    BY <1>4, <2>2, <2>4
  <2> QED BY <2>3, <2>4, Zenon
<1> QED BY <1>5, <1>6, <1>7

-----------------------------------------------------------------------------
(* Rebuilding the index, and the table *)

\* The postings of an index, and their URLs.
AllPostings(index) == UNION {Range(index[t]) : t \in Words}
IndexedURLs(index) == {p.url : p \in AllPostings(index)}

\* The URLs of rows.
RowURLs(rows) == {row.url : row \in rows}

\* An index built from rows holds the pages of the rows.
LEMMA Rebuilt ==
    ASSUME NEW rows \in Seq(RowType)
    PROVE  /\ WithRows(rows) \in [Words -> Seq(PostingType)]
           /\ IndexedURLs(WithRows(rows)) \subseteq RowURLs(Range(rows))
<1> DEFINE s(t) == [n \in DOMAIN rows |->
                       IF rows[n].token = t THEN <<PostingOf(rows[n])>> ELSE <<>>]
<1>1. Len(rows) \in Nat /\ DOMAIN rows = 1..Len(rows) /\ \A n \in 1..Len(rows) : rows[n] \in RowType
  OBVIOUS
<1>2. \A n \in 1..Len(rows) : PostingOf(rows[n]) \in PostingType /\ PostingOf(rows[n]).url = rows[n].url
  BY <1>1 DEF PostingOf, PostingType, RowType
<1>3. ASSUME NEW t \in Words
      PROVE  /\ FlattenSeq(s(t)) \in Seq(PostingType)
             /\ \A p \in Range(FlattenSeq(s(t))) : p.url \in RowURLs(Range(rows))
  <2>1. \A n \in 1..Len(rows) : s(t)[n] \in Seq(PostingType)
    BY <1>1, <1>2
  <2>2. s(t) \in Seq(Seq(PostingType)) /\ DOMAIN s(t) = 1..Len(rows)
    BY <1>1, <2>1
  <2>3. ASSUME NEW n \in 1..Len(rows), NEW p \in Range(s(t)[n]) PROVE p.url \in RowURLs(Range(rows))
    <3>1. s(t)[n] = <<PostingOf(rows[n])>> \/ s(t)[n] = <<>>
      BY <1>1
    <3>2. Range(<<PostingOf(rows[n])>>) = {PostingOf(rows[n])} /\ Range(<<>>) = {}
      BY DEF Range
    <3> HIDE DEF s
    <3>3. p = PostingOf(rows[n])
      BY <2>3, <3>1, <3>2
    <3> QED BY <1>1, <1>2, <3>3 DEF RowURLs, Range
  <2> DEFINE q == s(t)
  <2>4. q \in Seq(Seq(PostingType)) /\ DOMAIN q = 1..Len(rows)
        /\ \A n \in 1..Len(rows) : \A p \in Range(q[n]) : p.url \in RowURLs(Range(rows))
    BY <2>2, <2>3, Zenon
  <2> HIDE DEF q
  <2>5. FlattenSeq(q) \in Seq(PostingType) /\ Range(FlattenSeq(q)) = UNION {Range(q[n]) : n \in DOMAIN q}
    BY <2>4, Flattened, Zenon
  <2>6. \A p \in Range(FlattenSeq(q)) : p.url \in RowURLs(Range(rows))
    BY <2>4, <2>5
  <2> QED BY <2>5, <2>6 DEF q
<1>4. WithRows(rows) = [t \in Words |-> FlattenSeq(s(t))]
  BY DEF WithRows
<1> HIDE DEF s
<1>5. WithRows(rows) \in [Words -> Seq(PostingType)]
  BY <1>3, <1>4
<1>6. \A t \in Words : WithRows(rows)[t] = FlattenSeq(s(t))
  BY <1>4
<1> QED BY <1>3, <1>5, <1>6 DEF IndexedURLs, AllPostings

\* The table after a batch holds nothing new but rows of the batch, and has a
\* row for every key it had and for every key of the batch.
LEMMA SavedBatch ==
    ASSUME NEW rows \in Seq(RowType), table \subseteq RowType, IsFiniteSet(table)
    PROVE  /\ Saved(rows) \subseteq table \cup Range(rows) /\ IsFiniteSet(Saved(rows))
           /\ \A row \in table \cup Range(rows) :
                 \E new \in Saved(rows) : new.token = row.token /\ new.url = row.url
<1> DEFINE Key(row) == <<row.token, row.url>>
           Latest(n) == \A k \in DOMAIN rows : k > n => Key(rows[k]) # Key(rows[n])
           latest == {rows[n] : n \in {m \in DOMAIN rows : Latest(m)}}
           kept == {old \in table : \A row \in latest : Key(row) # Key(old)}
<1>1. Saved(rows) = latest \cup kept
  BY DEF Saved
<1>2. Len(rows) \in Nat /\ DOMAIN rows = 1..Len(rows)
  OBVIOUS
<1>3. latest \subseteq Range(rows) /\ kept \subseteq table
  BY DEF Range
<1>4. IsFiniteSet(latest) /\ IsFiniteSet(kept)
  BY <1>3, RangeFinite, FS_Subset
<1>5. IsFiniteSet(latest \cup kept)
  BY <1>4, FS_Union
<1>6. ASSUME NEW row \in Range(rows) PROVE \E new \in latest : Key(new) = Key(row)
  <2> DEFINE S == {k \in 0..Len(rows) : Len(rows) - k \in 1..Len(rows) /\ Key(rows[Len(rows) - k]) = Key(row)}
  <2>1. PICK m \in 1..Len(rows) : rows[m] = row
    BY <1>2, <1>6 DEF Range
  <2>2. Len(rows) - m \in S
    <3>1. Len(rows) - m \in 0..Len(rows) /\ Len(rows) - (Len(rows) - m) = m
      BY <1>2
    <3> QED BY <2>1, <3>1
  <2>3. S \subseteq Nat /\ (\A k \in S : Len(rows) - k \in 1..Len(rows) /\ Key(rows[Len(rows) - k]) = Key(row))
        /\ \A k \in 0..Len(rows) : 
              Len(rows) - k \in 1..Len(rows) /\ Key(rows[Len(rows) - k]) = Key(row) => k \in S
    BY <1>2
  <2> HIDE DEF S
  <2>4. PICK least \in S : \A k \in S : least <= k
    BY <2>2, <2>3, LeastNumber
  <2> DEFINE n == Len(rows) - least
  <2>5. n \in 1..Len(rows) /\ Key(rows[n]) = Key(row)
    BY <2>3
  <2>6. ASSUME NEW k \in 1..Len(rows), k > n PROVE Key(rows[k]) # Key(rows[n])
    <3>1. Len(rows) - k \in 0..Len(rows) /\ Len(rows) - (Len(rows) - k) = k /\ ~(least <= Len(rows) - k)
      BY <1>2, <2>3, <2>6
    <3>2. Len(rows) - k \notin S
      BY <2>4, <3>1
    <3>3. Key(rows[k]) # Key(row)
      BY <2>3, <3>1, <3>2
    <3> QED BY <2>5, <3>3
  <2> HIDE DEF n
  <2>7. Latest(n)
    BY <1>2, <2>6
  <2>8. rows[n] \in latest
    BY <1>2, <2>5, <2>7
  <2> QED BY <2>5, <2>8
<1>7. ASSUME NEW row \in table PROVE \E new \in latest \cup kept : Key(new) = Key(row)
  BY <1>7
<1> HIDE DEF latest, kept
<1>8. \A row \in table \cup Range(rows) : \E new \in latest \cup kept : Key(new) = Key(row)
  BY <1>6, <1>7
<1>9. \A row \in table \cup Range(rows) :
          \E new \in latest \cup kept : new.token = row.token /\ new.url = row.url
  BY <1>8
<1> QED BY <1>1, <1>3, <1>5, <1>9

\* After a restart the index is built from rows of p.data or of the table.
LEMMA Restored ==
    file \in Seq(LineType) /\ table \subseteq RowType /\ IsFiniteSet(table) =>
        /\ RestoredRows \in Seq(RowType) 
        /\ Range(RestoredRows) \subseteq WholeRows(file) \cup table
<1> SUFFICES ASSUME file \in Seq(LineType), table \subseteq RowType, IsFiniteSet(table)
             PROVE  /\ RestoredRows \in Seq(RowType)
                    /\ Range(RestoredRows) \subseteq WholeRows(file) \cup table
  OBVIOUS
<1>1. LoadPostingsFromFile \in Seq(RowType) /\ Range(LoadPostingsFromFile) = WholeRows(file)
  BY Loaded
<1>2. SetToSeq(table) \in Seq(table) /\ Range(SetToSeq(table)) = table
  BY SetListed
<1>3. SetToSeq(table) \in Seq(RowType)
  BY <1>2, SeqMonotonic
<1> QED BY <1>1, <1>2, <1>3 DEF RestoredRows, LoadAllPostings

-----------------------------------------------------------------------------
(* The invariant *)

\* The variables of the index and its storage have their types.
StorageTypes ==
    /\ postings \in [Words -> Seq(PostingType)]
    /\ docCount \in Nat /\ restarts \in Nat /\ tornWrites \in Nat
    /\ ipc \in [Indexers -> {"off", "select", "save", "open", "write"}]
    /\ closing \in [Indexers -> BOOLEAN] /\ handle \in BOOLEAN
    /\ pending \in [Indexers -> Seq(RowType)] /\ stored \in Seq(RowType)
    /\ table \subseteq RowType /\ IsFiniteSet(table)
    /\ file \in Seq(LineType)
    /\ added \in Seq(Pages)

\* A flush has rows, and pdataMu admits one writer.
Flushing ==
    /\ \A i \in Indexers : ipc[i] \in {"save", "open", "write"} => pending[i] # <<>>
    /\ \A i, j \in Indexers : ipc[i] = "write" /\ ipc[j] = "write" => i = j

\* The table has a row for the token and the url of row.
Keyed(row) == \E old \in table : old.token = row.token /\ old.url = row.url

\* What is in p.data, or may be when the write under way ends, is in the table.
TableAhead ==
    /\ \A row \in WholeRows(file) : Keyed(row)
    /\ \A i \in Indexers : ipc[i] \in {"open", "write"} => \A row \in Range(pending[i]) : Keyed(row)

\* Postings and rows are those of pages added.
KnownURLs == {p.url : p \in Range(added)}
OnlyAdded ==
    /\ IndexedURLs(postings) \subseteq KnownURLs
    /\ \A i \in Indexers : RowURLs(Range(pending[i])) \subseteq KnownURLs
    /\ RowURLs(table) \subseteq KnownURLs
    /\ RowURLs(WholeRows(file)) \subseteq KnownURLs

CountBounds ==
    /\ Cardinality(IndexedURLs(postings)) <= docCount
    /\ docCount <= Len(added)

StorageInv == StorageTypes /\ Flushing /\ TableAhead /\ OnlyAdded /\ CountBounds

\* A sequence names at most as many URLs as it is long.
LEMMA URLsOfSeq ==
    ASSUME NEW T, NEW q \in Seq(T)
    PROVE  IsFiniteSet(RowURLs(Range(q))) /\ Cardinality(RowURLs(Range(q))) <= Len(q)
<1> DEFINE s == [n \in 1..Len(q) |-> q[n].url]
<1>1. Len(q) \in Nat /\ DOMAIN q = 1..Len(q)
  OBVIOUS
<1>2. s \in Seq(Range(s)) /\ Len(s) = Len(q)
  BY <1>1 DEF Range
<1>3. Range(s) = RowURLs(Range(q))
  BY <1>1 DEF Range, RowURLs
<1> HIDE DEF s
<1> QED BY <1>2, <1>3, RangeFinite

\* A subset of a finite set is finite and no larger.
LEMMA SmallerSet ==
    ASSUME NEW S, NEW T, IsFiniteSet(T), S \subseteq T
    PROVE  IsFiniteSet(S) /\ Cardinality(S) \in Nat /\ Cardinality(T) \in Nat
           /\ Cardinality(S) <= Cardinality(T)
BY FS_Subset, FS_CardinalityType

\* The indexed URLs are finitely many.
LEMMA FiniteIndex ==
    StorageTypes /\ OnlyAdded =>
        /\ IsFiniteSet(KnownURLs) /\ Cardinality(KnownURLs) <= Len(added)
        /\ IsFiniteSet(IndexedURLs(postings))
<1> SUFFICES ASSUME StorageTypes, OnlyAdded
             PROVE  /\ IsFiniteSet(KnownURLs) /\ Cardinality(KnownURLs) <= Len(added)
                    /\ IsFiniteSet(IndexedURLs(postings))
  OBVIOUS
<1>1. added \in Seq(Pages)
  BY DEF StorageTypes
<1>2. KnownURLs = RowURLs(Range(added))
  BY DEF KnownURLs, RowURLs
<1>3. IsFiniteSet(KnownURLs) /\ Cardinality(KnownURLs) <= Len(added)
  BY <1>1, <1>2, URLsOfSeq
<1> QED BY <1>3, SmallerSet DEF OnlyAdded

\* The storage starts empty.
LEMMA StorageInit == Init => StorageInv
<1> SUFFICES ASSUME Init PROVE StorageInv
  OBVIOUS
<1> USE DEF Init
<1>1. Range(<<>>) = {}
  BY DEF Range
<1>2. StorageTypes
  <2>1. postings \in [Words -> Seq(PostingType)]
    BY DEF NoPostings
  <2>2. IsFiniteSet(table)
    BY FS_EmptySet
  <2> QED BY <2>1, <2>2 DEF StorageTypes
<1>3. Flushing
  BY DEF Flushing
<1>4. WholeRows(file) = {}
  BY <1>1 DEF WholeRows
<1>5. TableAhead
  BY <1>4 DEF TableAhead
<1>6. IndexedURLs(postings) = {}
  BY <1>1 DEF IndexedURLs, AllPostings, NoPostings
<1>7. OnlyAdded
  BY <1>1, <1>4, <1>6 DEF OnlyAdded, RowURLs
<1>8. CountBounds
  BY <1>6, FS_EmptySet DEF CountBounds
<1> QED BY <1>2, <1>3, <1>5, <1>7, <1>8 DEF StorageInv

\* What StorageInv speaks of does not change in a step of a search.
LEMMA StorageStutter ==
    StorageInv /\ UNCHANGED <<memVars, indexerVars, diskVars, restarts>> => StorageInv'
BY DEF StorageInv, StorageTypes, Flushing, TableAhead, OnlyAdded, CountBounds, KnownURLs, Keyed,
       memVars, indexerVars, diskVars

\* A page that is added leaves its url in the index, and its rows with its indexer.
LEMMA StorageAdd ==
    ASSUME StorageInv, NEW i \in Indexers, NEW p \in Pages, AddDocument(i, p)
    PROVE  StorageInv'
<1> USE DEF StorageInv
<1> DEFINE tokens == tokenize(p.words)
           NewPosting(t) == [url |-> p.url, depth |-> p.depth, tf |-> Count(t, tokens)]
           rows == pending[i] \o collectPostings(p)
<1>1. /\ ipc[i] = "select"
      /\ postings' = [t \in Words |-> IF t \in Range(tokens) THEN Append(postings[t], NewPosting(t))
                                      ELSE postings[t]]
      /\ docCount' = docCount + 1
      /\ added' = Append(added, p)
      /\ pending' = [pending EXCEPT ![i] = rows]
      /\ ipc' = IF Len(rows) >= BatchRows THEN [ipc EXCEPT ![i] = "save"] ELSE ipc
      /\ UNCHANGED <<closing, handle, table, file, stored, tornWrites, restarts>>
  BY Zenon DEF AddDocument, diskVars
<1>2. p.words \in Seq(Words) /\ p.depth \in Depths /\ p.url \in URLs
  BY IndexAssumption DEF URLs, Depths
<1>3. tokens \in Seq(Words)
  BY <1>2, TokensType
<1>4. collectPostings(p) \in Seq(RowType) /\ \A row \in Range(collectPostings(p)) : row.url = p.url
  BY RowsOfPage
<1>5. pending[i] \in Seq(RowType)
  BY DEF StorageTypes
<1>6. rows \in Seq(RowType) /\ Range(rows) = Range(pending[i]) \cup Range(collectPostings(p))
  BY <1>4, <1>5, RangeConcat, Zenon
<1>7. \A t \in Words : NewPosting(t) \in PostingType /\ NewPosting(t).url = p.url
  BY <1>2, <1>3, CountNat DEF PostingType
<1> HIDE DEF rows, tokens, NewPosting
<1>8. ASSUME NEW t \in Words
      PROVE  /\ postings'[t] \in Seq(PostingType)
             /\ Range(postings'[t]) \subseteq Range(postings[t]) \cup {NewPosting(t)}
  <2>1. postings[t] \in Seq(PostingType)
    BY DEF StorageTypes
  <2>2. postings'[t] = postings[t] \/ postings'[t] = Append(postings[t], NewPosting(t))
    BY <1>1
  <2>3. <<NewPosting(t)>> \in Seq(PostingType) /\ Range(<<NewPosting(t)>>) = {NewPosting(t)}
    BY <1>7 DEF Range
  <2>4. Append(postings[t], NewPosting(t)) = postings[t] \o <<NewPosting(t)>>
    BY <1>7, <2>1, AppendIsConcat
  <2>5. /\ postings[t] \o <<NewPosting(t)>> \in Seq(PostingType)
        /\ Range(postings[t] \o <<NewPosting(t)>>) = Range(postings[t]) \cup Range(<<NewPosting(t)>>)
    BY <2>1, <2>3, RangeConcat, Zenon
  <2> QED BY <2>1, <2>2, <2>3, <2>4, <2>5
<1>9. postings' \in [Words -> Seq(PostingType)]
  <2>1. postings' = [t \in Words |-> postings'[t]]
    BY <1>1, Zenon
  <2> QED BY <1>8, <2>1
<1>10. IndexedURLs(postings') \subseteq IndexedURLs(postings) \cup {p.url}
  BY <1>7, <1>8 DEF IndexedURLs, AllPostings
<1>11. added' \in Seq(Pages) /\ Len(added') = Len(added) + 1 /\ Len(added) \in Nat
       /\ Range(added') = Range(added) \cup {p}
  <2>1. added \in Seq(Pages) /\ Len(added) \in Nat /\ <<p>> \in Seq(Pages) /\ Range(<<p>>) = {p}
    BY DEF StorageTypes, Range
  <2>2. added' = added \o <<p>> /\ Len(added') = Len(added) + 1
    BY <1>1, <2>1, AppendIsConcat, AppendProperties
  <2>3. added \o <<p>> \in Seq(Pages) /\ Range(added \o <<p>>) = Range(added) \cup Range(<<p>>)
    BY <2>1, RangeConcat, Zenon
  <2> QED BY <2>1, <2>2, <2>3
<1>12. KnownURLs' = KnownURLs \cup {p.url}
  BY <1>11 DEF KnownURLs
<1>13. \A j \in Indexers : pending'[j] = IF j = i THEN rows ELSE pending[j]
  BY <1>1 DEF StorageTypes
<1>14. \A j \in Indexers : ipc'[j] = ipc[j] \/ (j = i /\ ipc'[j] = "save" /\ Len(rows) >= BatchRows)
  BY <1>1 DEF StorageTypes
<1>15. StorageTypes'
  <2>1. pending' \in [Indexers -> Seq(RowType)]
    BY <1>1, <1>6 DEF StorageTypes
  <2>2. ipc' \in [Indexers -> {"off", "select", "save", "open", "write"}]
    BY <1>1 DEF StorageTypes
  <2>3. docCount' \in Nat
    BY <1>1 DEF StorageTypes
  <2> QED BY <1>1, <1>9, <1>11, <2>1, <2>2, <2>3 DEF StorageTypes
<1>16. Flushing'
  <2>1. Len(rows) >= BatchRows => rows # <<>>
    BY <1>6, IndexAssumption
  <2> QED BY <1>1, <1>13, <1>14, <2>1 DEF Flushing
<1>17. TableAhead'
  BY <1>1, <1>13, <1>14 DEF TableAhead, Keyed
<1>18. OnlyAdded'
  <2>1. RowURLs(Range(rows)) \subseteq KnownURLs'
    BY <1>4, <1>6, <1>12 DEF OnlyAdded, RowURLs
  <2> QED BY <1>1, <1>10, <1>12, <1>13, <2>1 DEF OnlyAdded
<1>19. CountBounds'
  <2>1. IsFiniteSet(IndexedURLs(postings))
    BY FiniteIndex
  <2>2. /\ IsFiniteSet(IndexedURLs(postings) \cup {p.url})
        /\ Cardinality(IndexedURLs(postings) \cup {p.url}) <= Cardinality(IndexedURLs(postings)) + 1
        /\ Cardinality(IndexedURLs(postings)) \in Nat
    BY <2>1, FS_AddElement, FS_CardinalityType
  <2>3. Cardinality(IndexedURLs(postings')) <= Cardinality(IndexedURLs(postings) \cup {p.url})
        /\ Cardinality(IndexedURLs(postings')) \in Nat
        /\ Cardinality(IndexedURLs(postings) \cup {p.url}) \in Nat
    BY <1>10, <2>2, SmallerSet
  <2>4. docCount \in Nat /\ Cardinality(IndexedURLs(postings)) <= docCount /\ docCount <= Len(added)
    BY DEF CountBounds, StorageTypes
  <2>5. Cardinality(IndexedURLs(postings')) <= docCount'
    BY <1>1, <2>2, <2>3, <2>4
  <2>6. docCount' <= Len(added')
    BY <1>1, <1>11, <2>4
  <2> QED BY <2>5, <2>6 DEF CountBounds
<1> QED BY <1>15, <1>16, <1>17, <1>18, <1>19

\* A start, a resume and an end of a crawl; p.data may be removed.
LEMMA StorageStart ==
    ASSUME StorageInv, NEW i \in Indexers, StartCrawl(i) \/ ResumeCrawl(i) \/ CloseEmpty(i)
    PROVE  StorageInv'
<1> USE DEF StorageInv
<1>1. /\ ipc[i] \in {"off", "select"} /\ \E new \in {"off", "select"} : ipc' = [ipc EXCEPT ![i] = new]
      /\ UNCHANGED <<postings, docCount, added, closing, pending, table, tornWrites, restarts>>
      /\ handle' \in {handle, FALSE}
      /\ \/ UNCHANGED <<file, stored>>
         \/ file' = <<>> /\ stored' = <<>>
  <2>1. CASE StartCrawl(i)
    BY <2>1 DEF StartCrawl, memVars
  <2>2. CASE ResumeCrawl(i)
    BY <2>2 DEF ResumeCrawl, memVars, diskVars
  <2>3. CASE CloseEmpty(i)
    BY <2>3 DEF CloseEmpty, memVars, diskVars
  <2> QED BY <2>1, <2>2, <2>3
<1>2. \A j \in Indexers : ipc'[j] = ipc[j] \/ ipc'[j] \in {"off", "select"}
  BY <1>1 DEF StorageTypes
<1>3. StorageTypes'
  <2>1. handle' \in BOOLEAN
    BY <1>1 DEF StorageTypes
  <2>2. file' \in Seq(LineType) /\ stored' \in Seq(RowType)
    <3>1. file \in Seq(LineType) /\ stored \in Seq(RowType) /\ <<>> \in Seq(LineType) /\ <<>> \in Seq(RowType)
      BY DEF StorageTypes
    <3> QED BY <1>1, <3>1
  <2>3. ipc' \in [Indexers -> {"off", "select", "save", "open", "write"}]
    BY <1>1 DEF StorageTypes
  <2> QED BY <1>1, <2>1, <2>2, <2>3 DEF StorageTypes
<1>4. Flushing'
  BY <1>1, <1>2 DEF Flushing
<1>5. WholeRows(file') \subseteq WholeRows(file)
  BY <1>1 DEF WholeRows, Range
<1>6. TableAhead'
  BY <1>1, <1>2, <1>5 DEF TableAhead, Keyed
<1>7. OnlyAdded'
  BY <1>1, <1>5 DEF OnlyAdded, KnownURLs, RowURLs
<1>8. CountBounds'
  BY <1>1 DEF CountBounds
<1> QED BY <1>3, <1>4, <1>6, <1>7, <1>8

\* A flush begins, or takes the lock of p.data.
LEMMA StorageFlush ==
    ASSUME StorageInv, NEW i \in Indexers,
           OpenPData(i) \/ \E last \in BOOLEAN : FlushRest(i, last)
    PROVE  StorageInv'
<1> USE DEF StorageInv
<1>1. /\ UNCHANGED <<postings, docCount, added, pending, table, file, stored, tornWrites, restarts>>
      /\ \/ /\ ipc[i] = "open" /\ (\A j \in Indexers : ipc[j] # "write")
            /\ ipc' = [ipc EXCEPT ![i] = "write"]
            /\ handle' = TRUE /\ closing' = closing
         \/ /\ ipc[i] = "select" /\ pending[i] # <<>>
            /\ ipc' = [ipc EXCEPT ![i] = "save"]
            /\ handle' = handle /\ \E last \in BOOLEAN : closing' = [closing EXCEPT ![i] = last]
  <2>1. CASE OpenPData(i)
    BY <2>1 DEF OpenPData, memVars, diskVars
  <2>2. CASE \E last \in BOOLEAN : FlushRest(i, last)
    BY <2>2 DEF FlushRest, memVars, diskVars
  <2> QED BY <2>1, <2>2
<1>2. \A j \in Indexers : j # i => ipc'[j] = ipc[j]
  BY <1>1 DEF StorageTypes
<1>3. \/ ipc[i] = "open" /\ ipc'[i] = "write" /\ \A j \in Indexers : ipc[j] # "write"
      \/ ipc[i] = "select" /\ ipc'[i] = "save" /\ pending[i] # <<>>
  BY <1>1 DEF StorageTypes
<1>4. StorageTypes'
  BY <1>1 DEF StorageTypes
<1>5. Flushing'
  BY <1>1, <1>2, <1>3 DEF Flushing
<1>6. TableAhead'
  BY <1>1, <1>2, <1>3 DEF TableAhead, Keyed
<1>7. OnlyAdded'
  BY <1>1 DEF OnlyAdded, KnownURLs
<1>8. CountBounds'
  BY <1>1 DEF CountBounds
<1> QED BY <1>4, <1>5, <1>6, <1>7, <1>8

\* The batch goes to the table, before it goes to p.data.
LEMMA StorageSave ==
    ASSUME StorageInv, NEW i \in Indexers, SavePostingsBatch(i)
    PROVE  StorageInv'
<1> USE DEF StorageInv
<1>1. /\ ipc[i] = "save" /\ table' = Saved(pending[i])
      /\ ipc' = [ipc EXCEPT ![i] = "open"]
      /\ UNCHANGED <<postings, docCount, added, closing, pending, handle, file, stored, tornWrites, restarts>>
  BY DEF SavePostingsBatch, memVars
<1>2. pending[i] \in Seq(RowType) /\ table \subseteq RowType /\ IsFiniteSet(table)
  BY DEF StorageTypes
<1>3. /\ table' \subseteq table \cup Range(pending[i]) /\ IsFiniteSet(table')
      /\ \A row \in table \cup Range(pending[i]) :
            \E new \in table' : new.token = row.token /\ new.url = row.url
  BY <1>1, <1>2, SavedBatch
<1>4. Range(pending[i]) \subseteq RowType
  BY <1>2, RangeFinite
<1>5. \A j \in Indexers : ipc'[j] = IF j = i THEN "open" ELSE ipc[j]
  BY <1>1 DEF StorageTypes
<1>6. StorageTypes'
  BY <1>1, <1>2, <1>3, <1>4 DEF StorageTypes
<1>7. Flushing'
  BY <1>1, <1>5 DEF Flushing
<1>8. \A row : Keyed(row) => Keyed(row)'
  BY <1>3 DEF Keyed
<1>9. \A row \in Range(pending[i]) : Keyed(row)'
  BY <1>3 DEF Keyed
<1>10. TableAhead'
  <2>1. \A row \in WholeRows(file) : Keyed(row)'
    BY <1>8 DEF TableAhead
  <2>2. \A j \in Indexers : ipc'[j] \in {"open", "write"} => \A row \in Range(pending[j]) : Keyed(row)'
    BY <1>5, <1>8, <1>9 DEF TableAhead
  <2> QED BY <1>1, <2>1, <2>2 DEF TableAhead
<1>11. OnlyAdded'
  <2>1. RowURLs(table') \subseteq KnownURLs
    BY <1>3 DEF OnlyAdded, RowURLs
  <2> QED BY <1>1, <2>1 DEF OnlyAdded, KnownURLs
<1>12. CountBounds'
  BY <1>1 DEF CountBounds
<1> QED BY <1>6, <1>7, <1>10, <1>11, <1>12

\* The batch goes to p.data, if the file is still there.
LEMMA StorageAppend ==
    ASSUME StorageInv, NEW i \in Indexers, AppendPostingsToFile(i)
    PROVE  StorageInv'
<1> USE DEF StorageInv
<1>1. /\ ipc[i] = "write"
      /\ \/ file' = AppendLines(file, Lines(pending[i])) /\ stored' = stored \o pending[i]
         \/ UNCHANGED <<file, stored>>
      /\ pending' = [pending EXCEPT ![i] = <<>>]
      /\ \E new \in {"off", "select"} : ipc' = [ipc EXCEPT ![i] = new]
      /\ closing' = [closing EXCEPT ![i] = FALSE]
      /\ UNCHANGED <<postings, docCount, added, handle, table, tornWrites, restarts>>
  BY DEF AppendPostingsToFile, memVars
<1>2. pending[i] \in Seq(RowType) /\ stored \in Seq(RowType) /\ file \in Seq(LineType)
  BY DEF StorageTypes
<1>3. Lines(pending[i]) \in Seq(LineType) /\ WholeRows(Lines(pending[i])) \subseteq Range(pending[i])
  BY <1>2, LinesOfRows
<1>4. file' \in Seq(LineType) /\ WholeRows(file') \subseteq WholeRows(file) \cup Range(pending[i])
  <2> DEFINE ls == Lines(pending[i])
  <2>1. ls \in Seq(LineType) /\ WholeRows(ls) \subseteq Range(pending[i])
    BY <1>3
  <2>2. UNCHANGED file \/ file' = AppendLines(file, ls)
    BY <1>1
  <2> HIDE DEF ls
  <2>3. /\ AppendLines(file, ls) \in Seq(LineType)
        /\ WholeRows(AppendLines(file, ls)) \subseteq WholeRows(file) \cup WholeRows(ls)
    BY <1>2, <2>1, Appended, Zenon
  <2>4. CASE UNCHANGED file
    BY <1>2, <2>4
  <2>5. CASE file' = AppendLines(file, ls)
    BY <2>1, <2>3, <2>5
  <2> QED BY <2>2, <2>4, <2>5
<1>5. stored' \in Seq(RowType)
  <2>1. stored \o pending[i] \in Seq(RowType)
    BY <1>2, RangeConcat, Zenon
  <2> QED BY <1>1, <1>2, <2>1
<1>6. \A j \in Indexers : ipc'[j] = ipc[j] \/ ipc'[j] \in {"off", "select"}
  BY <1>1 DEF StorageTypes
<1>7. \A j \in Indexers : IF j = i THEN pending'[j] = <<>> /\ ipc'[j] \in {"off", "select"}
                          ELSE pending'[j] = pending[j]
  BY <1>1 DEF StorageTypes
<1>8. Range(<<>>) = {}
  BY DEF Range
<1>9. StorageTypes'
  <2>1. pending' \in [Indexers -> Seq(RowType)]
    BY <1>1 DEF StorageTypes
  <2> QED BY <1>1, <1>4, <1>5, <2>1 DEF StorageTypes
<1>10. Flushing'
  BY <1>1, <1>6, <1>7 DEF Flushing
<1>11. TableAhead'
  BY <1>1, <1>4, <1>6, <1>7, <1>8 DEF TableAhead, Keyed
<1>12. OnlyAdded'
  <2>1. RowURLs(WholeRows(file')) \subseteq KnownURLs
    BY <1>4 DEF OnlyAdded, RowURLs
  <2>2. \A j \in Indexers : RowURLs(Range(pending'[j])) \subseteq KnownURLs
    BY <1>7, <1>8 DEF OnlyAdded, RowURLs
  <2> QED BY <1>1, <2>1, <2>2 DEF OnlyAdded, KnownURLs
<1>13. CountBounds'
  BY <1>1 DEF CountBounds
<1> QED BY <1>9, <1>10, <1>11, <1>12, <1>13

\* The process ends and the index is rebuilt from p.data or from the table.
LEMMA StorageRestart ==
    ASSUME StorageInv, Restart
    PROVE  StorageInv'
<1> USE DEF StorageInv
<1>1. /\ restarts' = restarts + 1 /\ tornWrites' \in {tornWrites, tornWrites + 1}
      /\ \/ file' = file
         \/ \E i \in Indexers : ipc[i] = "write" /\ file' \in TornFiles(i)
      /\ UNCHANGED <<added, handle, table, stored>>
      /\ postings' = WithRows(RestoredRows')
      /\ docCount' = RestoredDocCount'
      /\ ipc' = [i \in Indexers |-> "off"] /\ closing' = [i \in Indexers |-> FALSE]
      /\ pending' = [i \in Indexers |-> <<>>]
  BY DEF Restart
<1>2. /\ file' \in Seq(LineType)
      /\ \A row \in WholeRows(file') : 
            \/ row \in WholeRows(file)
            \/ \E i \in Indexers : ipc[i] = "write" /\ row \in Range(pending[i])
  <2>1. CASE file' = file
    BY <2>1 DEF StorageTypes
  <2>2. CASE \E i \in Indexers : ipc[i] = "write" /\ file' \in TornFiles(i)
    <3>1. PICK i \in Indexers : ipc[i] = "write" /\ file' \in TornFiles(i)
      BY <2>2
    <3>2. pending[i] \in Seq(RowType) /\ file \in Seq(LineType)
      BY DEF StorageTypes
    <3>3. file' \in Seq(LineType) /\ WholeRows(file') \subseteq WholeRows(file) \cup Range(pending[i])
      BY <3>1, <3>2, TornWrite
    <3> QED BY <3>1, <3>3
  <2> QED BY <1>1, <2>1, <2>2
<1>3. table' \subseteq RowType /\ IsFiniteSet(table')
  BY <1>1 DEF StorageTypes
<1>4. (file \in Seq(LineType) /\ table \subseteq RowType /\ IsFiniteSet(table) =>
          /\ RestoredRows \in Seq(RowType)
          /\ Range(RestoredRows) \subseteq WholeRows(file) \cup table)'
  BY Restored, PTL
<1> DEFINE rows == RestoredRows'
<1>5. rows \in Seq(RowType) /\ Range(rows) \subseteq WholeRows(file') \cup table'
  BY <1>2, <1>3, <1>4
<1>6. postings' = WithRows(rows) /\ docCount' = Cardinality(RowURLs(Range(rows)))
  BY <1>1 DEF RestoredDocCount, RowURLs
<1> HIDE DEF rows
<1>7. /\ postings' \in [Words -> Seq(PostingType)]
      /\ IndexedURLs(postings') \subseteq RowURLs(Range(rows))
  BY <1>5, <1>6, Rebuilt
<1>8. IsFiniteSet(RowURLs(Range(rows)))
  BY <1>5, URLsOfSeq
<1>9. docCount' \in Nat /\ Cardinality(IndexedURLs(postings')) <= docCount'
  BY <1>6, <1>7, <1>8, SmallerSet
<1>10. StorageTypes'
  <2>1. /\ ipc' \in [Indexers -> {"off", "select", "save", "open", "write"}]
        /\ closing' \in [Indexers -> BOOLEAN] /\ pending' \in [Indexers -> Seq(RowType)]
    BY <1>1
  <2> QED BY <1>1, <1>2, <1>3, <1>7, <1>9, <2>1 DEF StorageTypes
<1>11. Flushing'
  BY <1>1 DEF Flushing
<1>12. TableAhead'
  <2>1. \A row \in WholeRows(file') : Keyed(row)
    BY <1>2 DEF TableAhead
  <2> QED BY <1>1, <2>1 DEF TableAhead, Keyed
<1>13. OnlyAdded'
  <2>1. \A row \in WholeRows(file') : row.url \in KnownURLs
    BY <1>2 DEF OnlyAdded, RowURLs
  <2>2. \A row \in Range(rows) : row.url \in KnownURLs
    BY <1>1, <1>5, <2>1 DEF OnlyAdded, RowURLs
  <2>3. IndexedURLs(postings') \subseteq KnownURLs
    BY <1>7, <2>2 DEF RowURLs
  <2>4. Range(<<>>) = {} /\ KnownURLs' = KnownURLs
    BY <1>1 DEF Range, KnownURLs
  <2>5. \A i \in Indexers : RowURLs(Range(pending'[i])) = {}
    BY <1>1, <2>4 DEF RowURLs
  <2>6. RowURLs(table') \subseteq KnownURLs /\ RowURLs(WholeRows(file')) \subseteq KnownURLs
    BY <1>1, <2>1 DEF OnlyAdded, RowURLs
  <2> QED BY <2>3, <2>4, <2>5, <2>6 DEF OnlyAdded
<1>14. CountBounds'
  <2>1. RowURLs(Range(rows)) \subseteq KnownURLs
    <3>1. \A row \in WholeRows(file') : row.url \in KnownURLs
      BY <1>2 DEF OnlyAdded, RowURLs
    <3> QED BY <1>1, <1>5, <3>1 DEF OnlyAdded, RowURLs
  <2>2. IsFiniteSet(KnownURLs) /\ Cardinality(KnownURLs) <= Len(added) /\ Len(added) \in Nat
    BY FiniteIndex DEF StorageTypes
  <2>3. Cardinality(RowURLs(Range(rows))) <= Cardinality(KnownURLs)
        /\ Cardinality(RowURLs(Range(rows))) \in Nat /\ Cardinality(KnownURLs) \in Nat
    BY <2>1, <2>2, SmallerSet
  <2>4. docCount' <= Len(added')
    BY <1>1, <1>6, <2>2, <2>3
  <2> QED BY <1>9, <2>4 DEF CountBounds
<1> QED BY <1>10, <1>11, <1>12, <1>13, <1>14

\* Every step preserves the invariant.
LEMMA StorageStep == StorageInv /\ [Next]_vars => StorageInv'
<1> SUFFICES ASSUME StorageInv, [Next]_vars PROVE StorageInv'
  OBVIOUS
<1>1. ASSUME NEW i \in Indexers, StartCrawl(i) \/ ResumeCrawl(i) \/ CloseEmpty(i) PROVE StorageInv'
  BY <1>1, StorageStart
<1>2. ASSUME NEW i \in Indexers, NEW p \in Pages, AddDocument(i, p) PROVE StorageInv'
  BY <1>2, StorageAdd
<1>3. ASSUME NEW i \in Indexers, OpenPData(i) \/ \E last \in BOOLEAN : FlushRest(i, last) PROVE StorageInv'
  BY <1>3, StorageFlush
<1>4. ASSUME NEW i \in Indexers, SavePostingsBatch(i) PROVE StorageInv'
  BY <1>4, StorageSave
<1>5. ASSUME NEW i \in Indexers, AppendPostingsToFile(i) PROVE StorageInv'
  BY <1>5, StorageAppend
<1>6. CASE Restart
  BY <1>6, StorageRestart
<1>7. CASE UNCHANGED vars
  BY <1>7, StorageStutter DEF vars
<1>8. ASSUME NEW q \in Queries, SearchBegin(q) PROVE StorageInv'
  BY <1>8, StorageStutter DEF SearchBegin
<1>9. CASE Lookup
  BY <1>9, StorageStutter DEF Lookup
<1>10. ASSUME NEW sortBy, SearchReturn(sortBy) PROVE StorageInv'
  BY <1>10, StorageStutter DEF SearchReturn
<1> QED BY <1>1, <1>2, <1>3, <1>4, <1>5, <1>6, <1>7, <1>8, <1>9, <1>10 DEF Next

\* The invariant of the index and its storage holds in every reachable state.
LEMMA StorageHolds == Spec => []StorageInv
BY StorageInit, StorageStep, PTL DEF Spec

-----------------------------------------------------------------------------
(* Folding a sequence from the left *)

\* The greatest of a set of numbers up to m that has m.
LEMMA MaxIs ==
    ASSUME NEW m \in Nat, NEW S, S \subseteq 1..m, m \in S
    PROVE  Max(S) = m
<1>1. \A y \in S : m >= y
  OBVIOUS
<1>2. \A x \in S : (\A y \in S : x >= y) => x = m
  OBVIOUS
<1>3. Max(S) \in S /\ \A y \in S : Max(S) >= y
  BY <1>1 DEF Max
<1> QED BY <1>2, <1>3

\* The greatest of a set of numbers up to n is one of them.
LEMMA MaxIn ==
    ASSUME NEW n \in Nat, NEW S, S \subseteq 1..n, S # {}
    PROVE  Max(S) \in S
<1> DEFINE T == {k \in 0..n : n - k \in S}
<1>1. PICK y \in S : TRUE
  OBVIOUS
<1>2. n - y \in T /\ T \subseteq Nat /\ \A k \in S : n - k \in T
  <2>1. \A k \in S : n - k \in 0..n /\ n - (n - k) = k
    OBVIOUS
  <2> QED BY <2>1
<1>3. \A k \in T : k \in 0..n /\ n - k \in S
  OBVIOUS
<1> HIDE DEF T
<1>4. PICK k \in T : \A j \in T : k <= j
  BY <1>2, LeastNumber
<1>5. n - k \in S /\ \A z \in S : n - k >= z
  BY <1>2, <1>3, <1>4
<1> QED BY <1>5 DEF Max

\* The first k places.
LEMMA Prefix ==
    ASSUME NEW n \in Nat, NEW k \in 1..n
    PROVE  /\ 1..k \in SUBSET (1..n) /\ 1..k # {} /\ Max(1..k) = k
           /\ (1..k) \ {Max(1..k)} = 1..(k - 1)
<1>1. k \in Nat /\ k \in 1..k /\ 1..k \in SUBSET (1..n)
  OBVIOUS
<1>2. Max(1..k) = k
  BY <1>1, MaxIs
<1>3. (1..k) \ {k} = 1..(k - 1)
  OBVIOUS
<1> QED BY <1>1, <1>2, <1>3

\* g folds s with the operation F: g[S] is the fold of what is at the places S.
IsFold(g, A, F, base, s, m) ==
    /\ g \in [SUBSET (1..m) -> A]
    /\ \A S \in SUBSET (1..m) :
          g[S] = IF S = {} THEN base ELSE F[<<g[S \ {Max(S)}], s[Max(S)]>>]

\* There is such a function.
LEMMA FoldExists ==
    ASSUME NEW A, NEW B, NEW F \in [A \X B -> A], NEW base \in A, NEW s \in Seq(B),
           NEW n \in 0..Len(s)
    PROVE  \E g : IsFold(g, A, F, base, s, n)
<1> DEFINE Bad == {k \in 0..Len(s) : ~ \E g : IsFold(g, A, F, base, s, k)}
<1> SUFFICES ASSUME Bad # {} PROVE FALSE
  OBVIOUS
<1>1. Bad \subseteq Nat /\ (\A k \in 0..Len(s) : k \notin Bad => \E g : IsFold(g, A, F, base, s, k))
      /\ (\A k \in Bad : k \in 0..Len(s) /\ ~ \E g : IsFold(g, A, F, base, s, k))
  OBVIOUS
<1> HIDE DEF Bad
<1>2. PICK m \in Bad : \A k \in Bad : m <= k
  BY <1>1, LeastNumber
<1>3. m \in 0..Len(s) /\ Len(s) \in Nat /\ ~ \E g : IsFold(g, A, F, base, s, m)
  BY <1>1
<1>4. CASE m = 0
  <2> DEFINE g == [S \in SUBSET (1..0) |-> base]
  <2>1. \A S \in SUBSET (1..0) : S = {} /\ g[S] = base
    OBVIOUS
  <2>2. g \in [SUBSET (1..0) -> A]
    OBVIOUS
  <2> HIDE DEF g
  <2> QED BY <1>3, <1>4, <2>1, <2>2 DEF IsFold
<1>5. CASE m # 0
  <2>1. m \in Nat /\ m \in 1..Len(s) /\ m - 1 \in 0..Len(s) /\ ~(m <= m - 1)
    BY <1>3, <1>5
  <2>2. PICK h : IsFold(h, A, F, base, s, m - 1)
    BY <1>1, <1>2, <2>1
  <2>3. /\ h \in [SUBSET (1..(m - 1)) -> A]
        /\ \A S \in SUBSET (1..(m - 1)) :
              h[S] = IF S = {} THEN base ELSE F[<<h[S \ {Max(S)}], s[Max(S)]>>]
    BY <2>2 DEF IsFold
  <2> DEFINE g == [S \in SUBSET (1..m) |-> IF m \in S THEN F[<<h[S \ {m}], s[m]>>] ELSE h[S]]
  <2>4. \A S \in SUBSET (1..m) : S \ {m} \in SUBSET (1..(m - 1)) /\ (m \notin S => S \in SUBSET (1..(m - 1)))
    BY <2>1
  <2>5. s[m] \in B
    BY <2>1
  <2>6. \A S \in SUBSET (1..m) : h[S \ {m}] \in A /\ (m \notin S => h[S] \in A)
    BY <2>3, <2>4
  <2>7. \A S \in SUBSET (1..m) : F[<<h[S \ {m}], s[m]>>] \in A
    BY <2>5, <2>6
  <2>8. g \in [SUBSET (1..m) -> A]
    BY <2>6, <2>7
  <2>9. ASSUME NEW S \in SUBSET (1..m)
        PROVE  g[S] = IF S = {} THEN base ELSE F[<<g[S \ {Max(S)}], s[Max(S)]>>]
    <3>1. CASE m \in S
      <4>1. Max(S) = m /\ S # {}
        BY <2>1, <3>1, MaxIs
      <4>2. S \ {m} \in SUBSET (1..m) /\ m \notin S \ {m}
        OBVIOUS
      <4>3. g[S \ {m}] = h[S \ {m}] /\ g[S] = F[<<h[S \ {m}], s[m]>>]
        BY <3>1, <4>2
      <4> HIDE DEF g
      <4> QED BY <4>1, <4>3
    <3>2. CASE m \notin S
      <4>1. S \in SUBSET (1..(m - 1))
        BY <2>4, <3>2
      <4>2. S \ {Max(S)} \in SUBSET (1..m) /\ m \notin S \ {Max(S)}
        BY <3>2
      <4>3. g[S] = h[S] /\ g[S \ {Max(S)}] = h[S \ {Max(S)}]
        BY <3>2, <4>2
      <4> HIDE DEF g
      <4> QED BY <2>3, <4>1, <4>3
    <3> QED BY <3>1, <3>2
  <2> HIDE DEF g
  <2> QED BY <1>3, <2>8, <2>9 DEF IsFold
<1> QED BY <1>4, <1>5

-----------------------------------------------------------------------------
(* Scores *)

\* At most two hundred links from a seed no posting lowers a score.
Shallow == \A p \in Pages : p.depth <= 200

\* What a search accumulates.
ScoreType == [depth : Nat, score : IF Shallow THEN Nat ELSE Int, frequency : Nat]
Tables == UNION {[D -> ScoreType] : D \in {E \in SUBSET URLs : IsFiniteSet(E)}}

\* A table is one if its pages and its scores are.
LEMMA TableIs ==
    ASSUME NEW sc
    PROVE  sc \in Tables <=> /\ DOMAIN sc \subseteq URLs /\ IsFiniteSet(DOMAIN sc)
                             /\ sc = [u \in DOMAIN sc |-> sc[u]]
                             /\ \A u \in DOMAIN sc : sc[u] \in ScoreType
<1>1. ASSUME sc \in Tables
      PROVE  /\ DOMAIN sc \subseteq URLs /\ IsFiniteSet(DOMAIN sc)
             /\ sc = [u \in DOMAIN sc |-> sc[u]]
             /\ \A u \in DOMAIN sc : sc[u] \in ScoreType
  <2>1. PICK D \in SUBSET URLs : IsFiniteSet(D) /\ sc \in [D -> ScoreType]
    BY <1>1 DEF Tables
  <2> QED BY <2>1
<1>2. ASSUME DOMAIN sc \subseteq URLs, IsFiniteSet(DOMAIN sc), sc = [u \in DOMAIN sc |-> sc[u]],
             \A u \in DOMAIN sc : sc[u] \in ScoreType
      PROVE  sc \in Tables
  <2>1. sc \in [DOMAIN sc -> ScoreType]
    BY <1>2
  <2> QED BY <1>2, <2>1 DEF Tables
<1> QED BY <1>1, <1>2

\* What page u has in a table, nothing if it is not there.
Found(sc, u) == IF u \in DOMAIN sc THEN [score |-> sc[u].score, frequency |-> sc[u].frequency]
                ELSE [score |-> 0, frequency |-> 0]

\* What a posting is worth.
Gain(p) == p.tf * 10 + 1000 - p.depth * 5

\* The table new has more for the page of p than sc has, and the rest as it was.
Adds(sc, p, new) ==
    /\ DOMAIN new = DOMAIN sc \cup {p.url}
    /\ \A u \in DOMAIN sc : u # p.url => new[u] = sc[u]
    /\ new[p.url].score = Found(sc, p.url).score + Gain(p)
    /\ new[p.url].frequency = Found(sc, p.url).frequency + p.tf
    /\ p.url \in URLs /\ p.tf \in Nat /\ Gain(p) \in Int /\ (Shallow => Gain(p) >= 0)

\* A posting adds to its page and leaves the others alone.
LEMMA PostingAdded ==
    ASSUME NEW sc \in Tables, NEW p \in PostingType
    PROVE  AddToScores(sc, p) \in Tables /\ Adds(sc, p, AddToScores(sc, p))
<1> DEFINE old == IF p.url \in DOMAIN sc THEN sc[p.url]
                  ELSE [depth |-> p.depth, score |-> 0, frequency |-> 0]
           new == [old EXCEPT !.score = @ + p.tf * 10 + 1000 - p.depth * 5, !.frequency = @ + p.tf]
           c == AddToScores(sc, p)
<1>1. c = [u \in DOMAIN sc \cup {p.url} |-> IF u # p.url THEN sc[u] ELSE new]
  BY DEF AddToScores
<1>2. p.url \in URLs /\ p.tf \in Nat /\ p.depth \in Nat /\ (Shallow => p.depth <= 200)
  BY IndexAssumption DEF PostingType, Depths, Shallow
<1>3. DOMAIN sc \subseteq URLs /\ \A u \in DOMAIN sc : sc[u] \in ScoreType
  BY TableIs
<1>4. old \in ScoreType
  BY <1>2, <1>3 DEF ScoreType
<1>5. Shallow => p.tf * 10 + 1000 - p.depth * 5 >= 0
  BY <1>2
<1>6. /\ new \in ScoreType
      /\ new.score = old.score + p.tf * 10 + 1000 - p.depth * 5 /\ new.frequency = old.frequency + p.tf
  <2> DEFINE score == old.score + p.tf * 10 + 1000 - p.depth * 5
             frequency == old.frequency + p.tf
  <2> HIDE DEF old
  <2>1. /\ old = [depth |-> old.depth, score |-> old.score, frequency |-> old.frequency]
        /\ old.depth \in Nat /\ old.score \in Int /\ old.frequency \in Nat
        /\ Shallow => old.score \in Nat
    BY <1>4 DEF ScoreType
  <2>2. score \in Int /\ frequency \in Nat
    BY <1>2, <2>1
  <2>3. Shallow => score \in Nat
    <3> DEFINE gain == p.tf * 10 + 1000 - p.depth * 5
    <3>1. gain \in Int /\ (Shallow => gain >= 0) /\ score = old.score + gain
      BY <1>2, <1>5, <2>1
    <3> HIDE DEF gain, score
    <3> QED BY <2>1, <3>1
  <2>4. new \in [depth : Nat, score : Int, frequency : Nat]
        /\ new.score = score /\ new.frequency = frequency
    <3>1. old \in [depth : Nat, score : Int, frequency : Nat]
      BY <2>1
    <3>2. new = [old EXCEPT !.score = score, !.frequency = frequency]
      OBVIOUS
    <3> HIDE DEF new, score, frequency
    <3> QED BY <2>2, <3>1, <3>2
  <2> HIDE DEF score, frequency, new
  <2>5. new \in ScoreType
    <3>1. CASE Shallow
      BY <2>3, <2>4, <3>1 DEF ScoreType
    <3>2. CASE ~Shallow
      BY <2>4, <3>2 DEF ScoreType
    <3> QED BY <3>1, <3>2
  <2> QED BY <2>4, <2>5 DEF score, frequency
<1>7. old.score = Found(sc, p.url).score /\ old.frequency = Found(sc, p.url).frequency
  BY DEF Found
<1> HIDE DEF old, new, c
<1>8. DOMAIN c = DOMAIN sc \cup {p.url} /\ c[p.url] = new
      /\ \A u \in DOMAIN sc : u # p.url => c[u] = sc[u]
  BY <1>1
<1>9. c \in Tables
  <2>1. \A u \in DOMAIN c : c[u] \in ScoreType
    BY <1>3, <1>6, <1>8
  <2>2. c = [u \in DOMAIN c |-> c[u]]
    BY <1>1, <1>8
  <2>3. IsFiniteSet(DOMAIN sc)
    BY TableIs
  <2>4. IsFiniteSet(DOMAIN c)
    BY <1>8, <2>3, FS_AddElement
  <2> QED BY <1>2, <1>3, <1>8, <2>1, <2>2, <2>4, TableIs
<1>10. new.score = old.score + Gain(p)
  BY <1>2, <1>4, <1>6 DEF Gain, ScoreType
<1>11. Gain(p) \in Int /\ (Shallow => Gain(p) >= 0)
  BY <1>2, <1>5 DEF Gain
<1>12. Adds(sc, p, c)
  BY <1>2, <1>6, <1>7, <1>8, <1>10, <1>11 DEF Adds
<1> QED BY <1>9, <1>12 DEF c

\* Adding a posting to a table gives a table.
LEMMA StillTable ==
    ASSUME NEW sc \in Tables, NEW p \in PostingType
    PROVE  AddToScores(sc, p) \in Tables
BY PostingAdded

\* h is what the tables were after each of the postings s.
PostingTrace(h, sc, s) ==
    /\ h \in [0..Len(s) -> Tables] /\ h[0] = sc
    /\ \A k \in 1..Len(s) : h[k] = AddToScores(h[k - 1], s[k])

\* Folding AddToScores over postings adds them one after the other.
LEMMA PostingsFolded ==
    ASSUME NEW sc \in Tables, NEW s \in Seq(PostingType)
    PROVE  \E h : PostingTrace(h, sc, s) /\ FoldLeft(AddToScores, sc, s) = h[Len(s)]
<1> DEFINE D == DOMAIN s
           P(g) == g = [S \in SUBSET D |-> IF S = {} THEN sc ELSE AddToScores(g[S \ {Max(S)}], s[Max(S)])]
           g0 == CHOOSE g : P(g)
           F == [x \in Tables \X PostingType |-> AddToScores(x[1], x[2])]
           h == [k \in 0..Len(s) |-> g0[1..k]]
<1>1. FoldLeft(AddToScores, sc, s) = g0[D]
  BY DEF FoldLeft, MapThenFoldSet
<1>2. Len(s) \in Nat /\ D = 1..Len(s) /\ Len(s) \in 0..Len(s) /\ \A k \in 1..Len(s) : s[k] \in PostingType
  OBVIOUS
<1>3. F \in [Tables \X PostingType -> Tables]
  BY StillTable
<1>4. \A a \in Tables, p \in PostingType : F[<<a, p>>] = AddToScores(a, p)
  OBVIOUS
<1> HIDE DEF F
<1>5. PICK g : IsFold(g, Tables, F, sc, s, Len(s))
  BY <1>2, <1>3, FoldExists
<1>6. P(g)
  <2>1. ASSUME NEW S \in SUBSET D, S # {}
        PROVE  F[<<g[S \ {Max(S)}], s[Max(S)]>>] = AddToScores(g[S \ {Max(S)}], s[Max(S)])
    <3>1. Max(S) \in S
      BY <1>2, <2>1, MaxIn
    <3>2. s[Max(S)] \in PostingType
      BY <1>2, <3>1
    <3>3. g[S \ {Max(S)}] \in Tables
      BY <1>2, <1>5 DEF IsFold
    <3> QED BY <1>4, <3>2, <3>3
  <2>2. g = [S \in SUBSET D |-> g[S]]
        /\ \A S \in SUBSET D : g[S] = IF S = {} THEN sc ELSE F[<<g[S \ {Max(S)}], s[Max(S)]>>]
    BY <1>2, <1>5 DEF IsFold
  <2>3. \A S \in SUBSET D : g[S] = IF S = {} THEN sc ELSE AddToScores(g[S \ {Max(S)}], s[Max(S)])
    BY <2>1, <2>2
  <2>4. [S \in SUBSET D |-> g[S]]
          = [S \in SUBSET D |-> IF S = {} THEN sc ELSE AddToScores(g[S \ {Max(S)}], s[Max(S)])]
    BY <2>3
  <2> QED BY <2>2, <2>4
<1>7. P(g0)
  BY <1>6
<1> HIDE DEF g0
<1>8. \A S \in SUBSET D : g0[S] = IF S = {} THEN sc ELSE AddToScores(g0[S \ {Max(S)}], s[Max(S)])
  BY <1>7
<1>9. h[0] = sc
  <2>1. 1..0 = {} /\ {} \in SUBSET D /\ 0 \in 0..Len(s)
    BY <1>2
  <2> QED BY <1>8, <2>1
<1>10. ASSUME NEW k \in 1..Len(s) PROVE h[k] = AddToScores(h[k - 1], s[k])
  <2>1. /\ 1..k \in SUBSET (1..Len(s)) /\ 1..k # {} /\ Max(1..k) = k
        /\ (1..k) \ {Max(1..k)} = 1..(k - 1)
    BY <1>2, Prefix
  <2>2. k - 1 \in 0..Len(s) /\ k \in 0..Len(s)
    BY <1>2
  <2>3. h[k] = g0[1..k] /\ h[k - 1] = g0[1..(k - 1)]
    BY <2>2
  <2> HIDE DEF h, D
  <2> QED BY <1>2, <1>8, <2>1, <2>3
<1>11. \A k \in 0..Len(s) : h[k] \in Tables
  <2> DEFINE Bad == {k \in 0..Len(s) : h[k] \notin Tables}
  <2> SUFFICES ASSUME Bad # {} PROVE FALSE
    OBVIOUS
  <2>1. Bad \subseteq Nat /\ (\A k \in 0..Len(s) : k \notin Bad => h[k] \in Tables)
        /\ (\A k \in Bad : k \in 0..Len(s) /\ h[k] \notin Tables)
    OBVIOUS
  <2> HIDE DEF Bad
  <2>2. PICK k \in Bad : \A j \in Bad : k <= j
    BY <2>1, LeastNumber
  <2>3. k \in 0..Len(s) /\ h[k] \notin Tables
    BY <2>1
  <2> HIDE DEF h
  <2>4. k # 0
    BY <1>9, <2>3
  <2>5. k \in 1..Len(s) /\ k - 1 \in 0..Len(s) /\ ~(k <= k - 1)
    BY <1>2, <2>3, <2>4
  <2>6. h[k - 1] \in Tables /\ s[k] \in PostingType
    BY <1>2, <2>1, <2>2, <2>5
  <2>7. AddToScores(h[k - 1], s[k]) \in Tables
    BY <2>6, StillTable
  <2> QED BY <1>10, <2>3, <2>5, <2>7
<1>12. h = [k \in 0..Len(s) |-> h[k]]
  OBVIOUS
<1>13. h[Len(s)] = g0[D]
  BY <1>2
<1> HIDE DEF h
<1>14. h \in [0..Len(s) -> Tables]
  BY <1>11, <1>12
<1>15. PostingTrace(h, sc, s)
  BY <1>9, <1>10, <1>14 DEF PostingTrace
<1> QED BY <1>1, <1>13, <1>15

\* The table after all postings of token t in an index.
AddFrom(index, sc, t) == FoldLeft(AddToScores, sc, index[t])

Indexes == [Words -> Seq(PostingType)]

\* Looking a token up gives a table.
LEMMA LookupTable ==
    ASSUME NEW index \in Indexes, NEW sc \in Tables, NEW t \in Words
    PROVE  AddFrom(index, sc, t) \in Tables
<1>1. index[t] \in Seq(PostingType)
  BY DEF Indexes
<1>2. PICK h : PostingTrace(h, sc, index[t]) /\ FoldLeft(AddToScores, sc, index[t]) = h[Len(index[t])]
  BY <1>1, PostingsFolded
<1>3. Len(index[t]) \in 0..Len(index[t])
  BY <1>1
<1>4. h[Len(index[t])] \in Tables
  BY <1>2, <1>3 DEF PostingTrace
<1> QED BY <1>2, <1>4 DEF AddFrom

\* Nothing found is a table.
LEMMA NoScoresTable == NoScores \in Tables
<1>1. DOMAIN NoScores = {} /\ NoScores = [u \in DOMAIN NoScores |-> NoScores[u]]
  BY DEF NoScores
<1> QED BY <1>1, FS_EmptySet, TableIs

\* h is what the tables were after each of the tokens q.
TokenTrace(h, index, q) ==
    /\ h \in [0..Len(q) -> Tables] /\ h[0] = NoScores
    /\ \A k \in 1..Len(q) : h[k] = AddFrom(index, h[k - 1], q[k])

\* A search in one step looks its tokens up one after the other.
LEMMA TokensFolded ==
    ASSUME NEW index \in Indexes, NEW q \in Seq(Words)
    PROVE  \E h : TokenTrace(h, index, q) /\ Atomic(index, q) = h[Len(q)]
<1> DEFINE D == DOMAIN q
           P(g) == g = [S \in SUBSET D |-> IF S = {} THEN NoScores
                                           ELSE AddFrom(index, g[S \ {Max(S)}], q[Max(S)])]
           g0 == CHOOSE g : P(g)
           F == [x \in Tables \X Words |-> AddFrom(index, x[1], x[2])]
           h == [k \in 0..Len(q) |-> g0[1..k]]
<1>1. Atomic(index, q) = g0[D]
  BY DEF Atomic, FoldLeft, MapThenFoldSet, AddFrom
<1>2. Len(q) \in Nat /\ D = 1..Len(q) /\ Len(q) \in 0..Len(q) /\ \A k \in 1..Len(q) : q[k] \in Words
  OBVIOUS
<1>3. F \in [Tables \X Words -> Tables]
  BY LookupTable
<1>4. \A a \in Tables, t \in Words : F[<<a, t>>] = AddFrom(index, a, t)
  OBVIOUS
<1> HIDE DEF F
<1>5. PICK g : IsFold(g, Tables, F, NoScores, q, Len(q))
  BY <1>2, <1>3, NoScoresTable, FoldExists
<1>6. P(g)
  <2>1. ASSUME NEW S \in SUBSET D, S # {}
        PROVE  F[<<g[S \ {Max(S)}], q[Max(S)]>>] = AddFrom(index, g[S \ {Max(S)}], q[Max(S)])
    <3>1. Max(S) \in S
      BY <1>2, <2>1, MaxIn
    <3>2. q[Max(S)] \in Words
      BY <1>2, <3>1
    <3>3. g[S \ {Max(S)}] \in Tables
      BY <1>2, <1>5 DEF IsFold
    <3> QED BY <1>4, <3>2, <3>3
  <2>2. g = [S \in SUBSET D |-> g[S]]
        /\ \A S \in SUBSET D : g[S] = IF S = {} THEN NoScores ELSE F[<<g[S \ {Max(S)}], q[Max(S)]>>]
    BY <1>2, <1>5 DEF IsFold
  <2>3. \A S \in SUBSET D : g[S] = IF S = {} THEN NoScores ELSE AddFrom(index, g[S \ {Max(S)}], q[Max(S)])
    BY <2>1, <2>2
  <2>4. [S \in SUBSET D |-> g[S]]
          = [S \in SUBSET D |-> IF S = {} THEN NoScores ELSE AddFrom(index, g[S \ {Max(S)}], q[Max(S)])]
    BY <2>3
  <2> QED BY <2>2, <2>4
<1>7. P(g0)
  BY <1>6
<1> HIDE DEF g0
<1>8. \A S \in SUBSET D : g0[S] = IF S = {} THEN NoScores ELSE AddFrom(index, g0[S \ {Max(S)}], q[Max(S)])
  BY <1>7
<1>9. h[0] = NoScores
  <2>1. 1..0 = {} /\ {} \in SUBSET D /\ 0 \in 0..Len(q)
    BY <1>2
  <2> QED BY <1>8, <2>1
<1>10. ASSUME NEW k \in 1..Len(q) PROVE h[k] = AddFrom(index, h[k - 1], q[k])
  <2>1. /\ 1..k \in SUBSET (1..Len(q)) /\ 1..k # {} /\ Max(1..k) = k
        /\ (1..k) \ {Max(1..k)} = 1..(k - 1)
    BY <1>2, Prefix
  <2>2. k - 1 \in 0..Len(q) /\ k \in 0..Len(q)
    BY <1>2
  <2>3. h[k] = g0[1..k] /\ h[k - 1] = g0[1..(k - 1)]
    BY <2>2
  <2> HIDE DEF h, D
  <2> QED BY <1>2, <1>8, <2>1, <2>3
<1>11. \A k \in 0..Len(q) : h[k] \in Tables
  <2> DEFINE Bad == {k \in 0..Len(q) : h[k] \notin Tables}
  <2> SUFFICES ASSUME Bad # {} PROVE FALSE
    OBVIOUS
  <2>1. Bad \subseteq Nat /\ (\A k \in 0..Len(q) : k \notin Bad => h[k] \in Tables)
        /\ (\A k \in Bad : k \in 0..Len(q) /\ h[k] \notin Tables)
    OBVIOUS
  <2> HIDE DEF Bad
  <2>2. PICK k \in Bad : \A j \in Bad : k <= j
    BY <2>1, LeastNumber
  <2>3. k \in 0..Len(q) /\ h[k] \notin Tables
    BY <2>1
  <2> HIDE DEF h
  <2>4. k # 0
    BY <1>9, <2>3, NoScoresTable
  <2>5. k \in 1..Len(q) /\ k - 1 \in 0..Len(q) /\ ~(k <= k - 1)
    BY <1>2, <2>3, <2>4
  <2>6. h[k - 1] \in Tables /\ q[k] \in Words
    BY <1>2, <2>1, <2>2, <2>5
  <2>7. AddFrom(index, h[k - 1], q[k]) \in Tables
    BY <2>6, LookupTable
  <2> QED BY <1>10, <2>3, <2>5, <2>7
<1>12. h = [k \in 0..Len(q) |-> h[k]]
  OBVIOUS
<1>13. h[Len(q)] = g0[D]
  BY <1>2
<1> HIDE DEF h
<1>14. h \in [0..Len(q) -> Tables]
  BY <1>11, <1>12
<1>15. TokenTrace(h, index, q)
  BY <1>9, <1>10, <1>14 DEF TokenTrace
<1> QED BY <1>1, <1>13, <1>15

-----------------------------------------------------------------------------
(* More postings find more *)

\* What a table has of a page is a number of a kind.
LEMMA FoundType ==
    ASSUME NEW sc \in Tables, NEW u
    PROVE  /\ Found(sc, u).score \in Int /\ Found(sc, u).frequency \in Nat
           /\ (Shallow => Found(sc, u).score \in Nat)
           /\ u \in DOMAIN sc => Found(sc, u).score = sc[u].score /\ Found(sc, u).frequency = sc[u].frequency
           /\ u \notin DOMAIN sc => Found(sc, u).score = 0 /\ Found(sc, u).frequency = 0
<1>1. CASE u \in DOMAIN sc
  <2>1. sc[u] \in ScoreType
    BY <1>1, TableIs
  <2>2. sc[u].score \in Int /\ sc[u].frequency \in Nat /\ (Shallow => sc[u].score \in Nat)
    BY <2>1 DEF ScoreType
  <2>3. Found(sc, u) = [score |-> sc[u].score, frequency |-> sc[u].frequency]
    BY <1>1 DEF Found
  <2> QED BY <1>1, <2>2, <2>3
<1>2. CASE u \notin DOMAIN sc
  <2>1. Found(sc, u) = [score |-> 0, frequency |-> 0]
    BY <1>2 DEF Found
  <2> QED BY <1>2, <2>1
<1> QED BY <1>1, <1>2

\* AtMost by what is found.
LEMMA AtMostFound ==
    ASSUME NEW x \in Tables, NEW y \in Tables, AtMost(x, y), Shallow, NEW u
    PROVE  Found(x, u).score <= Found(y, u).score /\ Found(x, u).frequency <= Found(y, u).frequency
<1>1. CASE u \in DOMAIN x
  <2>1. u \in DOMAIN y /\ x[u].score <= y[u].score /\ x[u].frequency <= y[u].frequency
    BY <1>1 DEF AtMost
  <2> QED BY <1>1, <2>1, FoundType
<1>2. CASE u \notin DOMAIN x
  <2>1. Found(y, u).score \in Nat /\ Found(y, u).frequency \in Nat
    BY FoundType
  <2>2. Found(x, u).score = 0 /\ Found(x, u).frequency = 0
    BY <1>2, FoundType
  <2> QED BY <2>1, <2>2
<1> QED BY <1>1, <1>2

\* The order of tables is reflexive and transitive.
LEMMA AtMostOrder ==
    ASSUME NEW x \in Tables
    PROVE  /\ AtMost(x, x)
           /\ \A y, z \in Tables : AtMost(x, y) /\ AtMost(y, z) => AtMost(x, z)
<1>1. \A sc \in Tables : \A u \in DOMAIN sc : sc[u].score \in Int /\ sc[u].frequency \in Nat
  <2> SUFFICES ASSUME NEW sc \in Tables, NEW u \in DOMAIN sc
               PROVE  sc[u].score \in Int /\ sc[u].frequency \in Nat
    OBVIOUS
  <2> QED BY FoundType
<1>2. AtMost(x, x)
  BY <1>1 DEF AtMost
<1>3. ASSUME NEW y \in Tables, NEW z \in Tables, AtMost(x, y), AtMost(y, z) PROVE AtMost(x, z)
  <2> SUFFICES ASSUME NEW u \in DOMAIN x
               PROVE  u \in DOMAIN z /\ x[u].score <= z[u].score /\ x[u].frequency <= z[u].frequency
    BY DEF AtMost
  <2>1. u \in DOMAIN y /\ x[u].score <= y[u].score /\ x[u].frequency <= y[u].frequency
    BY <1>3 DEF AtMost
  <2>2. u \in DOMAIN z /\ y[u].score <= z[u].score /\ y[u].frequency <= z[u].frequency
    BY <1>3, <2>1 DEF AtMost
  <2> QED BY <1>1, <2>1, <2>2
<1> QED BY <1>2, <1>3

\* A posting finds more, and more where there was more.
LEMMA AddsMore ==
    ASSUME Shallow, NEW x \in Tables, NEW y \in Tables, AtMost(x, y), NEW p \in PostingType
    PROVE  /\ AtMost(x, AddToScores(y, p))
           /\ AtMost(AddToScores(x, p), AddToScores(y, p))
<1> DEFINE a == AddToScores(x, p)
           b == AddToScores(y, p)
<1>1. a \in Tables /\ b \in Tables /\ Adds(x, p, a) /\ Adds(y, p, b)
  BY PostingAdded
<1> HIDE DEF a, b
<1>2. /\ DOMAIN a = DOMAIN x \cup {p.url} /\ DOMAIN b = DOMAIN y \cup {p.url}
      /\ \A u \in DOMAIN x : u # p.url => a[u] = x[u]
      /\ \A u \in DOMAIN y : u # p.url => b[u] = y[u]
      /\ a[p.url].score = Found(x, p.url).score + Gain(p)
      /\ b[p.url].score = Found(y, p.url).score + Gain(p)
      /\ a[p.url].frequency = Found(x, p.url).frequency + p.tf
      /\ b[p.url].frequency = Found(y, p.url).frequency + p.tf
      /\ Gain(p) \in Nat /\ p.tf \in Nat
  BY <1>1 DEF Adds
<1>3. Found(x, p.url).score <= Found(y, p.url).score /\ Found(x, p.url).frequency <= Found(y, p.url).frequency
      /\ Found(x, p.url).score \in Nat /\ Found(x, p.url).frequency \in Nat
      /\ Found(y, p.url).score \in Nat /\ Found(y, p.url).frequency \in Nat
  BY AtMostFound, FoundType
<1>4. DOMAIN x \subseteq DOMAIN y
      /\ \A u \in DOMAIN x : x[u].score <= y[u].score /\ x[u].frequency <= y[u].frequency
  BY DEF AtMost
<1>5. p.url \in DOMAIN x => x[p.url].score = Found(x, p.url).score /\ x[p.url].frequency = Found(x, p.url).frequency
  BY FoundType
<1>6. a[p.url].score <= b[p.url].score /\ a[p.url].frequency <= b[p.url].frequency
      /\ Found(x, p.url).score <= b[p.url].score /\ Found(x, p.url).frequency <= b[p.url].frequency
  BY <1>2, <1>3
<1>7. ASSUME NEW u \in DOMAIN x
      PROVE  u \in DOMAIN b /\ x[u].score <= b[u].score /\ x[u].frequency <= b[u].frequency
  <2>1. CASE u = p.url
    BY <1>2, <1>5, <1>6, <2>1
  <2>2. CASE u # p.url
    BY <1>2, <1>4, <2>2
  <2> QED BY <2>1, <2>2
<1>8. ASSUME NEW u \in DOMAIN a
      PROVE  u \in DOMAIN b /\ a[u].score <= b[u].score /\ a[u].frequency <= b[u].frequency
  <2>1. CASE u = p.url
    BY <1>2, <1>6, <2>1
  <2>2. CASE u # p.url
    BY <1>2, <1>4, <2>2
  <2> QED BY <2>1, <2>2
<1>9. AtMost(x, b) /\ AtMost(a, b)
  BY <1>7, <1>8 DEF AtMost
<1> QED BY <1>9 DEF a, b

\* s2 goes on where s ends; an index grows.
Begins(s, s2) == Len(s) <= Len(s2) /\ \A k \in 1..Len(s) : s[k] = s2[k]
Extends(index, larger) == \A t \in Words : Begins(index[t], larger[t])

\* More postings, or a table with more, give a table with more.
LEMMA MorePostings ==
    ASSUME Shallow, NEW x \in Tables, NEW y \in Tables, AtMost(x, y),
           NEW s \in Seq(PostingType), NEW s2 \in Seq(PostingType), Begins(s, s2)
    PROVE  AtMost(FoldLeft(AddToScores, x, s), FoldLeft(AddToScores, y, s2))
<1> DEFINE n == Len(s)
           n2 == Len(s2)
<1>1. n \in Nat /\ n2 \in Nat /\ n <= n2 /\ (\A k \in 1..n : s[k] = s2[k])
      /\ \A k \in 1..n2 : s2[k] \in PostingType
  BY DEF Begins
<1>2. PICK a : PostingTrace(a, x, s) /\ FoldLeft(AddToScores, x, s) = a[n]
  BY PostingsFolded
<1>3. PICK b : PostingTrace(b, y, s2) /\ FoldLeft(AddToScores, y, s2) = b[n2]
  BY PostingsFolded
<1>4. /\ a \in [0..n -> Tables] /\ a[0] = x
      /\ \A k \in 1..n : a[k] = AddToScores(a[k - 1], s[k])
      /\ b \in [0..n2 -> Tables] /\ b[0] = y
      /\ \A k \in 1..n2 : b[k] = AddToScores(b[k - 1], s2[k])
  BY <1>2, <1>3 DEF PostingTrace
<1> HIDE DEF n, n2
<1> DEFINE Cut(k) == IF k <= n THEN k ELSE n
           Bad == {k \in 0..n2 : ~AtMost(a[Cut(k)], b[k])}
<1>5. Bad = {}
  <2> SUFFICES ASSUME Bad # {} PROVE FALSE
    OBVIOUS
  <2>1. Bad \subseteq Nat /\ (\A k \in 0..n2 : k \notin Bad => AtMost(a[Cut(k)], b[k]))
        /\ (\A k \in Bad : k \in 0..n2 /\ ~AtMost(a[Cut(k)], b[k]))
    OBVIOUS
  <2> HIDE DEF Bad
  <2>2. PICK k \in Bad : \A j \in Bad : k <= j
    BY <2>1, LeastNumber
  <2>3. k \in 0..n2 /\ ~AtMost(a[Cut(k)], b[k])
    BY <2>1
  <2>4. k # 0
    <3>1. Cut(0) = 0
      BY <1>1
    <3> QED BY <1>4, <2>3, <3>1
  <2>5. k \in 1..n2 /\ k - 1 \in 0..n2 /\ ~(k <= k - 1)
    BY <1>1, <2>3, <2>4
  <2>6. AtMost(a[Cut(k - 1)], b[k - 1])
    BY <2>1, <2>2, <2>5
  <2>7. b[k] = AddToScores(b[k - 1], s2[k]) /\ b[k - 1] \in Tables /\ s2[k] \in PostingType
    BY <1>1, <1>4, <2>5
  <2>8. CASE k <= n
    <3>1. Cut(k) = k /\ Cut(k - 1) = k - 1 /\ k \in 1..n /\ k - 1 \in 0..n
      BY <1>1, <2>5, <2>8
    <3> HIDE DEF Cut
    <3>2. a[k] = AddToScores(a[k - 1], s2[k]) /\ a[k - 1] \in Tables
      BY <1>1, <1>4, <3>1
    <3>3. AtMost(AddToScores(a[k - 1], s2[k]), AddToScores(b[k - 1], s2[k]))
      BY <2>6, <2>7, <3>1, <3>2, AddsMore
    <3> QED BY <2>3, <2>7, <3>1, <3>2, <3>3
  <2>9. CASE ~(k <= n)
    <3>1. Cut(k) = n /\ Cut(k - 1) = n /\ n \in 0..n
      BY <1>1, <2>5, <2>9
    <3> HIDE DEF Cut
    <3>2. a[n] \in Tables
      BY <1>4, <3>1
    <3>3. AtMost(a[n], AddToScores(b[k - 1], s2[k]))
      BY <2>6, <2>7, <3>1, <3>2, AddsMore
    <3> QED BY <2>3, <2>7, <3>1, <3>3
  <2> QED BY <2>8, <2>9
<1>6. n2 \in 0..n2 /\ Cut(n2) = n
  BY <1>1
<1>7. AtMost(a[n], b[n2])
  BY <1>5, <1>6
<1> QED BY <1>2, <1>3, <1>7 DEF n, n2

\* A larger index, or a table with more, gives a table with more after a token.
LEMMA MoreLookups ==
    ASSUME Shallow, NEW x \in Tables, NEW y \in Tables, AtMost(x, y),
           NEW index \in Indexes, NEW larger \in Indexes, Extends(index, larger), NEW t \in Words
    PROVE  AtMost(AddFrom(index, x, t), AddFrom(larger, y, t))
<1>1. index[t] \in Seq(PostingType) /\ larger[t] \in Seq(PostingType) /\ Begins(index[t], larger[t])
  BY DEF Indexes, Extends
<1> QED BY <1>1, MorePostings DEF AddFrom

\* A search finds more in a larger index, token by token.
LEMMA MoreTokens ==
    ASSUME Shallow, NEW index \in Indexes, NEW larger \in Indexes, Extends(index, larger),
           NEW q \in Seq(Words), NEW a, NEW b, TokenTrace(a, index, q), TokenTrace(b, larger, q),
           NEW m \in 0..Len(q)
    PROVE  AtMost(a[m], b[m])
<1> DEFINE Bad == {k \in 0..Len(q) : ~AtMost(a[k], b[k])}
<1> SUFFICES ASSUME Bad # {} PROVE FALSE
  OBVIOUS
<1>1. Len(q) \in Nat /\ \A k \in 1..Len(q) : q[k] \in Words
  OBVIOUS
<1>2. /\ a \in [0..Len(q) -> Tables] /\ a[0] = NoScores
      /\ \A k \in 1..Len(q) : a[k] = AddFrom(index, a[k - 1], q[k])
      /\ b \in [0..Len(q) -> Tables] /\ b[0] = NoScores
      /\ \A k \in 1..Len(q) : b[k] = AddFrom(larger, b[k - 1], q[k])
  BY DEF TokenTrace
<1>3. Bad \subseteq Nat /\ (\A k \in 0..Len(q) : k \notin Bad => AtMost(a[k], b[k]))
      /\ (\A k \in Bad : k \in 0..Len(q) /\ ~AtMost(a[k], b[k]))
  OBVIOUS
<1> HIDE DEF Bad
<1>4. PICK k \in Bad : \A j \in Bad : k <= j
  BY <1>3, LeastNumber
<1>5. k \in 0..Len(q) /\ ~AtMost(a[k], b[k])
  BY <1>3
<1>6. k # 0
  BY <1>2, <1>5, NoScoresTable, AtMostOrder
<1>7. k \in 1..Len(q) /\ k - 1 \in 0..Len(q) /\ ~(k <= k - 1)
  BY <1>1, <1>5, <1>6
<1>8. AtMost(a[k - 1], b[k - 1]) /\ a[k - 1] \in Tables /\ b[k - 1] \in Tables /\ q[k] \in Words
  BY <1>1, <1>2, <1>3, <1>4, <1>7
<1>9. AtMost(AddFrom(index, a[k - 1], q[k]), AddFrom(larger, b[k - 1], q[k]))
  BY <1>8, MoreLookups
<1> QED BY <1>2, <1>5, <1>7, <1>9

-----------------------------------------------------------------------------
(* The search *)

SearchTypes ==
    /\ spc \in {"idle", "lookup", "done"} /\ todo \in Seq(Words) /\ query \in Seq(Words)
    /\ scores \in Tables /\ low \in Tables

\* The search begins with no tables, and every step leaves tables.
LEMMA SearchTypesInit == Init => SearchTypes
BY NoScoresTable DEF Init, SearchTypes

\* What a search in one step would find when it begins.
LEMMA LowIsAtomic ==
    ASSUME NEW q
    PROVE  FoldLeft(AddToken, NoScores, q) = Atomic(postings, q)
BY DEF Atomic, AddToken, FoldLeft, MapThenFoldSet

\* Every step of the system leaves tables to the search.
LEMMA SearchTypesStep ==
    ASSUME StorageInv, SearchTypes, [Next]_vars
    PROVE  SearchTypes'
<1>1. postings \in Indexes
  BY DEF StorageInv, StorageTypes, Indexes
<1>2. CASE UNCHANGED searchVars
  BY <1>2 DEF SearchTypes, searchVars
<1>3. CASE Restart
  BY <1>3, NoScoresTable DEF Restart, SearchTypes
<1>4. ASSUME NEW q \in Queries, SearchBegin(q) PROVE SearchTypes'
  <2>1. q \in Seq(Words)
    BY IndexAssumption
  <2>2. tokenize(q) \in Seq(Words)
    BY <2>1, TokensType
  <2> DEFINE tokens == tokenize(q)
  <2>3. PICK h : TokenTrace(h, postings, tokens) /\ Atomic(postings, tokens) = h[Len(tokens)]
    BY <1>1, <2>2, TokensFolded
  <2>4. Len(tokens) \in 0..Len(tokens)
    BY <2>2
  <2>5. Atomic(postings, tokens) \in Tables
    BY <2>3, <2>4 DEF TokenTrace
  <2>6. low' \in Tables
    BY <1>4, <2>5, LowIsAtomic DEF SearchBegin
  <2> QED BY <1>4, <2>1, <2>2, <2>6, NoScoresTable DEF SearchBegin, SearchTypes
<1>5. CASE Lookup
  <2>1. todo \in Seq(Words) /\ todo # <<>> /\ scores' = AddToken(scores, Head(todo)) /\ todo' = Tail(todo)
        /\ UNCHANGED <<spc, query, low>>
    BY <1>5 DEF Lookup, SearchTypes
  <2>2. Head(todo) \in Words /\ Tail(todo) \in Seq(Words)
    BY <2>1
  <2>3. AddFrom(postings, scores, Head(todo)) \in Tables
    BY <1>1, <2>2, LookupTable DEF SearchTypes
  <2> QED BY <2>1, <2>2, <2>3 DEF SearchTypes, AddToken, AddFrom
<1>6. ASSUME NEW sortBy, SearchReturn(sortBy) PROVE SearchTypes'
  BY <1>6 DEF SearchReturn, SearchTypes
<1>7. ASSUME NEW i \in Indexers,
             \/ StartCrawl(i) \/ ResumeCrawl(i) \/ CloseEmpty(i)
             \/ \E p \in Pages : AddDocument(i, p)
             \/ \E last \in BOOLEAN : FlushRest(i, last)
             \/ SavePostingsBatch(i) \/ OpenPData(i) \/ AppendPostingsToFile(i)
      PROVE  UNCHANGED searchVars
  BY <1>7 DEF StartCrawl, ResumeCrawl, CloseEmpty, AddDocument, FlushRest, SavePostingsBatch, OpenPData,
              AppendPostingsToFile
<1>8. UNCHANGED vars => UNCHANGED searchVars
  BY DEF vars
<1> QED BY <1>2, <1>3, <1>4, <1>5, <1>6, <1>7, <1>8 DEF Next

\* The search has looked the first k tokens of q up.  In the index of its
\* beginning it would have found no more with them, in that of now no less.
Between(old, lo, hi, k, q) ==
    /\ Extends(old, postings)
    /\ TokenTrace(lo, old, q) /\ low = lo[Len(q)]
    /\ TokenTrace(hi, postings, q)
    /\ todo = SubSeq(q, k + 1, Len(q))
    /\ AtMost(lo[k], scores) /\ AtMost(scores, hi[k])

SearchInv ==
    /\ spc # "idle" =>
          \E old \in Indexes, k \in 0..Len(tokenize(query)) :
              \E lo, hi : Between(old, lo, hi, k, tokenize(query))
    /\ spc = "done" => todo = <<>> /\ answer.hits \in Results(scores, answer.by)

\* An index that grows twice has grown.
LEMMA ExtendsOrder ==
    ASSUME NEW a \in Indexes
    PROVE  /\ Extends(a, a)
           /\ \A b, c \in Indexes : Extends(a, b) /\ Extends(b, c) => Extends(a, c)
<1>1. \A index \in Indexes : \A t \in Words : Len(index[t]) \in Nat
  <2> SUFFICES ASSUME NEW index \in Indexes, NEW t \in Words PROVE Len(index[t]) \in Nat
    OBVIOUS
  <2>1. index[t] \in Seq(PostingType)
    BY DEF Indexes
  <2> QED BY <2>1
<1>2. Extends(a, a)
  BY <1>1 DEF Extends, Begins
<1>3. ASSUME NEW b \in Indexes, NEW c \in Indexes, Extends(a, b), Extends(b, c), NEW t \in Words
      PROVE  Begins(a[t], c[t])
  <2>1. Begins(a[t], b[t]) /\ Begins(b[t], c[t])
    BY <1>3 DEF Extends
  <2>2. Len(a[t]) \in Nat /\ Len(b[t]) \in Nat /\ Len(c[t]) \in Nat
    BY <1>1
  <2> QED BY <2>1, <2>2 DEF Begins
<1> QED BY <1>2, <1>3 DEF Extends

\* A page that is added makes the index grow.
LEMMA AddExtends ==
    ASSUME NEW i, NEW p \in Pages, AddDocument(i, p), postings \in Indexes
    PROVE  Extends(postings, postings')
<1> DEFINE tokens == tokenize(p.words)
           NewPosting(t) == [url |-> p.url, depth |-> p.depth, tf |-> Count(t, tokens)]
<1>1. postings' = [t \in Words |-> IF t \in Range(tokens) THEN Append(postings[t], NewPosting(t))
                                   ELSE postings[t]]
  BY DEF AddDocument
<1>2. p.words \in Seq(Words) /\ p.depth \in Depths /\ p.url \in URLs
  BY IndexAssumption DEF URLs, Depths
<1>3. tokens \in Seq(Words)
  BY <1>2, TokensType
<1>4. \A t \in Words : NewPosting(t) \in PostingType
  BY <1>2, <1>3, CountNat DEF PostingType
<1> HIDE DEF tokens, NewPosting
<1>5. ASSUME NEW t \in Words PROVE Begins(postings[t], postings'[t])
  <2>1. postings[t] \in Seq(PostingType) /\ Len(postings[t]) \in Nat
    BY DEF Indexes
  <2>2. postings'[t] = postings[t] \/ postings'[t] = Append(postings[t], NewPosting(t))
    BY <1>1
  <2>3. /\ Len(Append(postings[t], NewPosting(t))) = Len(postings[t]) + 1
        /\ \A k \in 1..Len(postings[t]) : Append(postings[t], NewPosting(t))[k] = postings[t][k]
    BY <1>4, <2>1, AppendProperties
  <2> QED BY <2>1, <2>2, <2>3 DEF Begins
<1> QED BY <1>5 DEF Extends

\* A page that is added while the search runs moves the upper bound only.
LEMMA SearchAdd ==
    ASSUME Shallow, postings \in Indexes, postings' \in Indexes, SearchTypes, SearchInv,
           NEW i, NEW p \in Pages, AddDocument(i, p)
    PROVE  SearchInv'
<1> DEFINE q == tokenize(query)
<1>1. UNCHANGED <<spc, todo, scores, answer, query, low>>
  BY DEF AddDocument, searchVars
<1>2. q \in Seq(Words)
  BY TokensType DEF SearchTypes
<1>3. q' = q
  BY <1>1
<1>4. ASSUME spc # "idle"
      PROVE  \E old \in Indexes, k \in 0..Len(q) : \E lo, hi : Between(old, lo, hi, k, q)'
  <2>1. PICK old \in Indexes, k \in 0..Len(q) : \E lo, hi : Between(old, lo, hi, k, q)
    BY <1>4 DEF SearchInv
  <2>2. PICK lo, hi : Between(old, lo, hi, k, q)
    BY <2>1
  <2> HIDE DEF q
  <2>3. PICK new : TokenTrace(new, postings', q)
    BY <1>2, TokensFolded
  <2>4. Extends(postings, postings')
    BY AddExtends
  <2>5. Extends(old, postings')
    BY <2>2, <2>4, ExtendsOrder DEF Between
  <2>6. AtMost(hi[k], new[k])
    BY <1>2, <2>2, <2>3, <2>4, MoreTokens DEF Between
  <2>7. hi[k] \in Tables /\ new[k] \in Tables /\ scores \in Tables
    BY <2>2, <2>3 DEF Between, TokenTrace, SearchTypes
  <2>8. AtMost(scores, new[k])
    BY <2>2, <2>6, <2>7, AtMostOrder DEF Between
  <2>9. Between(old, lo, new, k, q)'
    BY <1>1, <1>3, <2>2, <2>3, <2>5, <2>8 DEF Between
  <2> QED BY <2>9
<1>5. spc' # "idle" =>
          \E old \in Indexes, k \in 0..Len(q') : \E lo, hi : Between(old, lo, hi, k, q)'
  BY <1>1, <1>3, <1>4
<1>6. spc' = "done" => todo' = <<>> /\ answer'.hits \in Results(scores', answer'.by)
  BY <1>1 DEF SearchInv
<1> QED BY <1>5, <1>6 DEF SearchInv

\* The search begins.
LEMMA SearchBegins ==
    ASSUME postings \in Indexes, NEW q \in Queries, SearchBegin(q)
    PROVE  SearchInv'
<1> DEFINE tokens == tokenize(q)
<1>1. /\ spc' = "lookup" /\ query' = q /\ todo' = tokens /\ scores' = NoScores
      /\ low' = Atomic(postings, tokens) /\ postings' = postings
  BY LowIsAtomic DEF SearchBegin, memVars
<1>2. tokens \in Seq(Words) /\ Len(tokens) \in Nat
  <2>1. q \in Seq(Words)
    BY IndexAssumption
  <2> QED BY <2>1, TokensType
<1>3. tokenize(query)' = tokens
  BY <1>1
<1> HIDE DEF tokens
<1>4. PICK h : TokenTrace(h, postings, tokens) /\ Atomic(postings, tokens) = h[Len(tokens)]
  BY <1>2, TokensFolded
<1>5. h[0] = NoScores
  BY <1>4 DEF TokenTrace
<1>6. tokens = SubSeq(tokens, 0 + 1, Len(tokens))
  BY <1>2, SubSeqFull
<1>7. AtMost(NoScores, NoScores)
  BY NoScoresTable, AtMostOrder
<1>8. Between(postings, h, h, 0, tokens)'
  BY <1>1, <1>4, <1>5, <1>6, <1>7, ExtendsOrder DEF Between
<1>9. 0 \in 0..Len(tokens)
  BY <1>2
<1>10. \E old \in Indexes, k \in 0..Len(tokens) : \E lo, hi : Between(old, lo, hi, k, tokens)'
  BY <1>8, <1>9, <1>1
<1> QED BY <1>1, <1>3, <1>10 DEF SearchInv

\* One more token is looked up, in the index as it is now.
LEMMA SearchLookup ==
    ASSUME Shallow, postings \in Indexes, SearchTypes, SearchInv, Lookup
    PROVE  SearchInv'
<1> DEFINE q == tokenize(query)
<1>1. /\ spc = "lookup" /\ todo # <<>> /\ scores' = AddFrom(postings, scores, Head(todo))
      /\ todo' = Tail(todo) /\ UNCHANGED <<postings, spc, answer, query, low>>
  BY DEF Lookup, AddToken, AddFrom, memVars
<1>2. q \in Seq(Words) /\ Len(q) \in Nat /\ \A n \in 1..Len(q) : q[n] \in Words
  BY TokensType DEF SearchTypes
<1>3. q' = q
  BY <1>1
<1>4. PICK old \in Indexes, k \in 0..Len(q) : \E lo, hi : Between(old, lo, hi, k, q)
  BY <1>1 DEF SearchInv
<1>5. PICK lo, hi : Between(old, lo, hi, k, q)
  BY <1>4
<1> HIDE DEF q
<1>6. todo = SubSeq(q, k + 1, Len(q))
  BY <1>5 DEF Between
<1>7. k + 1 \in 1..Len(q)
  <2>1. CASE k = Len(q)
    <3>1. SubSeq(q, k + 1, Len(q)) = <<>>
      BY <1>2, <2>1, SubSeqEmpty
    <3> QED BY <1>1, <1>6, <3>1
  <2> QED BY <1>2, <2>1
<1>8. Head(todo) = q[k + 1] /\ Tail(todo) = SubSeq(q, (k + 1) + 1, Len(q))
  BY <1>2, <1>6, <1>7, HeadTailOfSubSeq
<1>9. /\ lo \in [0..Len(q) -> Tables] /\ hi \in [0..Len(q) -> Tables]
      /\ lo[k + 1] = AddFrom(old, lo[k], q[k + 1]) /\ hi[k + 1] = AddFrom(postings, hi[k], q[k + 1])
  <2>1. (k + 1) - 1 = k
    OBVIOUS
  <2> QED BY <1>5, <1>7, <2>1 DEF Between, TokenTrace
<1>10. lo[k] \in Tables /\ hi[k] \in Tables /\ scores \in Tables /\ q[k + 1] \in Words
  BY <1>2, <1>7, <1>9 DEF SearchTypes
<1>11. AtMost(lo[k + 1], scores')
  BY <1>1, <1>5, <1>8, <1>9, <1>10, MoreLookups DEF Between
<1>12. AtMost(scores', hi[k + 1])
  BY <1>1, <1>5, <1>8, <1>9, <1>10, MoreLookups, ExtendsOrder DEF Between
<1>13. Between(old, lo, hi, k + 1, q)'
  BY <1>1, <1>3, <1>5, <1>8, <1>11, <1>12 DEF Between
<1>14. k + 1 \in 0..Len(q)
  BY <1>7
<1>15. \E o \in Indexes, j \in 0..Len(q) : \E l, h : Between(o, l, h, j, q)'
  BY <1>13, <1>14
<1> QED BY <1>1, <1>3, <1>15 DEF SearchInv, q

\* Every step preserves the invariant of the search.
LEMMA SearchStep ==
    ASSUME Shallow, StorageInv, StorageInv', SearchTypes, SearchInv, [Next]_vars
    PROVE  SearchInv'
<1>1. postings \in Indexes /\ postings' \in Indexes
  BY DEF StorageInv, StorageTypes, Indexes
<1>2. CASE UNCHANGED <<postings, searchVars>>
  <2>1. UNCHANGED <<postings, spc, todo, scores, answer, query, low>>
    BY <1>2 DEF searchVars
  <2> QED BY <2>1 DEF SearchInv, Between
<1>3. CASE Restart
  BY <1>3 DEF Restart, SearchInv
<1>4. ASSUME NEW i \in Indexers, NEW p \in Pages, AddDocument(i, p) PROVE SearchInv'
  BY <1>1, <1>4, SearchAdd
<1>5. ASSUME NEW q \in Queries, SearchBegin(q) PROVE SearchInv'
  BY <1>1, <1>5, SearchBegins
<1>6. CASE Lookup
  BY <1>1, <1>6, SearchLookup
<1>7. ASSUME NEW sortBy, SearchReturn(sortBy) PROVE SearchInv'
  <2>1. /\ spc = "lookup" /\ todo = <<>> /\ spc' = "done"
        /\ answer'.hits \in Results(scores, answer'.by)
        /\ UNCHANGED <<postings, todo, scores, query, low>>
    BY <1>7 DEF SearchReturn, memVars
  <2> QED BY <2>1 DEF SearchInv, Between
<1>8. ASSUME NEW i \in Indexers,
             \/ StartCrawl(i) \/ ResumeCrawl(i) \/ CloseEmpty(i)
             \/ \E last \in BOOLEAN : FlushRest(i, last)
             \/ SavePostingsBatch(i) \/ OpenPData(i) \/ AppendPostingsToFile(i)
      PROVE  UNCHANGED <<postings, searchVars>>
  BY <1>8 DEF StartCrawl, ResumeCrawl, CloseEmpty, FlushRest, SavePostingsBatch, OpenPData,
              AppendPostingsToFile, memVars
<1>9. UNCHANGED vars => UNCHANGED <<postings, searchVars>>
  BY DEF vars, memVars
<1> QED BY <1>2, <1>3, <1>4, <1>5, <1>6, <1>7, <1>8, <1>9 DEF Next

-----------------------------------------------------------------------------
(* The theorems *)

\* What p.data holds is in the table: a flush writes the table first, and
\* neither a torn write nor a removal of the file makes a row readable.
THEOREM PDataIsInTable == Spec => []FileInTable
<1>1. StorageInv => FileInTable
  <2> SUFFICES ASSUME StorageInv, NEW n \in DOMAIN LoadPostingsFromFile
               PROVE  Keyed(LoadPostingsFromFile[n])
    BY DEF FileInTable, Keyed
  <2>1. Range(LoadPostingsFromFile) = WholeRows(file)
    BY Loaded DEF StorageInv, StorageTypes
  <2>2. LoadPostingsFromFile[n] \in WholeRows(file)
    BY <2>1 DEF Range
  <2> QED BY <2>2 DEF StorageInv, TableAhead
<1> QED BY <1>1, StorageHolds, PTL

\* The document count is at least the number of pages a search can find and at
\* most the number of pages indexed, before a restart and after it.
THEOREM DocCountIsTruthful == Spec => []DocCountTruthful
<1>1. StorageInv => DocCountTruthful
  BY DEF StorageInv, CountBounds, DocCountTruthful, IndexedURLs, AllPostings
<1> QED BY <1>1, StorageHolds, PTL

\* Every variable keeps its type and at most one flush writes to p.data, however
\* crawls, flushes, searches and ends of the process interleave.
THEOREM IndexTypeCorrect == Spec => []TypeOK
<1>1. StorageInv /\ SearchTypes => TypeOK
  <2> SUFFICES ASSUME StorageInv, SearchTypes PROVE TypeOK
    OBVIOUS
  <2> USE DEF StorageInv
  <2>1. Depths \subseteq Nat
    BY IndexAssumption DEF Depths
  <2>2. PostingType \subseteq [url : URLs, depth : Nat, tf : Nat] /\ RowType \subseteq Row
    BY <2>1 DEF PostingType, RowType, Row
  <2>3. LineType \subseteq [row : Row, whole : BOOLEAN, nl : BOOLEAN]
    BY <2>2 DEF LineType
  <2>4. postings \in [Words -> Seq([url : URLs, depth : Nat, tf : Nat])]
    <3>1. \A t \in Words : postings[t] \in Seq([url : URLs, depth : Nat, tf : Nat])
      BY <2>2, SeqMonotonic DEF StorageTypes
    <3> QED BY <3>1 DEF StorageTypes
  <2>5. pending \in [Indexers -> Seq(Row)]
    <3>1. \A i \in Indexers : pending[i] \in Seq(Row)
      BY <2>2, SeqMonotonic DEF StorageTypes
    <3> QED BY <3>1 DEF StorageTypes
  <2>6. stored \in Seq(Row) /\ table \subseteq Row
        /\ file \in Seq([row : Row, whole : BOOLEAN, nl : BOOLEAN])
    BY <2>2, <2>3, SeqMonotonic DEF StorageTypes
  <2>7. \A sc \in {scores, low} : DOMAIN sc \subseteq URLs /\ Range(sc) \subseteq Score
    <3>1. ScoreType \subseteq Score
      BY DEF ScoreType, Score
    <3>2. \A sc \in {scores, low} : sc \in Tables
      BY DEF SearchTypes
    <3>3. \A sc \in {scores, low} : DOMAIN sc \subseteq URLs /\ \A u \in DOMAIN sc : sc[u] \in ScoreType
      BY <3>2, TableIs
    <3> QED BY <3>1, <3>3 DEF Range
  <2>8. \A i, j \in Indexers : ipc[i] = "write" => pending[i] # <<>> /\ (ipc[j] = "write" => i = j)
    BY DEF Flushing
  <2> QED BY <2>4, <2>5, <2>6, <2>7, <2>8 DEF TypeOK, StorageTypes, SearchTypes
<1>2. StorageInv /\ SearchTypes /\ [Next]_vars => SearchTypes'
  BY SearchTypesStep
<1> QED BY <1>1, <1>2, SearchTypesInit, StorageHolds, PTL DEF Spec

\* The invariants of the search hold in every reachable state.
LEMMA SearchHolds == ASSUME Shallow PROVE Spec => [](SearchTypes /\ SearchInv)
<1>1. Init => SearchInv
  BY DEF Init, SearchInv
<1>2. StorageInv /\ SearchTypes /\ [Next]_vars => SearchTypes'
  BY SearchTypesStep
<1>3. StorageInv /\ StorageInv' /\ SearchTypes /\ SearchInv /\ [Next]_vars => SearchInv'
  BY SearchStep
<1> QED BY <1>1, <1>2, <1>3, SearchTypesInit, StorageHolds, PTL DEF Spec

\* When a search has returned, what it accumulated lies between the index of
\* its beginning and that of now.
LEMMA DoneBounds ==
    ASSUME Shallow, postings \in Indexes, SearchTypes, SearchInv, spc = "done"
    PROVE  AtMost(low, scores) /\ AtMost(scores, Atomic(postings, tokenize(query)))
<1> DEFINE q == tokenize(query)
<1>1. q \in Seq(Words) /\ Len(q) \in Nat
  BY TokensType DEF SearchTypes
<1>2. todo = <<>>
  BY DEF SearchInv
<1>3. PICK old \in Indexes, k \in 0..Len(q) : \E lo, hi : Between(old, lo, hi, k, q)
  BY DEF SearchInv
<1>4. PICK lo, hi : Between(old, lo, hi, k, q)
  BY <1>3
<1>5. PICK h : TokenTrace(h, postings, q) /\ Atomic(postings, q) = h[Len(q)]
  BY <1>1, TokensFolded
<1> HIDE DEF q
<1>6. k = Len(q)
  <2> SUFFICES ASSUME k # Len(q) PROVE FALSE
    OBVIOUS
  <2>1. k + 1 \in 1..Len(q)
    BY <1>1
  <2>2. \A n \in 1..Len(q) : q[n] \in Words
    BY <1>1
  <2>3. Len(SubSeq(q, k + 1, Len(q))) = Len(q) - (k + 1) + 1
    BY <1>1, <2>1, SubSeqProperties
  <2>4. SubSeq(q, k + 1, Len(q)) = <<>>
    BY <1>2, <1>4 DEF Between
  <2>5. Len(SubSeq(q, k + 1, Len(q))) = 0
    <3> DEFINE rest == SubSeq(q, k + 1, Len(q))
    <3>1. rest = <<>>
      BY <2>4
    <3> HIDE DEF rest
    <3>2. Len(rest) = 0
      BY <3>1
    <3> QED BY <3>2 DEF rest
  <2>6. Len(q) - (k + 1) + 1 = 0
    BY <2>3, <2>5
  <2> QED BY <1>1, <2>1, <2>6
<1>7. AtMost(low, scores) /\ AtMost(scores, hi[Len(q)])
  BY <1>4, <1>6 DEF Between
<1>8. Len(q) \in 0..Len(q)
  BY <1>1
<1>9. AtMost(hi[Len(q)], h[Len(q)])
  BY <1>1, <1>4, <1>5, <1>8, MoreTokens, ExtendsOrder DEF Between
<1>10. hi[Len(q)] \in Tables /\ h[Len(q)] \in Tables /\ scores \in Tables
  BY <1>4, <1>5, <1>8 DEF Between, TokenTrace, SearchTypes
<1>11. AtMost(scores, h[Len(q)])
  BY <1>7, <1>9, <1>10, AtMostOrder
<1> QED BY <1>5, <1>7, <1>11 DEF q

\* While no page is deeper than two hundred links, where a posting would begin
\* to lower a score: a search that pages overtake finds all that was in the
\* index when it began, and nothing that is not there when it returns.
THEOREM SearchIsBounded == ASSUME Shallow PROVE Spec => []SearchBounded
<1>1. StorageInv /\ SearchTypes /\ SearchInv => SearchBounded
  BY DoneBounds DEF SearchBounded, StorageInv, StorageTypes, Indexes
<1> QED BY <1>1, SearchHolds, StorageHolds, PTL

\* Under the same condition the cut to TopK results takes nothing away that was
\* better than what it leaves, although scores were read at different times.
THEOREM BestAreKept == ASSUME Shallow PROVE Spec => []TopKBest
<1>1. StorageInv /\ SearchTypes /\ SearchInv => TopKBest
  <2> SUFFICES ASSUME StorageInv, SearchTypes, SearchInv, spc = "done", NEW u \in DOMAIN low,
                      u \notin {answer.hits[n].url : n \in DOMAIN answer.hits}
               PROVE  /\ Len(answer.hits) = TopK
                      /\ \A n \in DOMAIN answer.hits :
                            /\ answer.by = "relevance" => answer.hits[n].score >= low[u].score
                            /\ answer.by = "frequency" => answer.hits[n].frequency >= low[u].frequency
    BY DEF TopKBest
  <2> DEFINE Hit(v) == [url |-> v, depth |-> scores[v].depth, score |-> scores[v].score,
                        frequency |-> scores[v].frequency]
             results == {Hit(v) : v \in DOMAIN scores}
             Sorted(r) == \A i, j \in DOMAIN r : i < j => ~Before(answer.by, r[j], r[i])
             Kept(r) == IF TopK > 0 /\ Len(r) > TopK THEN SubSeq(r, 1, TopK) ELSE r
             hits == answer.hits
  <2>1. AtMost(low, scores)
    BY DoneBounds DEF StorageInv, StorageTypes, Indexes
  <2>2. u \in DOMAIN scores /\ low[u].score <= scores[u].score /\ low[u].frequency <= scores[u].frequency
    BY <2>1 DEF AtMost
  <2>3. PICK r \in SetToSeqs(results) : Sorted(r) /\ hits = Kept(r)
    <3>1. hits \in Results(scores, answer.by)
      BY DEF SearchInv
    <3>2. Results(scores, answer.by) = {Kept(r) : r \in {s \in SetToSeqs(results) : Sorted(s)}}
      BY DEF Results
    <3> HIDE DEF Kept, Sorted, results, hits
    <3> QED BY <3>1, <3>2
  <2>4. IsFiniteSet(results)
    <3>1. IsFiniteSet(DOMAIN scores)
      BY TableIs DEF SearchTypes
    <3> DEFINE f == [v \in DOMAIN scores |-> Hit(v)]
    <3>2. f \in Surjection(DOMAIN scores, results)
      BY DEF Surjection
    <3> HIDE DEF f, results
    <3> QED BY <3>1, <3>2, FS_Surjection
  <2>5. \A v \in DOMAIN scores : Hit(v) \in results /\ Hit(v).url = v /\ Hit(v).score = scores[v].score
                                 /\ Hit(v).frequency = scores[v].frequency
    OBVIOUS
  <2>6. \A v \in DOMAIN scores : scores[v].score \in Int /\ scores[v].frequency \in Nat
    BY FoundType DEF SearchTypes
  <2>7. \A v \in DOMAIN low : low[v].score \in Int /\ low[v].frequency \in Nat
    BY FoundType DEF SearchTypes
  <2>8. \A x \in results : x.score \in Int /\ x.frequency \in Nat
    BY <2>6
  <2> HIDE DEF results, hits
  <2> DEFINE c == Cardinality(results)
  <2>9. c \in Nat /\ r \in [1..c -> results] /\ \A i, j \in 1..c : i # j => r[i] # r[j]
    BY <2>4, FS_CardinalityType DEF SetToSeqs
  <2>10. IsFiniteSet(1..c) /\ Cardinality(1..c) = c
    <3> HIDE DEF c
    <3> QED BY <2>9, FS_Interval
  <2>11. r \in Surjection(1..c, results)
    <3>1. r \in Injection(1..c, results)
      BY <2>9 DEF Injection, IsInjective
    <3> QED BY <2>4, <2>10, <3>1, FS_Injection
  <2> HIDE DEF c
  <2>12. PICK m \in 1..c : r[m] = Hit(u)
    BY <2>2, <2>5, <2>11 DEF Surjection
  <2>13. r \in Seq(results) /\ Len(r) = c /\ DOMAIN r = 1..c
    BY <2>9, SeqDef
  <2>14. TopK > 0 /\ c > TopK /\ hits = SubSeq(r, 1, TopK)
    <3> SUFFICES ASSUME hits = r PROVE FALSE
      BY <2>3, <2>13
    <3>1. m \in DOMAIN hits /\ hits[m] = Hit(u)
      BY <2>12, <2>13
    <3>2. hits[m].url = u
      BY <3>1
    <3>3. u \in {hits[n].url : n \in DOMAIN hits}
      BY <3>1, <3>2
    <3> QED BY <3>3 DEF hits
  <2>15. TopK \in Nat
    BY IndexAssumption
  <2>16. Len(hits) = TopK /\ DOMAIN hits = 1..TopK /\ \A n \in 1..TopK : hits[n] = r[n] /\ n \in 1..c
    <3>1. \A n \in 1..TopK : r[n] \in results /\ n \in 1..c
      BY <2>9, <2>14, <2>15
    <3>2. /\ hits \in Seq(results) /\ Len(hits) = TopK - 1 + 1
          /\ \A n \in 1..(TopK - 1 + 1) : hits[n] = r[1 + n - 1]
      BY <2>14, <2>15, <3>1, SubSeqProperties
    <3> QED BY <2>15, <3>1, <3>2
  <2>17. ~(m \in 1..TopK)
    <3> SUFFICES ASSUME m \in 1..TopK PROVE FALSE
      OBVIOUS
    <3>1. hits[m] = Hit(u) /\ m \in DOMAIN hits
      BY <2>12, <2>16
    <3>2. hits[m].url = u
      BY <3>1
    <3>3. u \in {hits[n].url : n \in DOMAIN hits}
      BY <3>1, <3>2
    <3> QED BY <3>3 DEF hits
  <2>18. ASSUME NEW n \in 1..TopK
         PROVE  /\ answer.by = "relevance" => hits[n].score >= low[u].score
                /\ answer.by = "frequency" => hits[n].frequency >= low[u].frequency
    <3>1. n < m /\ n \in DOMAIN r /\ m \in DOMAIN r
      BY <2>13, <2>15, <2>16, <2>17
    <3>2. ~Before(answer.by, r[m], r[n])
      BY <2>3, <3>1
    <3>3. r[n] \in results /\ r[n].score \in Int /\ r[n].frequency \in Nat
      BY <2>8, <2>9, <2>16
    <3>4. r[m].score = scores[u].score /\ r[m].frequency = scores[u].frequency
          /\ scores[u].score \in Int /\ scores[u].frequency \in Nat
          /\ low[u].score \in Int /\ low[u].frequency \in Nat
      BY <2>2, <2>5, <2>6, <2>7, <2>12
    <3>5. CASE answer.by = "relevance"
      <4>1. ~(r[m].score > r[n].score)
        BY <3>2, <3>5 DEF Before
      <4>2. r[n].score >= low[u].score
        BY <2>2, <3>3, <3>4, <4>1
      <4> QED BY <2>16, <3>5, <4>2
    <3>6. CASE answer.by = "frequency"
      <4>1. ~(r[m].frequency > r[n].frequency)
        BY <3>2, <3>6 DEF Before
      <4>2. r[n].frequency >= low[u].frequency
        BY <2>2, <3>3, <3>4, <4>1
      <4> QED BY <2>16, <3>6, <4>2
    <3> QED BY <3>5, <3>6
  <2> QED BY <2>16, <2>18 DEF hits
<1> QED BY <1>1, SearchHolds, StorageHolds, PTL

-----------------------------------------------------------------------------
(* Sums over a bag, and places in a flattened sequence *)

\* The function by which BagCardinality sums the values of f.
First(S) == CHOOSE e \in S : TRUE
SumRule(g, f) ==
    g = [S \in SUBSET DOMAIN f |-> IF S = {} THEN 0 ELSE f[First(S)] + g[S \ {First(S)}]]

\* It obeys its rule on the sets of at most k elements.
Parts(D, k) == {S \in SUBSET D : Cardinality(S) <= k}
IsSum(g, f, P) ==
    /\ g \in [P -> Nat]
    /\ \A S \in P : g[S] = IF S = {} THEN 0 ELSE f[First(S)] + g[S \ {First(S)}]

\* A finite set without its first element has one element less.
LEMMA WithoutFirst ==
    ASSUME NEW S, IsFiniteSet(S), S # {}
    PROVE  /\ First(S) \in S /\ IsFiniteSet(S \ {First(S)})
           /\ Cardinality(S) \in Nat \ {0}
           /\ Cardinality(S \ {First(S)}) = Cardinality(S) - 1
<1>1. First(S) \in S
  BY DEF First
<1>2. IsFiniteSet(S \ {First(S)}) /\ Cardinality(S \ {First(S)}) = Cardinality(S) - 1
  BY <1>1, FS_RemoveElement
<1>3. Cardinality(S) \in Nat /\ Cardinality(S) # 0
  BY FS_CardinalityType, FS_EmptySet
<1> QED BY <1>1, <1>2, <1>3

\* There is such a function for every k.
LEMMA PartialSum ==
    ASSUME NEW D, IsFiniteSet(D), NEW f \in [D -> Nat], NEW k \in Nat
    PROVE  \E g : IsSum(g, f, Parts(D, k))
<1> DEFINE Bad == {m \in Nat : ~ \E g : IsSum(g, f, Parts(D, m))}
<1> SUFFICES ASSUME Bad # {} PROVE FALSE
  OBVIOUS
<1>1. /\ Bad \subseteq Nat
      /\ \A m \in Nat : m \notin Bad => \E g : IsSum(g, f, Parts(D, m))
      /\ \A m \in Bad : m \in Nat /\ ~ \E g : IsSum(g, f, Parts(D, m))
  OBVIOUS
<1> HIDE DEF Bad
<1>2. PICK m \in Bad : \A y \in Bad : m <= y
  BY <1>1, LeastNumber
<1>3. m \in Nat /\ ~ \E g : IsSum(g, f, Parts(D, m))
  BY <1>1
<1>4. \A S \in SUBSET D : IsFiniteSet(S) /\ Cardinality(S) \in Nat
  BY FS_Subset, FS_CardinalityType
<1>5. CASE m = 0
  <2> DEFINE g == [S \in Parts(D, 0) |-> 0]
  <2>1. \A S \in Parts(D, 0) : S = {}
    <3>1. ASSUME NEW S \in Parts(D, 0) PROVE S = {}
      <4>1. IsFiniteSet(S) /\ Cardinality(S) = 0
        BY <1>4 DEF Parts
      <4> QED BY <4>1, FS_EmptySet
    <3> QED BY <3>1
  <2>2. IsSum(g, f, Parts(D, 0))
    BY <2>1 DEF IsSum
  <2> QED BY <1>3, <1>5, <2>2
<1>6. CASE m # 0
  <2>1. m - 1 \in Nat /\ ~(m <= m - 1)
    BY <1>3, <1>6
  <2>2. PICK h : IsSum(h, f, Parts(D, m - 1))
    BY <1>1, <1>2, <2>1
  <2>3. /\ h \in [Parts(D, m - 1) -> Nat]
        /\ \A S \in Parts(D, m - 1) : h[S] = IF S = {} THEN 0 ELSE f[First(S)] + h[S \ {First(S)}]
    BY <2>2 DEF IsSum
  <2> DEFINE g == [S \in Parts(D, m) |-> IF S = {} THEN 0 ELSE f[First(S)] + h[S \ {First(S)}]]
  <2>4. ASSUME NEW S \in Parts(D, m), S # {}
        PROVE  First(S) \in D /\ S \ {First(S)} \in Parts(D, m - 1) /\ S \ {First(S)} \in Parts(D, m)
    <3>1. S \in SUBSET D /\ IsFiniteSet(S) /\ Cardinality(S) <= m
      BY <1>4 DEF Parts
    <3>2. /\ First(S) \in S /\ Cardinality(S) \in Nat
          /\ Cardinality(S \ {First(S)}) = Cardinality(S) - 1
      BY <2>4, <3>1, WithoutFirst
    <3>3. Cardinality(S \ {First(S)}) <= m - 1 /\ Cardinality(S \ {First(S)}) <= m
      BY <1>3, <3>1, <3>2
    <3>4. S \ {First(S)} \in SUBSET D /\ First(S) \in D
      BY <3>1, <3>2
    <3> QED BY <3>3, <3>4 DEF Parts
  <2>5. ASSUME NEW S \in Parts(D, m), S # {}
        PROVE  g[S \ {First(S)}] = h[S \ {First(S)}]
    <3> DEFINE R == S \ {First(S)}
    <3>1. R \in Parts(D, m - 1) /\ R \in Parts(D, m)
      BY <2>4, <2>5
    <3> HIDE DEF R
    <3>2. g[R] = IF R = {} THEN 0 ELSE f[First(R)] + h[R \ {First(R)}]
      BY <3>1
    <3>3. h[R] = IF R = {} THEN 0 ELSE f[First(R)] + h[R \ {First(R)}]
      BY <2>3, <3>1
    <3>4. g[R] = h[R]
      BY <3>2, <3>3
    <3> QED BY <3>4 DEF R
  <2>6. g \in [Parts(D, m) -> Nat]
    <3>1. ASSUME NEW S \in Parts(D, m), S # {} PROVE f[First(S)] + h[S \ {First(S)}] \in Nat
      <4>1. f[First(S)] \in Nat /\ h[S \ {First(S)}] \in Nat
        BY <2>3, <2>4, <3>1
      <4> QED BY <4>1
    <3> QED BY <3>1
  <2>7. \A S \in Parts(D, m) : g[S] = IF S = {} THEN 0 ELSE f[First(S)] + g[S \ {First(S)}]
    <3>1. \A S \in Parts(D, m) : g[S] = IF S = {} THEN 0 ELSE f[First(S)] + h[S \ {First(S)}]
      OBVIOUS
    <3> HIDE DEF g
    <3> QED BY <2>5, <3>1
  <2> HIDE DEF g
  <2>8. IsSum(g, f, Parts(D, m))
    BY <2>6, <2>7 DEF IsSum
  <2> QED BY <1>3, <2>8
<1> QED BY <1>5, <1>6

\* BagCardinality is the value of a function that obeys the rule.
LEMMA CardinalityIs ==
    ASSUME NEW D, IsFiniteSet(D), NEW f \in [D -> Nat]
    PROVE  \E g : IsSum(g, f, SUBSET D) /\ BagCardinality(f) = g[D]
<1> DEFINE g == CHOOSE h : SumRule(h, f)
<1>1. BagCardinality(f) = g[DOMAIN f]
  BY Zenon DEF BagCardinality, SumRule, First
<1>2. PICK h : IsSum(h, f, Parts(D, Cardinality(D)))
  BY PartialSum, FS_CardinalityType
<1>3. Parts(D, Cardinality(D)) = SUBSET D
  BY FS_Subset DEF Parts
<1>4. DOMAIN f = D /\ h \in [SUBSET D -> Nat]
      /\ \A S \in SUBSET D : h[S] = IF S = {} THEN 0 ELSE f[First(S)] + h[S \ {First(S)}]
  BY <1>2, <1>3 DEF IsSum
<1>5. SumRule(h, f)
  <2>1. h = [S \in SUBSET D |-> h[S]]
    BY <1>4
  <2>2. [S \in SUBSET D |-> h[S]]
        = [S \in SUBSET D |-> IF S = {} THEN 0 ELSE f[First(S)] + h[S \ {First(S)}]]
    BY <1>4
  <2> QED BY <1>4, <2>1, <2>2 DEF SumRule
<1>6. SumRule(g, f)
  BY <1>5
<1> HIDE DEF g
<1>7. DOMAIN g = SUBSET D
      /\ \A S \in SUBSET D : g[S] = IF S = {} THEN 0 ELSE f[First(S)] + g[S \ {First(S)}]
  <2>1. g = [S \in SUBSET D |-> IF S = {} THEN 0 ELSE f[First(S)] + g[S \ {First(S)}]]
    BY <1>4, <1>6 DEF SumRule
  <2>2. \A k : k = [S \in SUBSET D |-> IF S = {} THEN 0 ELSE f[First(S)] + g[S \ {First(S)}]]
               => DOMAIN k = SUBSET D /\ \A S \in SUBSET D :
                     k[S] = IF S = {} THEN 0 ELSE f[First(S)] + g[S \ {First(S)}]
    OBVIOUS
  <2> QED BY <2>1, <2>2
<1>8. \A S \in SUBSET D : g[S] \in Nat
  <2> DEFINE Bad == {n \in Nat : \E S \in SUBSET D : Cardinality(S) = n /\ g[S] \notin Nat}
  <2>1. \A S \in SUBSET D : IsFiniteSet(S) /\ Cardinality(S) \in Nat
    BY FS_Subset, FS_CardinalityType
  <2>2. /\ Bad \subseteq Nat
        /\ \A n \in Bad : \E S \in SUBSET D : Cardinality(S) = n /\ g[S] \notin Nat
        /\ \A S \in SUBSET D : g[S] \notin Nat => Cardinality(S) \in Bad
    BY <2>1
  <2> HIDE DEF Bad
  <2>3. ASSUME Bad # {} PROVE FALSE
    <3>1. PICK n \in Bad : \A y \in Bad : n <= y
      BY <2>2, <2>3, LeastNumber
    <3>2. PICK S \in SUBSET D : Cardinality(S) = n /\ g[S] \notin Nat
      BY <2>2, <3>1
    <3>3. S # {} /\ g[S] = f[First(S)] + g[S \ {First(S)}]
      BY <1>7, <3>2
    <3>4. /\ First(S) \in S /\ Cardinality(S) \in Nat
          /\ Cardinality(S \ {First(S)}) = Cardinality(S) - 1
      BY <2>1, <3>3, WithoutFirst
    <3>5. S \ {First(S)} \in SUBSET D /\ f[First(S)] \in Nat
      BY <3>4
    <3>6. g[S \ {First(S)}] \in Nat
      BY <2>2, <3>1, <3>2, <3>4, <3>5
    <3> QED BY <3>2, <3>3, <3>5, <3>6
  <2> QED BY <2>2, <2>3
<1>9. g \in [SUBSET D -> Nat]
  <2>1. g = [S \in SUBSET D |-> g[S]]
    BY <1>4, <1>6 DEF SumRule
  <2> QED BY <1>8, <2>1
<1> QED BY <1>1, <1>4, <1>7, <1>9 DEF IsSum

\* A bag holds no more than there is in disjoint sets of at least the sizes of its
\* counts.
LEMMA BagAtMost ==
    ASSUME NEW D, IsFiniteSet(D), NEW f \in [D -> Nat],
           NEW U, IsFiniteSet(U), NEW Z \in [D -> SUBSET U],
           \A e \in D : f[e] <= Cardinality(Z[e]),
           \A e, d \in D : e # d => Z[e] \cap Z[d] = {}
    PROVE  BagCardinality(f) <= Cardinality(U)
<1> DEFINE All(S) == UNION {Z[e] : e \in S}
<1>1. PICK g : IsSum(g, f, SUBSET D) /\ BagCardinality(f) = g[D]
  BY CardinalityIs
<1>2. /\ g \in [SUBSET D -> Nat]
      /\ \A S \in SUBSET D : g[S] = IF S = {} THEN 0 ELSE f[First(S)] + g[S \ {First(S)}]
  BY <1>1 DEF IsSum
<1>3. \A S \in SUBSET D : IsFiniteSet(S) /\ Cardinality(S) \in Nat /\ All(S) \in SUBSET U
  BY FS_Subset, FS_CardinalityType
<1>4. \A V \in SUBSET U : IsFiniteSet(V) /\ Cardinality(V) \in Nat /\ Cardinality(V) <= Cardinality(U)
  BY FS_Subset, FS_CardinalityType
<1> DEFINE Bad == {n \in Nat : \E S \in SUBSET D : Cardinality(S) = n /\ ~(g[S] <= Cardinality(All(S)))}
<1> HIDE DEF All
<1>5. /\ Bad \subseteq Nat
      /\ \A n \in Bad : \E S \in SUBSET D : Cardinality(S) = n /\ ~(g[S] <= Cardinality(All(S)))
      /\ \A S \in SUBSET D : ~(g[S] <= Cardinality(All(S))) => Cardinality(S) \in Bad
  BY <1>3
<1> HIDE DEF Bad
<1>6. ASSUME Bad # {} PROVE FALSE
  <2>1. PICK n \in Bad : \A y \in Bad : n <= y
    BY <1>5, <1>6, LeastNumber
  <2>2. PICK S \in SUBSET D : Cardinality(S) = n /\ ~(g[S] <= Cardinality(All(S)))
    BY <1>5, <2>1
  <2>3. S # {}
    <3>1. ASSUME S = {} PROVE FALSE
      <4>1. g[S] = 0
        BY <1>2, <3>1
      <4>2. Cardinality(All(S)) \in Nat
        BY <1>3, <1>4
      <4> QED BY <2>2, <4>1, <4>2
    <3> QED BY <3>1
  <2> DEFINE e == First(S)
             R == S \ {e}
  <2>4. e \in S /\ Cardinality(S) \in Nat /\ Cardinality(R) = Cardinality(S) - 1
    BY <1>3, <2>3, WithoutFirst
  <2>5. g[S] = f[e] + g[R]
    BY <1>2, <2>3
  <2> HIDE DEF e
  <2>6. R \in SUBSET D /\ e \in D /\ e \notin R
    BY <2>4
  <2>7. g[R] <= Cardinality(All(R))
    BY <1>5, <2>1, <2>2, <2>4, <2>6
  <2>8. All(S) = All(R) \cup Z[e] /\ All(R) \cap Z[e] = {}
    <3>1. S = R \cup {e}
      BY <2>4
    <3>2. All(S) = All(R) \cup Z[e]
      BY <3>1 DEF All
    <3>3. \A d \in R : Z[d] \cap Z[e] = {}
      BY <2>6
    <3> QED BY <3>2, <3>3 DEF All
  <2> DEFINE A == All(R)
             B == Z[e]
  <2>9. A \in SUBSET U /\ B \in SUBSET U /\ A \cap B = {} /\ All(S) = A \cup B
    BY <1>3, <2>6, <2>8
  <2>10. f[e] <= Cardinality(B) /\ g[R] <= Cardinality(A) /\ f[e] \in Nat /\ g[R] \in Nat
    BY <1>2, <2>6, <2>7
  <2> HIDE DEF A, B
  <2>12. IsFiniteSet(A) /\ IsFiniteSet(B) /\ Cardinality(A) \in Nat /\ Cardinality(B) \in Nat
    BY <1>4, <2>9
  <2>11. Cardinality(A \cup B) = Cardinality(A) + Cardinality(B)
    <3>1. Cardinality(A \cup B) = Cardinality(A) + Cardinality(B) - Cardinality(A \cap B)
      BY <2>12, FS_Union
    <3>2. Cardinality(A \cap B) = 0
      BY <2>9, FS_EmptySet
    <3> QED BY <2>12, <3>1, <3>2
  <2> QED BY <2>2, <2>5, <2>9, <2>10, <2>11, <2>12
<1>7. g[D] <= Cardinality(All(D))
  BY <1>5, <1>6
<1>8. Cardinality(All(D)) <= Cardinality(U) /\ Cardinality(All(D)) \in Nat /\ Cardinality(U) \in Nat
  BY <1>3, <1>4
<1>9. g[D] \in Nat
  BY <1>2
<1> QED BY <1>1, <1>7, <1>8, <1>9

\* What has been concatenated stays where it is.
LEMMA Grows ==
    ASSUME NEW T, NEW s \in Seq(Seq(T)), NEW m \in 1..Len(s), NEW f, Flattens(f, s, m, T),
           NEW j \in 1..m, NEW k \in j..m
    PROVE  Len(f[j]) <= Len(f[k]) /\ \A i \in 1..Len(f[j]) : f[k][i] = f[j][i]
<1> DEFINE Good(l) == Len(f[j]) <= Len(f[l]) /\ \A i \in 1..Len(f[j]) : f[l][i] = f[j][i]
           Bad == {l \in j..m : ~Good(l)}
<1> SUFFICES ASSUME Bad # {} PROVE FALSE
  OBVIOUS
<1>1. m \in Nat /\ j \in Nat /\ j >= 1 /\ m <= Len(s) /\ Len(s) \in Nat
  OBVIOUS
<1>2. Bad \subseteq Nat /\ (\A l \in j..m : l \notin Bad => Good(l)) /\ (\A l \in Bad : l \in j..m /\ ~Good(l))
  BY <1>1
<1> HIDE DEF Bad
<1>3. PICK l \in Bad : \A y \in Bad : l <= y
  BY <1>2, LeastNumber
<1>4. l \in j..m /\ ~Good(l)
  BY <1>2
<1>5. f \in [1..m -> Seq(T)] /\ \A i \in 1..m : f[i] = IF i = 1 THEN s[i] ELSE f[i - 1] \o s[i]
  BY DEF Flattens, IsFlatten
<1>6. Good(j)
  <2>1. Len(f[j]) \in Nat
    BY <1>5
  <2> QED BY <2>1
<1>7. l # j /\ l - 1 \in j..m /\ l \in 1..m /\ l - 1 \in 1..m /\ l # 1 /\ ~(l <= l - 1)
  BY <1>1, <1>4, <1>6
<1>8. Good(l - 1)
  BY <1>2, <1>3, <1>7
<1>9. f[l] = f[l - 1] \o s[l] /\ f[l - 1] \in Seq(T) /\ s[l] \in Seq(T) /\ f[j] \in Seq(T)
  <2>1. l \in 1..Len(s) /\ s[l] \in Seq(T)
    BY <1>1, <1>7
  <2>2. f[l - 1] \in Seq(T) /\ f[j] \in Seq(T)
    BY <1>5, <1>7
  <2>3. f[l] = f[l - 1] \o s[l]
    BY <1>5, <1>7
  <2> QED BY <2>1, <2>2, <2>3
<1>10. /\ Len(f[l]) = Len(f[l - 1]) + Len(s[l])
       /\ \A i \in 1..Len(f[l - 1]) : f[l][i] = f[l - 1][i]
  <2> DEFINE q == f[l - 1]
             r == s[l]
  <2>1. q \in Seq(T) /\ r \in Seq(T) /\ f[l] = q \o r
    BY <1>9
  <2> HIDE DEF q, r
  <2>2. Len(q) \in Nat /\ Len(r) \in Nat
    BY <2>1
  <2>3. /\ Len(f[l]) = Len(q) + Len(r)
        /\ \A i \in 1..(Len(q) + Len(r)) : f[l][i] = IF i <= Len(q) THEN q[i] ELSE r[i - Len(q)]
    BY <2>1, ConcatProperties
  <2>4. \A i \in 1..Len(q) : f[l][i] = q[i]
    BY <2>2, <2>3
  <2> QED BY <2>3, <2>4 DEF q, r
<1>11. Len(f[l - 1]) \in Nat /\ Len(s[l]) \in Nat /\ Len(f[j]) \in Nat
  BY <1>9
<1>12. Good(l)
  <2>1. Len(f[j]) <= Len(f[l])
    <3>1. Len(f[j]) <= Len(f[l - 1])
      BY <1>8
    <3>2. Len(f[l]) = Len(f[l - 1]) + Len(s[l])
      BY <1>10
    <3>3. \A a, b, c \in Nat : a <= b => a <= b + c
      OBVIOUS
    <3> QED BY <1>11, <3>1, <3>2, <3>3, Zenon
  <2>2. ASSUME NEW i \in 1..Len(f[j]) PROVE f[l][i] = f[j][i]
    <3>1. i \in 1..Len(f[l - 1])
      BY <1>8, <1>11
    <3> QED BY <1>8, <1>10, <3>1
  <2> QED BY <2>1, <2>2
<1> QED BY <1>4, <1>12

\* The parts that are not empty begin at places of their own in the whole.
LEMMA Placed ==
    ASSUME NEW T, NEW s \in Seq(Seq(T))
    PROVE  \E at \in [DOMAIN s -> Nat] : \A k \in DOMAIN s : s[k] # <<>> =>
               /\ at[k] \in DOMAIN FlattenSeq(s) /\ FlattenSeq(s)[at[k]] = s[k][1]
               /\ \A j \in DOMAIN s : j # k /\ s[j] # <<>> => at[j] # at[k]
<1> DEFINE m == Len(s)
<1>1. m \in Nat /\ DOMAIN s = 1..m /\ \A k \in 1..m : s[k] \in Seq(T)
  OBVIOUS
<1>2. CASE m = 0
  <2>1. DOMAIN s = {} /\ [k \in DOMAIN s |-> 0] \in [DOMAIN s -> Nat]
    BY <1>1, <1>2
  <2> QED BY <2>1
<1>3. CASE m # 0
  <2>1. PICK f : Flattens(f, s, m, T) /\ FlattenSeq(s) = f[m]
    BY <1>3, FlattenIs
  <2>2. m \in 1..m /\ m \in 1..Len(s)
    BY <1>1, <1>3
  <2> HIDE DEF m
  <2>3. f \in [1..m -> Seq(T)] /\ \A i \in 1..m : f[i] = IF i = 1 THEN s[i] ELSE f[i - 1] \o s[i]
    BY <2>1 DEF Flattens, IsFlatten
  <2> DEFINE at == [k \in 1..m |-> IF k = 1 THEN 1 ELSE Len(f[k - 1]) + 1]
  <2>4. \A k \in 1..m : Len(f[k]) \in Nat /\ Len(s[k]) \in Nat /\ (k # 1 => k - 1 \in 1..m)
    BY <1>1, <2>3
  <2>5. at \in [1..m -> Nat]
    BY <2>4
  <2>6. \A k \in 1..m : at[k] = IF k = 1 THEN 1 ELSE Len(f[k - 1]) + 1
    OBVIOUS
  <2> HIDE DEF at
  <2>7. ASSUME NEW k \in 1..m, s[k] # <<>>
        PROVE  at[k] \in 1..Len(f[k]) /\ f[k][at[k]] = s[k][1]
    <3>1. Len(s[k]) >= 1
      BY <1>1, <2>4, <2>7, EmptySeq
    <3>2. CASE k = 1
      <4>1. at[k] = 1 /\ f[k] = s[k]
        BY <2>3, <2>6, <3>2
      <4> QED BY <2>4, <3>1, <4>1
    <3>3. CASE k # 1
      <4> DEFINE q == f[k - 1]
                 r == s[k]
      <4>1. q \in Seq(T) /\ r \in Seq(T) /\ f[k] = q \o r /\ Len(q) \in Nat /\ Len(r) \in Nat
        BY <1>1, <2>3, <2>4, <3>3
      <4>2. at[k] = Len(q) + 1 /\ Len(r) >= 1
        BY <2>6, <3>1, <3>3
      <4> HIDE DEF q, r
      <4>3. /\ Len(f[k]) = Len(q) + Len(r)
            /\ \A i \in 1..(Len(q) + Len(r)) : f[k][i] = IF i <= Len(q) THEN q[i] ELSE r[i - Len(q)]
        BY <4>1, ConcatProperties
      <4>4. Len(q) + 1 \in 1..(Len(q) + Len(r)) /\ ~(Len(q) + 1 <= Len(q)) /\ Len(q) + 1 - Len(q) = 1
        BY <4>1, <4>2
      <4> QED BY <4>2, <4>3, <4>4 DEF r
    <3> QED BY <3>2, <3>3
  <2>8. ASSUME NEW k \in 1..m, s[k] # <<>>
        PROVE  at[k] \in 1..Len(f[m]) /\ f[m][at[k]] = s[k][1]
    <3>1. m \in k..m
      BY <1>1
    <3>2. Len(f[k]) <= Len(f[m]) /\ \A i \in 1..Len(f[k]) : f[m][i] = f[k][i]
      BY <2>1, <2>2, <3>1, Grows
    <3>3. at[k] \in 1..Len(f[k]) /\ f[k][at[k]] = s[k][1]
      BY <2>7, <2>8
    <3> QED BY <2>2, <2>4, <3>2, <3>3
  <2>9. ASSUME NEW j \in 1..m, NEW k \in 1..m, j < k, s[j] # <<>>, s[k] # <<>>
        PROVE  at[j] < at[k]
    <3>1. k # 1 /\ k - 1 \in j..m /\ k - 1 \in 1..m
      BY <1>1, <2>9
    <3>2. Len(f[j]) <= Len(f[k - 1])
      BY <2>1, <2>2, <3>1, Grows
    <3>3. at[j] \in 1..Len(f[j])
      BY <2>7, <2>9
    <3> QED BY <2>4, <2>6, <3>1, <3>2, <3>3
  <2>10. \A j, k \in 1..m : j # k /\ s[j] # <<>> /\ s[k] # <<>> => at[j] # at[k]
    <3>1. ASSUME NEW j \in 1..m, NEW k \in 1..m, j # k, s[j] # <<>>, s[k] # <<>> PROVE at[j] # at[k]
      <4>1. j < k \/ k < j
        BY <1>1, <3>1
      <4>2. at[j] \in Nat /\ at[k] \in Nat
        BY <2>5
      <4> QED BY <2>9, <3>1, <4>1, <4>2
    <3> QED BY <3>1
  <2>11. DOMAIN f[m] = 1..Len(f[m])
    BY <2>2, <2>3
  <2> QED BY <1>1, <2>1, <2>5, <2>8, <2>10, <2>11
<1> QED BY <1>2, <1>3

-----------------------------------------------------------------------------
(* Rows appended and rows read back *)

\* Does the last line lack its newline?  Then the next write begins over it.
Unfinished(f) == f # <<>> /\ ~Last(f).nl
Base(f) == IF Unfinished(f) THEN Len(f) - 1 ELSE Len(f)

\* Lines that are appended follow what there was; the first may be swallowed.
LEMMA AppendedLines ==
    ASSUME NEW f \in Seq(LineType), NEW ls \in Seq(LineType), ls # <<>>
    PROVE  /\ AppendLines(f, ls) \in Seq(LineType) /\ Base(f) \in 0..Len(f)
           /\ Len(AppendLines(f, ls)) = Base(f) + Len(ls)
           /\ \A p \in 1..Base(f) : AppendLines(f, ls)[p] = f[p]
           /\ \A k \in 1..Len(ls) :
                 /\ AppendLines(f, ls)[Base(f) + k].nl = ls[k].nl
                 /\ k # 1 \/ ~Unfinished(f) => AppendLines(f, ls)[Base(f) + k] = ls[k]
<1>1. AppendLines(f, ls) \in Seq(LineType)
  BY Appended
<1>2. Len(f) \in Nat /\ Len(ls) \in Nat \ {0} /\ (f = <<>> <=> Len(f) = 0)
  BY EmptySeq
<1>3. Base(f) \in 0..Len(f)
  BY <1>2 DEF Base, Unfinished
<1>4. CASE ~Unfinished(f)
  <2>1. AppendLines(f, ls) = f \o ls
    BY <1>4 DEF AppendLines, Unfinished
  <2>2. Base(f) = Len(f)
    BY <1>4 DEF Base
  <2> DEFINE r == AppendLines(f, ls)
  <2>3. /\ Len(r) = Len(f) + Len(ls)
        /\ \A p \in 1..(Len(f) + Len(ls)) : r[p] = IF p <= Len(f) THEN f[p] ELSE ls[p - Len(f)]
    BY <2>1, ConcatProperties
  <2> HIDE DEF r
  <2>4. \A p \in 1..Len(f) : r[p] = f[p]
    BY <1>2, <2>3
  <2>5. ASSUME NEW k \in 1..Len(ls) PROVE r[Len(f) + k] = ls[k]
    <3>1. Len(f) + k \in 1..(Len(f) + Len(ls)) /\ ~(Len(f) + k <= Len(f)) /\ Len(f) + k - Len(f) = k
      BY <1>2
    <3> QED BY <2>3, <3>1
  <2> QED BY <1>1, <1>3, <2>2, <2>3, <2>4, <2>5 DEF r
<1>5. CASE Unfinished(f)
  <2> DEFINE cut == [Head(ls) EXCEPT !.whole = FALSE]
             a == Front(f)
             b == Tail(ls)
             c == a \o <<cut>>
             r == AppendLines(f, ls)
  <2>1. r = c \o b /\ Len(f) # 0
    BY <1>2, <1>5 DEF AppendLines, Unfinished
  <2>2. Base(f) = Len(f) - 1
    BY <1>5 DEF Base
  <2>3. a \in Seq(LineType) /\ Len(a) = Len(f) - 1 /\ \A p \in 1..(Len(f) - 1) : a[p] = f[p]
    <3>1. \A i \in 1..(Len(f) - 1) : f[i] \in LineType
      BY <1>2
    <3> DEFINE n == Len(f) - 1
    <3>2. a = SubSeq(f, 1, n) /\ n \in Nat /\ \A i \in 1..n : f[i] \in LineType
      BY <1>2, <2>1, <3>1 DEF Front
    <3> HIDE DEF a, n
    <3>3. /\ SubSeq(f, 1, n) \in Seq(LineType)
          /\ Len(SubSeq(f, 1, n)) = IF 1 <= n THEN n - 1 + 1 ELSE 0
          /\ \A i \in 1..(n - 1 + 1) : SubSeq(f, 1, n)[i] = f[1 + i - 1]
      BY <3>2, SubSeqProperties
    <3>4. a \in Seq(LineType) /\ Len(a) = n /\ \A i \in 1..n : a[i] = f[i]
      BY <3>2, <3>3
    <3> QED BY <3>4 DEF n
  <2>4. b \in Seq(LineType) /\ Len(b) = Len(ls) - 1 /\ \A k \in 1..(Len(ls) - 1) : b[k] = ls[k + 1]
    BY <1>2, HeadTailProperties
  <2>5. cut \in LineType /\ cut.nl = ls[1].nl
    <3>1. Head(ls) = ls[1] /\ ls[1] \in LineType
      BY <1>2
    <3> QED BY <3>1 DEF LineType
  <2> HIDE DEF a, b, cut
  <2>6. c \in Seq(LineType) /\ Len(c) = Len(f) /\ c[Len(f)] = cut
        /\ \A p \in 1..(Len(f) - 1) : c[p] = f[p]
    <3>1. <<cut>> \in Seq(LineType) /\ Len(<<cut>>) = 1 /\ <<cut>>[1] = cut
      BY <2>5
    <3> DEFINE d == <<cut>>
    <3>2. d \in Seq(LineType) /\ Len(d) = 1 /\ d[1] = cut /\ c = a \o d
      BY <3>1
    <3> HIDE DEF d, c
    <3>3. /\ c \in Seq(LineType) /\ Len(c) = Len(a) + Len(d)
          /\ \A p \in 1..(Len(a) + Len(d)) : c[p] = IF p <= Len(a) THEN a[p] ELSE d[p - Len(a)]
      BY <2>3, <3>2, ConcatProperties
    <3>4. Len(c) = Len(f)
      BY <1>2, <2>3, <3>2, <3>3
    <3>5. c[Len(f)] = cut
      <4>1. Len(f) \in 1..(Len(a) + Len(d)) /\ ~(Len(f) <= Len(a)) /\ Len(f) - Len(a) = 1
        BY <1>2, <2>1, <2>3, <3>2
      <4> QED BY <3>2, <3>3, <4>1
    <3>6. ASSUME NEW p \in 1..(Len(f) - 1) PROVE c[p] = f[p]
      <4>1. p \in 1..(Len(a) + Len(d)) /\ p <= Len(a)
        BY <1>2, <2>3, <3>2
      <4> QED BY <2>3, <3>3, <4>1
    <3> QED BY <3>3, <3>4, <3>5, <3>6
  <2> HIDE DEF c, r
  <2>7. /\ Len(r) = Len(c) + Len(b)
        /\ \A p \in 1..(Len(c) + Len(b)) : r[p] = IF p <= Len(c) THEN c[p] ELSE b[p - Len(c)]
    BY <2>1, <2>4, <2>6, ConcatProperties
  <2>8. Len(r) = Base(f) + Len(ls)
    BY <1>2, <2>2, <2>4, <2>6, <2>7
  <2>9. ASSUME NEW p \in 1..Base(f) PROVE r[p] = f[p]
    <3>1. p \in 1..(Len(f) - 1) /\ p \in 1..(Len(c) + Len(b)) /\ p <= Len(c)
      BY <1>2, <2>2, <2>4, <2>6
    <3> QED BY <2>6, <2>7, <3>1
  <2>10. ASSUME NEW k \in 1..Len(ls), k # 1 PROVE r[Base(f) + k] = ls[k]
    <3>1. /\ Base(f) + k \in 1..(Len(c) + Len(b)) /\ ~(Base(f) + k <= Len(c))
          /\ (Base(f) + k) - Len(c) = k - 1 /\ k - 1 \in 1..(Len(ls) - 1) /\ k - 1 + 1 = k
      BY <1>2, <2>1, <2>2, <2>4, <2>6, <2>10
    <3> DEFINE p == Base(f) + k
    <3>4. p \in 1..(Len(c) + Len(b)) /\ ~(p <= Len(c)) /\ p - Len(c) = k - 1
      BY <3>1
    <3> HIDE DEF p
    <3>5. r[p] = b[k - 1]
      BY <2>7, <3>4
    <3>2. r[Base(f) + k] = b[k - 1]
      BY <3>5 DEF p
    <3>3. b[k - 1] = ls[k]
      BY <2>4, <3>1
    <3> QED BY <3>2, <3>3
  <2>11. r[Base(f) + 1].nl = ls[1].nl
    <3>1. Base(f) + 1 = Len(f) /\ Len(f) \in 1..(Len(c) + Len(b)) /\ Len(f) <= Len(c)
      BY <1>2, <2>1, <2>2, <2>4, <2>6
    <3> QED BY <2>5, <2>6, <2>7, <3>1
  <2>12. \A k \in 1..Len(ls) : r[Base(f) + k].nl = ls[k].nl
    BY <2>10, <2>11
  <2> QED BY <1>1, <1>3, <1>5, <2>8, <2>9, <2>10, <2>12 DEF r
<1> QED BY <1>4, <1>5

\* A line with its newline stays where it is.
LEMMA FinishedStays ==
    ASSUME NEW f \in Seq(LineType), NEW ls \in Seq(LineType), NEW p \in 1..Len(f), f[p].nl
    PROVE  p \in 1..Len(AppendLines(f, ls)) /\ AppendLines(f, ls)[p] = f[p]
           /\ (ls # <<>> => p \in 1..Base(f))
<1>1. CASE ls = <<>>
  <2>1. AppendLines(f, ls) = f \o <<>>
    BY <1>1 DEF AppendLines
  <2>2. f \o <<>> = f
    BY ConcatEmptySeq
  <2> QED BY <1>1, <2>1, <2>2
<1>2. CASE ls # <<>>
  <2>1. Len(f) \in Nat /\ Len(ls) \in Nat
    OBVIOUS
  <2>2. Unfinished(f) => p # Len(f)
    BY DEF Unfinished, Last
  <2>3. p \in 1..Base(f)
    BY <2>1, <2>2 DEF Base
  <2>4. /\ Base(f) \in 0..Len(f) /\ Len(AppendLines(f, ls)) = Base(f) + Len(ls)
        /\ \A q \in 1..Base(f) : AppendLines(f, ls)[q] = f[q]
    BY <1>2, AppendedLines
  <2> HIDE DEF Base
  <2>5. p \in 1..Len(AppendLines(f, ls))
    BY <2>1, <2>3, <2>4
  <2> QED BY <2>3, <2>4, <2>5
<1> QED BY <1>1, <1>2

\* A row is written as a line that is whole.
LEMMA LineIs == \A row : Line(row).row = row /\ Line(row).whole /\ Line(row).nl
BY DEF Line

\* Places in a sequence are finitely many.
LEMMA PlacesFinite ==
    ASSUME NEW n \in Nat, NEW S, S \subseteq 1..n
    PROVE  IsFiniteSet(S) /\ Cardinality(S) \in Nat
<1>1. IsFiniteSet(1..n)
  BY FS_Interval
<1>2. IsFiniteSet(S)
  BY <1>1, FS_Subset
<1> QED BY <1>2, FS_CardinalityType

\* Every row appended, but for those at the places in lost, is read from a line of
\* its own that is whole and ends with its newline.
Kept(lost, at) ==
    /\ lost \subseteq DOMAIN stored /\ at \in [DOMAIN stored -> Nat]
    /\ \A n \in DOMAIN stored \ lost :
          /\ at[n] \in DOMAIN file /\ file[at[n]] = Line(stored[n])
          /\ \A k \in DOMAIN stored \ lost : k # n => at[k] # at[n]

\* A write that was cut short has cost a row, or its unfinished line will.
RowsInv ==
    \E lost, at : /\ Kept(lost, at)
                  /\ Cardinality(lost) + (IF Unfinished(file) THEN 1 ELSE 0) <= tornWrites

\* Nothing is lost while nothing was stored.
LEMMA NothingStored ==
    stored = <<>> /\ file = <<>> /\ tornWrites \in Nat => RowsInv
<1> SUFFICES ASSUME stored = <<>>, file = <<>>, tornWrites \in Nat PROVE RowsInv
  OBVIOUS
<1>1. DOMAIN stored = {}
  OBVIOUS
<1> DEFINE at == [n \in DOMAIN stored |-> 0]
<1>2. Kept({}, at)
  BY <1>1 DEF Kept
<1>3. Cardinality({}) + (IF Unfinished(file) THEN 1 ELSE 0) <= tornWrites
  BY FS_EmptySet DEF Unfinished
<1> QED BY <1>2, <1>3 DEF RowsInv

\* A batch that is written in full costs the row that an unfinished line swallows,
\* and leaves no unfinished line.
LEMMA RowsAppended ==
    ASSUME StorageInv, RowsInv, NEW i \in Indexers, AppendPostingsToFile(i)
    PROVE  RowsInv'
<1> DEFINE rows == pending[i]
           n0 == Len(stored)
           ls == Lines(rows)
<1>1. /\ ipc[i] = "write" /\ UNCHANGED tornWrites
      /\ \/ file' = AppendLines(file, ls) /\ stored' = stored \o rows
         \/ UNCHANGED <<file, stored>>
  BY DEF AppendPostingsToFile
<1>2. CASE UNCHANGED <<file, stored>>
  BY <1>1, <1>2 DEF RowsInv, Kept
<1>3. CASE file' = AppendLines(file, ls) /\ stored' = stored \o rows
  <2>1. rows \in Seq(RowType) /\ stored \in Seq(RowType) /\ file \in Seq(LineType)
        /\ tornWrites \in Nat /\ rows # <<>>
    BY <1>1 DEF StorageInv, StorageTypes, Flushing
  <2>2. ls \in Seq(LineType) /\ Len(ls) = Len(rows) /\ \A k \in 1..Len(rows) : ls[k] = Line(rows[k])
    <3>1. ls \in Seq(LineType)
      BY <2>1, LinesOfRows
    <3>2. DOMAIN rows = 1..Len(rows) /\ Len(rows) \in Nat
      BY <2>1
    <3>3. ls = [k \in 1..Len(rows) |-> Line(rows[k])]
      BY <3>2 DEF Lines
    <3> QED BY <3>1, <3>2, <3>3
  <2>3. n0 \in Nat /\ DOMAIN stored = 1..n0 /\ Len(rows) \in Nat \ {0}
        /\ Len(file) \in Nat /\ DOMAIN file = 1..Len(file)
    BY <2>1, EmptySeq
  <2> HIDE DEF ls, rows, n0
  <2>4. ls # <<>>
    BY <2>2, <2>3, EmptySeq
  <2>5. PICK lost, at : /\ Kept(lost, at)
                        /\ Cardinality(lost) + (IF Unfinished(file) THEN 1 ELSE 0) <= tornWrites
    BY DEF RowsInv
  <2>6. /\ lost \subseteq 1..n0 /\ at \in [1..n0 -> Nat]
        /\ \A n \in (1..n0) \ lost :
              /\ at[n] \in 1..Len(file) /\ file[at[n]] = Line(stored[n])
              /\ \A k \in (1..n0) \ lost : k # n => at[k] # at[n]
    BY <2>3, <2>5 DEF Kept
  <2> DEFINE base == Base(file)
             new == AppendLines(file, ls)
  <2>7. /\ new \in Seq(LineType) /\ base \in 0..Len(file) /\ Len(new) = base + Len(rows)
        /\ \A p \in 1..base : new[p] = file[p]
        /\ \A k \in 1..Len(rows) : new[base + k].nl = ls[k].nl
                                   /\ (k # 1 \/ ~Unfinished(file) => new[base + k] = ls[k])
    <3>1. /\ AppendLines(file, ls) \in Seq(LineType) /\ Base(file) \in 0..Len(file)
          /\ Len(AppendLines(file, ls)) = Base(file) + Len(ls)
          /\ \A p \in 1..Base(file) : AppendLines(file, ls)[p] = file[p]
          /\ \A k \in 1..Len(ls) :
                /\ AppendLines(file, ls)[Base(file) + k].nl = ls[k].nl
                /\ k # 1 \/ ~Unfinished(file) => AppendLines(file, ls)[Base(file) + k] = ls[k]
      BY <2>1, <2>2, <2>4, AppendedLines
    <3> QED BY <2>2, <3>1
  <2>8. \A n \in (1..n0) \ lost : at[n] \in 1..base
    <3>1. ASSUME NEW n \in (1..n0) \ lost PROVE at[n] \in 1..base
      <4>1. at[n] \in 1..Len(file) /\ file[at[n]].nl
        BY <2>6, LineIs
      <4> QED BY <2>1, <2>2, <2>4, <4>1, FinishedStays
    <3> QED BY <3>1
  <2> HIDE DEF base, new
  <2>9. /\ Len(stored') = n0 + Len(rows) /\ DOMAIN stored' = 1..(n0 + Len(rows))
        /\ \A n \in 1..(n0 + Len(rows)) : stored'[n] = IF n <= n0 THEN stored[n] ELSE rows[n - n0]
    <3>1. stored' = stored \o rows
      BY <1>3 DEF rows
    <3>2. /\ Len(stored \o rows) = Len(stored) + Len(rows)
          /\ stored \o rows \in Seq(RowType)
          /\ \A n \in 1..(Len(stored) + Len(rows)) :
                (stored \o rows)[n] = IF n <= Len(stored) THEN stored[n] ELSE rows[n - Len(stored)]
      BY <2>1, ConcatProperties
    <3>3. DOMAIN (stored \o rows) = 1..Len(stored \o rows)
      BY <3>2
    <3> QED BY <3>1, <3>2, <3>3 DEF n0
  <2> DEFINE lost2 == lost \cup (IF Unfinished(file) THEN {n0 + 1} ELSE {})
             at2 == [n \in 1..(n0 + Len(rows)) |-> IF n <= n0 THEN at[n] ELSE base + (n - n0)]
  <2>10. file' = new /\ DOMAIN new = 1..(base + Len(rows))
    BY <1>3, <2>7 DEF new, ls, rows
  <2>11. ASSUME NEW n \in (1..(n0 + Len(rows))) \ lost2
         PROVE  \/ n \in (1..n0) \ lost /\ at2[n] = at[n] /\ at[n] \in 1..base
                \/ /\ n - n0 \in 1..Len(rows) /\ ~(n <= n0) /\ at2[n] = base + (n - n0)
                   /\ (n - n0 # 1 \/ ~Unfinished(file))
    BY <2>3, <2>6, <2>8
  <2>12. \A n \in (1..(n0 + Len(rows))) \ lost2 :
            at2[n] \in 1..(base + Len(rows)) /\ new[at2[n]] = Line(stored'[n])
    <3>1. ASSUME NEW n \in (1..(n0 + Len(rows))) \ lost2
          PROVE  at2[n] \in 1..(base + Len(rows)) /\ new[at2[n]] = Line(stored'[n])
      <4> HIDE DEF lost2, at2
      <4>1. CASE n \in (1..n0) \ lost /\ at2[n] = at[n] /\ at[n] \in 1..base
        <5>1. file[at[n]] = Line(stored[n]) /\ new[at[n]] = file[at[n]]
          BY <2>6, <2>7, <4>1
        <5>2. stored'[n] = stored[n] /\ at[n] \in 1..(base + Len(rows))
          BY <2>3, <2>7, <2>9, <4>1
        <5> QED BY <4>1, <5>1, <5>2
      <4>2. CASE /\ n - n0 \in 1..Len(rows) /\ ~(n <= n0) /\ at2[n] = base + (n - n0)
                 /\ (n - n0 # 1 \/ ~Unfinished(file))
        <5> DEFINE k == n - n0
        <5>1. k \in 1..Len(rows) /\ (k # 1 \/ ~Unfinished(file)) /\ at2[n] = base + k
              /\ stored'[n] = rows[k]
          BY <2>9, <4>2
        <5> HIDE DEF k
        <5>2. new[base + k] = Line(rows[k])
          BY <2>2, <2>7, <5>1
        <5>3. base + k \in 1..(base + Len(rows))
          BY <2>3, <2>7, <5>1
        <5> QED BY <5>1, <5>2, <5>3
      <4> QED BY <2>11, <3>1, <4>1, <4>2
    <3> QED BY <3>1
  <2>13. \A n, k \in (1..(n0 + Len(rows))) \ lost2 : k # n => at2[k] # at2[n]
    <3>1. ASSUME NEW n \in (1..(n0 + Len(rows))) \ lost2, NEW k \in (1..(n0 + Len(rows))) \ lost2, k # n
          PROVE  at2[k] # at2[n]
      <4> HIDE DEF lost2, at2
      <4>1. base \in Nat /\ n \in Nat /\ k \in Nat
        BY <2>3, <2>7
      <4>2. CASE n \in (1..n0) \ lost /\ at2[n] = at[n] /\ at[n] \in 1..base
        <5>1. CASE k \in (1..n0) \ lost /\ at2[k] = at[k] /\ at[k] \in 1..base
          BY <2>6, <3>1, <4>2, <5>1
        <5>2. CASE k - n0 \in 1..Len(rows) /\ ~(k <= n0) /\ at2[k] = base + (k - n0)
          BY <4>1, <4>2, <5>2
        <5> QED BY <2>11, <5>1, <5>2
      <4>3. CASE n - n0 \in 1..Len(rows) /\ ~(n <= n0) /\ at2[n] = base + (n - n0)
        <5>1. CASE k \in (1..n0) \ lost /\ at2[k] = at[k] /\ at[k] \in 1..base
          BY <4>1, <4>3, <5>1
        <5>2. CASE k - n0 \in 1..Len(rows) /\ ~(k <= n0) /\ at2[k] = base + (k - n0)
          BY <2>3, <3>1, <4>1, <4>3, <5>2
        <5> QED BY <2>11, <5>1, <5>2
      <4> QED BY <2>11, <4>2, <4>3
    <3> QED BY <3>1
  <2>14. /\ lost2 \subseteq DOMAIN stored' /\ at2 \in [DOMAIN stored' -> Nat]
         /\ \A n \in DOMAIN stored' \ lost2 :
               /\ at2[n] \in DOMAIN file' /\ file'[at2[n]] = Line(stored'[n])
               /\ \A k \in DOMAIN stored' \ lost2 : k # n => at2[k] # at2[n]
    <3>1. lost2 \subseteq 1..(n0 + Len(rows)) /\ at2 \in [1..(n0 + Len(rows)) -> Nat]
      <4>1. \A n \in 1..(n0 + Len(rows)) : ~(n <= n0) => base + (n - n0) \in Nat
        BY <2>3, <2>7
      <4>2. \A n \in 1..(n0 + Len(rows)) : n <= n0 => at[n] \in Nat
        BY <2>3, <2>6
      <4>3. n0 + 1 \in 1..(n0 + Len(rows)) /\ 1..n0 \subseteq 1..(n0 + Len(rows))
        BY <2>3
      <4> QED BY <2>6, <4>1, <4>2, <4>3
    <3> HIDE DEF lost2, at2
    <3> QED BY <2>9, <2>10, <2>12, <2>13, <3>1
  <2>15. ~Unfinished(new)
    <3> DEFINE m == Len(rows)
    <3>1. m \in 1..Len(rows) /\ Len(new) = base + m
      BY <2>3, <2>7
    <3>2. ls[m].nl
      BY <2>2, <3>1, LineIs
    <3>3. new[base + m].nl
      BY <2>7, <3>1, <3>2
    <3>4. Last(new) = new[base + m]
      BY <3>1 DEF Last
    <3> QED BY <3>3, <3>4 DEF Unfinished
  <2>16. Cardinality(lost2) <= tornWrites
    <3>1. IsFiniteSet(1..n0)
      BY <2>3, FS_Interval
    <3>2. IsFiniteSet(lost) /\ Cardinality(lost) \in Nat
      BY <2>6, <3>1, FS_Subset, FS_CardinalityType
    <3>3. CASE Unfinished(file)
      <4>1. lost2 = lost \cup {n0 + 1}
        BY <3>3
      <4>2. Cardinality(lost2) <= Cardinality(lost) + 1
        <5>1. Cardinality(lost \cup {n0 + 1})
              = IF n0 + 1 \in lost THEN Cardinality(lost) ELSE Cardinality(lost) + 1
          BY <3>2, FS_AddElement
        <5> HIDE DEF lost2
        <5> QED BY <3>2, <4>1, <5>1
      <4> HIDE DEF lost2
      <4>3. Cardinality(lost) + 1 <= tornWrites
        BY <2>5, <3>3
      <4>4. Cardinality(lost2) \in Nat
        <5>1. IsFiniteSet(lost2)
          BY <3>2, <4>1, FS_AddElement
        <5> QED BY <5>1, FS_CardinalityType
      <4> QED BY <2>1, <3>2, <4>2, <4>3, <4>4
    <3>4. CASE ~Unfinished(file)
      <4>1. lost2 = lost
        BY <3>4
      <4> HIDE DEF lost2
      <4> QED BY <2>1, <2>5, <3>2, <3>4, <4>1
    <3> QED BY <3>3, <3>4
  <2>17. Cardinality(lost2) + (IF Unfinished(file') THEN 1 ELSE 0) <= tornWrites'
    <3>1. IsFiniteSet(1..(n0 + Len(rows)))
      BY <2>3, FS_Interval
    <3> HIDE DEF lost2, at2
    <3>2. Cardinality(lost2) \in Nat
      BY <2>9, <2>14, <3>1, FS_Subset, FS_CardinalityType
    <3> QED BY <1>1, <2>10, <2>15, <2>16, <3>2
  <2> HIDE DEF lost2, at2
  <2>18. PICK l, a : l = lost2 /\ a = at2
    OBVIOUS
  <2>19. Kept(l, a)' /\ Cardinality(l) + (IF Unfinished(file') THEN 1 ELSE 0) <= tornWrites'
    BY <2>14, <2>17, <2>18 DEF Kept
  <2> QED BY <2>19 DEF RowsInv
<1> QED BY <1>1, <1>2, <1>3

\* The end of the process leaves the lines with their newline, and may leave an
\* unfinished one.
LEMMA RowsTorn ==
    ASSUME StorageInv, RowsInv, Restart
    PROVE  RowsInv'
<1>1. /\ stored' = stored
      /\ \/ file' = file /\ tornWrites' \in {tornWrites, tornWrites + 1}
         \/ \E i \in Indexers : file' \in TornFiles(i) /\ tornWrites' = tornWrites + 1
  BY DEF Restart
<1>2. stored \in Seq(RowType) /\ file \in Seq(LineType) /\ tornWrites \in Nat
      /\ \A i \in Indexers : pending[i] \in Seq(RowType)
  BY DEF StorageInv, StorageTypes
<1>3. PICK lost, at : /\ Kept(lost, at)
                      /\ Cardinality(lost) + (IF Unfinished(file) THEN 1 ELSE 0) <= tornWrites
  BY DEF RowsInv
<1>4. Cardinality(lost) \in Nat
  <2> DEFINE n == Len(stored)
  <2>1. n \in Nat /\ lost \subseteq 1..n
    BY <1>2, <1>3 DEF Kept
  <2> HIDE DEF n
  <2> QED BY <2>1, PlacesFinite
<1>5. CASE file' = file
  <2>1. Kept(lost, at)'
    BY <1>1, <1>3, <1>5 DEF Kept
  <2>2. Cardinality(lost) + (IF Unfinished(file') THEN 1 ELSE 0) <= tornWrites'
    <3>1. tornWrites' \in {tornWrites, tornWrites + 1}
      BY <1>1
    <3>2. Unfinished(file') = Unfinished(file)
      BY <1>5
    <3> QED BY <1>2, <1>3, <1>4, <3>1, <3>2
  <2> QED BY <2>1, <2>2 DEF RowsInv
<1>6. CASE \E i \in Indexers : file' \in TornFiles(i) /\ tornWrites' = tornWrites + 1
  <2>1. PICK ls \in Seq(LineType) : file' = AppendLines(file, ls)
    BY <1>2, <1>6, TornAppends
  <2>2. file' \in Seq(LineType)
    BY <1>2, <2>1, Appended
  <2>3. ASSUME NEW n \in DOMAIN stored \ lost
        PROVE  at[n] \in DOMAIN file' /\ file'[at[n]] = Line(stored[n])
    <3>1. at[n] \in 1..Len(file) /\ file[at[n]] = Line(stored[n])
      BY <1>2, <1>3 DEF Kept
    <3>2. file[at[n]].nl
      BY <3>1, LineIs
    <3>3. at[n] \in 1..Len(file') /\ file'[at[n]] = file[at[n]]
      BY <1>2, <2>1, <3>1, <3>2, FinishedStays
    <3> QED BY <2>2, <3>1, <3>3
  <2>4. Kept(lost, at)'
    BY <1>1, <1>3, <2>3 DEF Kept
  <2>5. Cardinality(lost) + (IF Unfinished(file') THEN 1 ELSE 0) <= tornWrites'
    <3>1. tornWrites' = tornWrites + 1 /\ Cardinality(lost) <= tornWrites
      BY <1>2, <1>3, <1>4, <1>6
    <3> QED BY <1>2, <1>4, <3>1
  <2> QED BY <2>4, <2>5 DEF RowsInv
<1> QED BY <1>1, <1>5, <1>6

\* The rows appended are lost as a whole when p.data is removed; nothing else
\* touches them.
LEMMA RowsStep == StorageInv /\ RowsInv /\ [Next]_vars => RowsInv'
<1> SUFFICES ASSUME StorageInv, RowsInv, [Next]_vars PROVE RowsInv'
  OBVIOUS
<1>1. CASE UNCHANGED <<stored, file, tornWrites>>
  BY <1>1 DEF RowsInv, Kept
<1>2. ASSUME NEW i \in Indexers, StartCrawl(i) PROVE RowsInv'
  <2>1. stored' = <<>> /\ file' = <<>> /\ tornWrites' \in Nat
    BY <1>2 DEF StartCrawl, StorageInv, StorageTypes
  <2>2. (stored = <<>> /\ file = <<>> /\ tornWrites \in Nat => RowsInv)'
    BY NothingStored, PTL
  <2> QED BY <2>1, <2>2
<1>3. ASSUME NEW i \in Indexers, AppendPostingsToFile(i) PROVE RowsInv'
  BY <1>3, RowsAppended
<1>4. CASE Restart
  BY <1>4, RowsTorn
<1>5. ASSUME NEW i \in Indexers,
             \/ ResumeCrawl(i) \/ CloseEmpty(i) \/ SavePostingsBatch(i) \/ OpenPData(i)
             \/ \E p \in Pages : AddDocument(i, p)
             \/ \E last \in BOOLEAN : FlushRest(i, last)
      PROVE  RowsInv'
  BY <1>1, <1>5 DEF ResumeCrawl, CloseEmpty, SavePostingsBatch, OpenPData, AddDocument, FlushRest, diskVars
<1>6. CASE Lookup \/ (\E q \in Queries : SearchBegin(q))
           \/ (\E sortBy \in {"relevance", "depth", "frequency"} : SearchReturn(sortBy)) \/ UNCHANGED vars
  BY <1>1, <1>6 DEF Lookup, SearchBegin, SearchReturn, vars, diskVars
<1> QED BY <1>2, <1>3, <1>4, <1>5, <1>6 DEF Next

\* The rows of one kind that are lost are at most those at the places in lost.
LEMMA RowsOfKind ==
    ASSUME StorageInv, NEW lost, NEW at, Kept(lost, at), NEW row \in Range(stored)
    PROVE  Cardinality({n \in DOMAIN stored : stored[n] = row})
             <= Cardinality({n \in DOMAIN LoadPostingsFromFile : LoadPostingsFromFile[n] = row})
                  + Cardinality({n \in lost : stored[n] = row})
<1> DEFINE loaded == LoadPostingsFromFile
           m == Len(stored)
           k == Len(loaded)
           parts == [n \in DOMAIN file |-> IF file[n].whole THEN <<file[n].row>> ELSE <<>>]
<1>1. stored \in Seq(RowType) /\ file \in Seq(LineType)
  BY DEF StorageInv, StorageTypes
<1>2. loaded \in Seq(RowType)
  BY <1>1, Loaded
<1>3. m \in Nat /\ DOMAIN stored = 1..m /\ k \in Nat /\ DOMAIN loaded = 1..k
  BY <1>1, <1>2
<1>4. DOMAIN parts = DOMAIN file /\ parts \in Seq(Seq(RowType)) /\ loaded = FlattenSeq(parts)
  <2>1. DOMAIN file = 1..Len(file) /\ Len(file) \in Nat /\ \A n \in 1..Len(file) : file[n] \in LineType
    BY <1>1
  <2>2. \A line \in LineType : line.row \in RowType
    BY DEF LineType
  <2>3. \A n \in 1..Len(file) : parts[n] \in Seq(RowType)
    BY <2>1, <2>2
  <2>4. parts \in Seq(Seq(RowType))
    BY <2>1, <2>3
  <2> QED BY <2>4 DEF LoadPostingsFromFile
<1>5. \A n \in DOMAIN file : file[n].whole => parts[n] = <<file[n].row>>
  OBVIOUS
<1> HIDE DEF parts, loaded, m, k
<1>6. PICK place \in [DOMAIN parts -> Nat] : \A n \in DOMAIN parts : parts[n] # <<>> =>
          /\ place[n] \in DOMAIN FlattenSeq(parts) /\ FlattenSeq(parts)[place[n]] = parts[n][1]
          /\ \A j \in DOMAIN parts : j # n /\ parts[j] # <<>> => place[j] # place[n]
  BY <1>4, Placed
<1> DEFINE A == {n \in 1..m : stored[n] = row}
           B == {n \in lost : stored[n] = row}
           C == {n \in 1..k : loaded[n] = row}
           f == [n \in A \ B |-> place[at[n]]]
<1>7. lost \subseteq 1..m /\ \A n \in (1..m) \ lost :
         /\ at[n] \in DOMAIN file /\ file[at[n]] = Line(stored[n])
         /\ \A j \in (1..m) \ lost : j # n => at[j] # at[n]
  BY <1>3 DEF Kept
<1>8. \A n \in A \ B : n \in (1..m) \ lost /\ stored[n] = row
  OBVIOUS
<1>9. ASSUME NEW n \in A \ B
      PROVE  at[n] \in DOMAIN parts /\ parts[at[n]] # <<>> /\ parts[at[n]][1] = row
  <2>1. at[n] \in DOMAIN file /\ file[at[n]] = Line(row)
    BY <1>7, <1>8
  <2>2. file[at[n]].whole /\ file[at[n]].row = row
    BY <2>1, LineIs
  <2>3. parts[at[n]] = <<row>>
    BY <1>5, <2>1, <2>2
  <2> QED BY <1>4, <2>1, <2>3
<1>10. \A n \in A \ B : f[n] \in C
  <2>1. ASSUME NEW n \in A \ B PROVE place[at[n]] \in C
    BY <1>3, <1>4, <1>6, <1>9
  <2> QED BY <2>1
<1>11. \A n, j \in A \ B : n # j => f[n] # f[j]
  <2>1. ASSUME NEW n \in A \ B, NEW j \in A \ B, n # j PROVE place[at[n]] # place[at[j]]
    <3>1. at[n] # at[j]
      BY <1>7, <1>8, <2>1
    <3> QED BY <1>6, <1>9, <3>1
  <2> QED BY <2>1
<1>12. f \in Injection(A \ B, C)
  <2>1. f \in [A \ B -> C]
    BY <1>10
  <2> HIDE DEF f
  <2> QED BY <1>11, <2>1 DEF Injection, IsInjective
<1>13. /\ A \subseteq 1..m /\ B \subseteq A /\ C \subseteq 1..k
  BY <1>7
<1>14. {n \in DOMAIN stored : stored[n] = row} = A /\ {n \in DOMAIN LoadPostingsFromFile : LoadPostingsFromFile[n] = row} = C
  BY <1>3 DEF loaded
<1> HIDE DEF A, B, C, f
<1>15. IsFiniteSet(A) /\ IsFiniteSet(B) /\ IsFiniteSet(C) /\ IsFiniteSet(A \ B)
  BY <1>3, <1>13, PlacesFinite, FS_Difference
<1>16. Cardinality(A \ B) <= Cardinality(C)
  BY <1>12, <1>15, FS_Injection
<1>17. Cardinality(A \ B) = Cardinality(A) - Cardinality(B)
  <2>1. Cardinality(A \ B) = Cardinality(A) - Cardinality(A \cap B)
    BY <1>15, FS_Difference
  <2>2. A \cap B = B
    BY <1>13
  <2> QED BY <2>1, <2>2
<1>18. Cardinality(A) \in Nat /\ Cardinality(B) \in Nat /\ Cardinality(C) \in Nat
  BY <1>15, FS_CardinalityType
<1>19. Cardinality(A) <= Cardinality(C) + Cardinality(B)
  BY <1>16, <1>17, <1>18
<1> QED BY <1>14, <1>19 DEF B

\* What is missing from p.data was lost to writes that were cut short.
LEMMA FewRowsLost == StorageInv /\ RowsInv => RowsLost
<1> SUFFICES ASSUME StorageInv, RowsInv PROVE RowsLost
  OBVIOUS
<1> DEFINE loaded == LoadPostingsFromFile
           missing == ToBag(stored) (-) ToBag(loaded)
           D == DOMAIN missing
           Here(row) == Cardinality({n \in DOMAIN stored : stored[n] = row})
           There(row) == Cardinality({n \in DOMAIN loaded : loaded[n] = row})
<1>1. stored \in Seq(RowType) /\ loaded \in Seq(RowType) /\ tornWrites \in Nat
  BY Loaded DEF StorageInv, StorageTypes
<1>2. PICK lost, at : /\ Kept(lost, at)
                      /\ Cardinality(lost) + (IF Unfinished(file) THEN 1 ELSE 0) <= tornWrites
  BY DEF RowsInv
<1>3. \A row : Here(row) \in Nat /\ There(row) \in Nat /\ IsFiniteSet({n \in DOMAIN stored : stored[n] = row})
  <2> HIDE DEF loaded
  <2>1. ASSUME NEW q \in Seq(RowType), NEW row
        PROVE  IsFiniteSet({n \in DOMAIN q : q[n] = row}) /\ Cardinality({n \in DOMAIN q : q[n] = row}) \in Nat
    <3> DEFINE n == Len(q)
               S == {j \in DOMAIN q : q[j] = row}
    <3>1. n \in Nat /\ S \subseteq 1..n
      OBVIOUS
    <3> HIDE DEF n, S
    <3>2. IsFiniteSet(S) /\ Cardinality(S) \in Nat
      BY <3>1, PlacesFinite
    <3> QED BY <3>2 DEF S
  <2> QED BY <1>1, <2>1
<1>4. /\ ToBag(stored) = [row \in Range(stored) |-> Here(row)]
      /\ ToBag(loaded) = [row \in Range(loaded) |-> There(row)]
  BY DEF ToBag
<1>5. \A row : row \notin Range(loaded) => There(row) = 0
  <2>1. ASSUME NEW row, row \notin Range(loaded) PROVE There(row) = 0
    <3>1. {n \in DOMAIN loaded : loaded[n] = row} = {}
      BY <2>1 DEF Range
    <3> QED BY <3>1, FS_EmptySet
  <2> QED BY <2>1
<1> HIDE DEF Here, There
<1>6. /\ D \subseteq Range(stored)
      /\ \A row \in D : missing[row] = Here(row) - There(row) /\ missing[row] > 0
      /\ missing = [row \in D |-> missing[row]]
  <2> DEFINE left == [row \in Range(stored) |-> IF row \in Range(loaded) THEN Here(row) - There(row) ELSE Here(row)]
  <2>1. missing = [row \in {r \in Range(stored) : left[r] > 0} |-> left[row]]
    BY <1>4 DEF (-)
  <2>2. \A row \in Range(stored) : left[row] = Here(row) - There(row)
    <3>1. ASSUME NEW row \in Range(stored) PROVE left[row] = Here(row) - There(row)
      <4>1. Here(row) \in Nat /\ There(row) \in Nat
        BY <1>3
      <4>2. CASE row \in Range(loaded)
        BY <4>2
      <4>3. CASE row \notin Range(loaded)
        <5>1. There(row) = 0 /\ left[row] = Here(row)
          BY <1>5, <4>3
        <5> QED BY <4>1, <5>1
      <4> QED BY <4>2, <4>3
    <3> QED BY <3>1
  <2> HIDE DEF left, missing
  <2>3. D = {r \in Range(stored) : left[r] > 0}
    BY <2>1
  <2> QED BY <2>1, <2>2, <2>3
<1> HIDE DEF missing
<1>7. IsFiniteSet(D)
  BY <1>1, <1>6, RangeFinite, FS_Subset
<1>8. missing \in [D -> Nat]
  <2>1. ASSUME NEW row \in D PROVE missing[row] \in Nat
    <3>1. Here(row) \in Nat /\ There(row) \in Nat
      BY <1>3
    <3>2. missing[row] = Here(row) - There(row) /\ missing[row] > 0
      BY <1>6
    <3> QED BY <3>1, <3>2
  <2> QED BY <1>6, <2>1
<1> DEFINE Z == [row \in D |-> {n \in lost : stored[n] = row}]
<1>9. IsFiniteSet(lost) /\ Cardinality(lost) \in Nat
  <2> DEFINE n == Len(stored)
  <2>1. n \in Nat /\ lost \subseteq 1..n
    BY <1>1, <1>2 DEF Kept
  <2> HIDE DEF n
  <2> QED BY <2>1, PlacesFinite
<1>10. Z \in [D -> SUBSET lost] /\ \A e, d \in D : e # d => Z[e] \cap Z[d] = {}
  OBVIOUS
<1>11. ASSUME NEW row \in D PROVE missing[row] <= Cardinality(Z[row])
  <2>1. Here(row) <= There(row) + Cardinality({n \in lost : stored[n] = row})
    BY <1>2, <1>6, RowsOfKind DEF Here, There
  <2>2. Cardinality({n \in lost : stored[n] = row}) \in Nat
    <3>1. {n \in lost : stored[n] = row} \subseteq lost
      OBVIOUS
    <3> QED BY <1>9, <3>1, FS_Subset, FS_CardinalityType
  <2>3. Z[row] = {n \in lost : stored[n] = row}
    OBVIOUS
  <2> HIDE DEF Z
  <2>4. Here(row) \in Nat /\ There(row) \in Nat
    BY <1>3
  <2>5. missing[row] = Here(row) - There(row)
    BY <1>6
  <2> QED BY <2>1, <2>2, <2>3, <2>4, <2>5
<1> HIDE DEF Z
<1>12. BagCardinality(missing) <= Cardinality(lost)
  BY <1>7, <1>8, <1>9, <1>10, <1>11, BagAtMost
<1>13. BagCardinality(missing) \in Nat
  <2>1. PICK g : IsSum(g, missing, SUBSET D) /\ BagCardinality(missing) = g[D]
    BY <1>7, <1>8, CardinalityIs
  <2> QED BY <2>1 DEF IsSum
<1> QED BY <1>1, <1>2, <1>9, <1>12, <1>13 DEF RowsLost, missing

\* RowsLost, for every number of crawls, batches and ends of the process: of the rows
\* appended to p.data since it was removed last, those that a restart does not read
\* back are at most as many as the writes that were cut short.
THEOREM LostRowsAreFew == Spec => []RowsLost
<1>1. Init => RowsInv
  BY NothingStored DEF Init
<1> QED BY <1>1, RowsStep, FewRowsLost, StorageHolds, PTL DEF Spec

-----------------------------------------------------------------------------
(* Sums over sequences *)

\* g gives the sums of the first k numbers of s.
IsTotal(g, s) == g \in [0..Len(s) -> Int] /\ g[0] = 0 /\ \A k \in 1..Len(s) : g[k] = g[k - 1] + s[k]
Total(s) == (CHOOSE g : IsTotal(g, s))[Len(s)]

\* There are sums.
LEMMA TotalExists ==
    ASSUME NEW s \in Seq(Int)
    PROVE  \E g : IsTotal(g, s)
<1> DEFINE F == [x \in Int \X Int |-> x[1] + x[2]]
<1>1. F \in [Int \X Int -> Int] /\ \A a, b \in Int : F[<<a, b>>] = a + b
  OBVIOUS
<1> HIDE DEF F
<1>2. Len(s) \in Nat /\ Len(s) \in 0..Len(s) /\ \A k \in 1..Len(s) : s[k] \in Int
  OBVIOUS
<1>3. 0 \in Int
  OBVIOUS
<1>4. PICK h : IsFold(h, Int, F, 0, s, Len(s))
  BY <1>1, <1>2, <1>3, FoldExists
<1> DEFINE g == [k \in 0..Len(s) |-> h[1..k]]
<1>5. /\ h \in [SUBSET (1..Len(s)) -> Int]
      /\ \A S \in SUBSET (1..Len(s)) :
            h[S] = IF S = {} THEN 0 ELSE F[<<h[S \ {Max(S)}], s[Max(S)]>>]
  BY <1>4 DEF IsFold
<1>6. \A k \in 0..Len(s) : 1..k \in SUBSET (1..Len(s)) /\ h[1..k] \in Int
  <2>1. \A k \in 0..Len(s) : 1..k \in SUBSET (1..Len(s))
    BY <1>2
  <2> QED BY <1>5, <2>1
<1>7. g \in [0..Len(s) -> Int]
  BY <1>6
<1>8. g[0] = 0
  <2>1. 1..0 = {} /\ {} \in SUBSET (1..Len(s)) /\ 0 \in 0..Len(s)
    BY <1>2
  <2> QED BY <1>5, <2>1
<1>9. ASSUME NEW k \in 1..Len(s) PROVE g[k] = g[k - 1] + s[k]
  <2>1. /\ 1..k \in SUBSET (1..Len(s)) /\ 1..k # {} /\ Max(1..k) = k
        /\ (1..k) \ {Max(1..k)} = 1..(k - 1)
    BY <1>2, Prefix
  <2>2. k - 1 \in 0..Len(s) /\ k \in 0..Len(s)
    BY <1>2
  <2>3. g[k] = h[1..k] /\ g[k - 1] = h[1..(k - 1)]
    BY <2>2
  <2> HIDE DEF g
  <2>4. h[1..k] = F[<<h[1..(k - 1)], s[k]>>]
    BY <1>5, <2>1
  <2>5. h[1..(k - 1)] \in Int /\ s[k] \in Int
    BY <1>2, <1>6, <2>2
  <2> QED BY <1>1, <2>3, <2>4, <2>5
<1> HIDE DEF g
<1>10. IsTotal(g, s)
  BY <1>7, <1>8, <1>9 DEF IsTotal
<1> QED BY <1>10

\* Whatever gives the sums gives the total.
LEMMA TotalIs ==
    ASSUME NEW s \in Seq(Int), NEW g, IsTotal(g, s)
    PROVE  Total(s) = g[Len(s)] /\ Total(s) \in Int
<1> DEFINE f == CHOOSE h : IsTotal(h, s)
<1>1. IsTotal(f, s) /\ Total(s) = f[Len(s)]
  BY DEF Total
<1> HIDE DEF f
<1>2. Len(s) \in Nat
  OBVIOUS
<1>3. /\ f \in [0..Len(s) -> Int] /\ f[0] = 0 /\ \A k \in 1..Len(s) : f[k] = f[k - 1] + s[k]
      /\ g \in [0..Len(s) -> Int] /\ g[0] = 0 /\ \A k \in 1..Len(s) : g[k] = g[k - 1] + s[k]
  BY <1>1 DEF IsTotal
<1> DEFINE Bad == {k \in 0..Len(s) : f[k] # g[k]}
<1>4. Bad \subseteq Nat /\ \A k : k \in Bad <=> k \in 0..Len(s) /\ f[k] # g[k]
  OBVIOUS
<1> HIDE DEF Bad
<1>5. ASSUME Bad # {} PROVE FALSE
  <2>1. PICK k \in Bad : \A y \in Bad : k <= y
    BY <1>4, <1>5, LeastNumber
  <2>2. k \in 0..Len(s) /\ f[k] # g[k]
    BY <1>4
  <2>3. k # 0
    BY <1>3, <2>2
  <2>4. k \in 1..Len(s) /\ k - 1 \in 0..Len(s) /\ ~(k <= k - 1)
    BY <1>2, <2>2, <2>3
  <2>5. f[k - 1] = g[k - 1]
    BY <1>4, <2>1, <2>4
  <2>6. f[k] = f[k - 1] + s[k] /\ g[k] = g[k - 1] + s[k]
    BY <1>3, <2>4
  <2> QED BY <2>2, <2>5, <2>6
<1>6. Len(s) \in 0..Len(s)
  BY <1>2
<1>7. f[Len(s)] = g[Len(s)] /\ g[Len(s)] \in Int
  BY <1>3, <1>4, <1>5, <1>6
<1> QED BY <1>1, <1>7

\* A total is a number; that of nothing is 0.
LEMMA TotalInt == \A s \in Seq(Int) : Total(s) \in Int
BY TotalExists, TotalIs

\* A sequence of zeros, apart from one place, has that number as its total.
LEMMA TotalSingle ==
    ASSUME NEW s \in Seq(Int), NEW j \in 1..Len(s), \A k \in 1..Len(s) : k # j => s[k] = 0
    PROVE  Total(s) = s[j]
<1>1. Len(s) \in Nat /\ \A k \in 1..Len(s) : s[k] \in Int
  OBVIOUS
<1> DEFINE g == [k \in 0..Len(s) |-> IF k < j THEN 0 ELSE s[j]]
<1>2. g \in [0..Len(s) -> Int]
  BY <1>1
<1>3. g[0] = 0
  BY <1>1
<1>4. ASSUME NEW k \in 1..Len(s) PROVE g[k] = g[k - 1] + s[k]
  <2>1. k \in 0..Len(s) /\ k - 1 \in 0..Len(s)
    BY <1>1
  <2>2. g[k] = (IF k < j THEN 0 ELSE s[j]) /\ g[k - 1] = (IF k - 1 < j THEN 0 ELSE s[j])
    BY <2>1
  <2> HIDE DEF g
  <2>3. s[j] \in Int /\ s[k] \in Int
    BY <1>1
  <2> QED BY <1>1, <2>2, <2>3
<1>5. Len(s) \in 0..Len(s) /\ ~(Len(s) < j)
  BY <1>1
<1>6. g[Len(s)] = s[j]
  BY <1>5
<1> HIDE DEF g
<1>7. IsTotal(g, s)
  BY <1>2, <1>3, <1>4 DEF IsTotal
<1> QED BY <1>6, <1>7, TotalIs

\* A sequence of zeros has the total 0.
LEMMA TotalZero ==
    ASSUME NEW s \in Seq(Int), \A k \in 1..Len(s) : s[k] = 0
    PROVE  Total(s) = 0
<1>1. Len(s) \in Nat
  OBVIOUS
<1> DEFINE g == [k \in 0..Len(s) |-> 0]
<1>2. IsTotal(g, s)
  BY <1>1 DEF IsTotal
<1>3. g[Len(s)] = 0
  BY <1>1
<1> HIDE DEF g
<1> QED BY <1>2, <1>3, TotalIs

\* The total of two sequences one after the other is the sum of their totals.
LEMMA TotalConcat ==
    ASSUME NEW s \in Seq(Int), NEW t \in Seq(Int)
    PROVE  s \o t \in Seq(Int) /\ Total(s \o t) = Total(s) + Total(t)
<1>1. PICK f : IsTotal(f, s)
  BY TotalExists
<1>2. PICK g : IsTotal(g, t)
  BY TotalExists
<1> DEFINE m == Len(s)
           n == Len(t)
           c == s \o t
           h == [k \in 0..(m + n) |-> IF k <= m THEN f[k] ELSE f[m] + g[k - m]]
<1>3. m \in Nat /\ n \in Nat
  OBVIOUS
<1>4. /\ c \in Seq(Int) /\ Len(c) = m + n
      /\ \A i \in 1..(m + n) : c[i] = IF i <= m THEN s[i] ELSE t[i - m]
  BY ConcatProperties
<1>5. /\ f \in [0..m -> Int] /\ f[0] = 0 /\ \A k \in 1..m : f[k] = f[k - 1] + s[k]
      /\ g \in [0..n -> Int] /\ g[0] = 0 /\ \A k \in 1..n : g[k] = g[k - 1] + t[k]
      /\ Total(s) = f[m] /\ Total(t) = g[n]
  BY <1>1, <1>2, TotalIs DEF IsTotal
<1> HIDE DEF m, n, c
<1>6. \A k \in 0..(m + n) : (k <= m => k \in 0..m) /\ (~(k <= m) => k - m \in 1..n)
  BY <1>3
<1>7. h \in [0..(m + n) -> Int]
  <2>1. \A k \in 0..(m + n) : (k <= m => f[k] \in Int) /\ (~(k <= m) => f[m] + g[k - m] \in Int)
    <3>1. f[m] \in Int /\ \A k \in 0..n : g[k] \in Int
      BY <1>3, <1>5
    <3>2. \A k \in 0..m : f[k] \in Int
      BY <1>5
    <3>3. \A k \in 1..n : k \in 0..n
      BY <1>3
    <3> QED BY <1>6, <3>1, <3>2, <3>3
  <2> QED BY <2>1
<1>8. h[0] = 0
  BY <1>3, <1>5
<1>9. ASSUME NEW k \in 1..(m + n) PROVE h[k] = h[k - 1] + c[k]
  <2>1. k \in 0..(m + n) /\ k - 1 \in 0..(m + n)
    BY <1>3
  <2>2. h[k] = (IF k <= m THEN f[k] ELSE f[m] + g[k - m])
        /\ h[k - 1] = (IF k - 1 <= m THEN f[k - 1] ELSE f[m] + g[(k - 1) - m])
    BY <2>1
  <2> HIDE DEF h
  <2>3. CASE k <= m
    <3>1. k \in 1..m /\ k - 1 <= m
      BY <1>3, <2>3
    <3> QED BY <1>4, <1>5, <2>2, <2>3, <3>1
  <2>4. CASE ~(k <= m) /\ k - 1 <= m
    <3>1. k - 1 = m /\ k - m = 1 /\ 1 \in 1..n /\ 0 \in 0..n /\ 1 - 1 = 0
      BY <1>3, <2>4
    <3>2. c[k] = t[1] /\ g[1] = g[0] + t[1] /\ g[0] = 0
      BY <1>4, <1>5, <2>4, <3>1
    <3>3. h[k] = f[m] + g[1] /\ h[k - 1] = f[m]
      BY <2>2, <2>4, <3>1
    <3>4. t[1] \in Int
      BY <3>1 DEF n
    <3>5. g[1] = t[1]
      BY <3>2, <3>4
    <3> QED BY <3>2, <3>3, <3>5
  <2>5. CASE ~(k - 1 <= m)
    <3>1. ~(k <= m) /\ k - m \in 1..n /\ (k - 1) - m = (k - m) - 1 /\ (k - m) - 1 \in 0..n
      BY <1>3, <2>5
    <3>2. c[k] = t[k - m] /\ g[k - m] = g[(k - m) - 1] + t[k - m]
      BY <1>4, <1>5, <3>1
    <3>3. h[k] = f[m] + g[k - m] /\ h[k - 1] = f[m] + g[(k - m) - 1]
      BY <2>2, <2>5, <3>1
    <3>4. f[m] \in Int /\ g[(k - m) - 1] \in Int /\ t[k - m] \in Int
      <4>1. f[m] \in Int /\ g[(k - m) - 1] \in Int
        BY <1>3, <1>5, <3>1
      <4>2. t[k - m] \in Int
        BY <3>1 DEF n
      <4> QED BY <4>1, <4>2
    <3> QED BY <3>2, <3>3, <3>4
  <2> QED BY <2>3, <2>4, <2>5
<1>10. h[m + n] = f[m] + g[n]
  <2>1. m + n \in 0..(m + n) /\ (m + n <= m => n = 0) /\ (m + n) - m = n
    BY <1>3
  <2>2. h[m + n] = IF m + n <= m THEN f[m + n] ELSE f[m] + g[(m + n) - m]
    BY <2>1
  <2> HIDE DEF h
  <2>3. f[m] \in Int
    BY <1>3, <1>5
  <2>4. CASE m + n <= m
    <3>1. n = 0 /\ m + n = m
      BY <1>3, <2>1, <2>4
    <3> QED BY <1>5, <2>2, <2>3, <2>4, <3>1
  <2>5. CASE ~(m + n <= m)
    BY <2>1, <2>2, <2>5
  <2> QED BY <2>4, <2>5
<1> HIDE DEF h
<1>11. IsTotal(h, c)
  BY <1>4, <1>7, <1>8, <1>9 DEF IsTotal
<1>12. Total(c) = h[m + n]
  BY <1>4, <1>11, TotalIs
<1> QED BY <1>4, <1>5, <1>10, <1>12 DEF c

\* What grows by the numbers of e has in the end grown by their total.
LEMMA Telescope ==
    ASSUME NEW e \in Seq(Int), NEW x, \A k \in 0..Len(e) : x[k] \in Int,
           \A k \in 1..Len(e) : x[k] = x[k - 1] + e[k]
    PROVE  x[Len(e)] = x[0] + Total(e)
<1> DEFINE m == Len(e)
           g == [k \in 0..m |-> x[k] - x[0]]
<1>1. m \in Nat /\ 0 \in 0..m /\ m \in 0..m /\ \A k \in 1..m : e[k] \in Int
  OBVIOUS
<1>2. (\A k \in 0..m : x[k] \in Int) /\ \A k \in 1..m : x[k] = x[k - 1] + e[k]
  OBVIOUS
<1> HIDE DEF m
<1>3. g \in [0..m -> Int] /\ g[0] = 0 /\ g[m] = x[m] - x[0]
  BY <1>1, <1>2
<1>4. ASSUME NEW k \in 1..m PROVE g[k] = g[k - 1] + e[k]
  <2>1. k \in 0..m /\ k - 1 \in 0..m
    BY <1>1
  <2>2. g[k] = x[k] - x[0] /\ g[k - 1] = x[k - 1] - x[0]
    BY <2>1
  <2> HIDE DEF g
  <2>3. x[k] \in Int /\ x[k - 1] \in Int /\ x[0] \in Int /\ e[k] \in Int /\ x[k] = x[k - 1] + e[k]
    BY <1>1, <1>2, <2>1
  <2> QED BY <2>2, <2>3
<1> HIDE DEF g
<1>5. IsTotal(g, e)
  BY <1>3, <1>4 DEF IsTotal, m
<1>6. Total(e) = x[m] - x[0]
  BY <1>3, <1>5, TotalIs DEF m
<1>7. x[m] = x[0] + Total(e)
  BY <1>1, <1>2, <1>6
<1> QED BY <1>7 DEF m

\* Totals are added place by place.
LEMMA TotalAdd ==
    ASSUME NEW a \in Seq(Int), NEW b \in Seq(Int), NEW c \in Seq(Int),
           Len(a) = Len(c), Len(b) = Len(c), \A k \in 1..Len(c) : c[k] = a[k] + b[k]
    PROVE  Total(c) = Total(a) + Total(b)
<1> DEFINE m == Len(c)
<1>1. m \in Nat /\ \A k \in 1..m : c[k] = a[k] + b[k] /\ a[k] \in Int /\ b[k] \in Int
  OBVIOUS
<1>2. PICK f : IsTotal(f, a)
  BY TotalExists
<1>3. PICK g : IsTotal(g, b)
  BY TotalExists
<1>4. /\ f \in [0..m -> Int] /\ f[0] = 0 /\ \A k \in 1..m : f[k] = f[k - 1] + a[k]
      /\ g \in [0..m -> Int] /\ g[0] = 0 /\ \A k \in 1..m : g[k] = g[k - 1] + b[k]
      /\ Total(a) = f[m] /\ Total(b) = g[m]
  BY <1>2, <1>3, TotalIs DEF IsTotal
<1> DEFINE h == [k \in 0..m |-> f[k] + g[k]]
<1> HIDE DEF m
<1>5. h \in [0..m -> Int] /\ h[0] = 0
  BY <1>1, <1>4
<1>6. ASSUME NEW k \in 1..m PROVE h[k] = h[k - 1] + c[k]
  <2>1. k \in 0..m /\ k - 1 \in 0..m
    BY <1>1
  <2>2. h[k] = f[k] + g[k] /\ h[k - 1] = f[k - 1] + g[k - 1]
    BY <2>1
  <2> HIDE DEF h
  <2>3. f[k - 1] \in Int /\ g[k - 1] \in Int
    BY <1>4, <2>1
  <2>4. /\ a[k] \in Int /\ b[k] \in Int /\ c[k] = a[k] + b[k]
        /\ f[k] = f[k - 1] + a[k] /\ g[k] = g[k - 1] + b[k]
    BY <1>1, <1>4
  <2>5. \A x, y, v, z \in Int : (x + v) + (y + z) = (x + y) + (v + z)
    OBVIOUS
  <2>6. (f[k - 1] + a[k]) + (g[k - 1] + b[k]) = (f[k - 1] + g[k - 1]) + (a[k] + b[k])
    BY <2>3, <2>4, <2>5, Zenon
  <2> QED BY <2>2, <2>4, <2>6, Zenon
<1>7. h[m] = f[m] + g[m]
  BY <1>1
<1> HIDE DEF h
<1>8. IsTotal(h, c)
  BY <1>5, <1>6 DEF IsTotal, m
<1> QED BY <1>4, <1>7, <1>8, TotalIs DEF m

\* Numbers that are not negative have a total that is not.
LEMMA TotalNat ==
    ASSUME NEW s \in Seq(Int), \A k \in 1..Len(s) : s[k] >= 0
    PROVE  Total(s) \in Nat
<1>1. PICK g : IsTotal(g, s)
  BY TotalExists
<1>2. /\ Len(s) \in Nat /\ g \in [0..Len(s) -> Int] /\ g[0] = 0
      /\ \A k \in 1..Len(s) : g[k] = g[k - 1] + s[k] /\ s[k] >= 0 /\ s[k] \in Int
  BY <1>1 DEF IsTotal
<1> DEFINE Bad == {k \in 0..Len(s) : g[k] < 0}
<1>3. Bad \subseteq Nat /\ \A k : k \in Bad <=> k \in 0..Len(s) /\ g[k] < 0
  OBVIOUS
<1> HIDE DEF Bad
<1>4. ASSUME Bad # {} PROVE FALSE
  <2>1. PICK k \in Bad : \A y \in Bad : k <= y
    BY <1>3, <1>4, LeastNumber
  <2>2. k \in 0..Len(s) /\ g[k] < 0
    BY <1>3
  <2>3. k \in 1..Len(s) /\ k - 1 \in 0..Len(s) /\ ~(k <= k - 1)
    <3>1. k # 0
      BY <1>2, <2>2
    <3> QED BY <1>2, <2>2, <3>1
  <2>4. ~(g[k - 1] < 0) /\ g[k - 1] \in Int
    BY <1>2, <1>3, <2>1, <2>3
  <2>5. g[k] = g[k - 1] + s[k] /\ s[k] >= 0 /\ s[k] \in Int
    BY <1>2, <2>3
  <2> QED BY <2>2, <2>4, <2>5
<1>5. Len(s) \in 0..Len(s)
  BY <1>2
<1>6. g[Len(s)] \in Int /\ ~(g[Len(s)] < 0)
  BY <1>2, <1>3, <1>4, <1>5
<1>7. Total(s) = g[Len(s)]
  BY <1>1, TotalIs
<1> QED BY <1>6, <1>7

\* A total grows with the numbers.
LEMMA TotalMore ==
    ASSUME NEW a \in Seq(Int), NEW c \in Seq(Int), Len(a) = Len(c),
           \A k \in 1..Len(c) : a[k] <= c[k]
    PROVE  Total(a) <= Total(c)
<1> DEFINE b == [k \in 1..Len(c) |-> c[k] - a[k]]
<1>1. Len(c) \in Nat /\ \A k \in 1..Len(c) : a[k] \in Int /\ c[k] \in Int /\ a[k] <= c[k]
  OBVIOUS
<1>2. b \in Seq(Int) /\ Len(b) = Len(c) /\ \A k \in 1..Len(c) : b[k] = c[k] - a[k]
  <2>1. b \in [1..Len(c) -> Int]
    BY <1>1
  <2> QED BY <1>1, <2>1, SeqDef
<1> HIDE DEF b
<1>3. \A k \in 1..Len(c) : c[k] = a[k] + b[k] /\ b[k] >= 0
  BY <1>1, <1>2
<1>4. Total(c) = Total(a) + Total(b)
  BY <1>2, <1>3, TotalAdd
<1>5. Total(b) \in Nat
  BY <1>2, <1>3, TotalNat
<1>6. Total(a) \in Int
  BY TotalInt
<1> QED BY <1>4, <1>5, <1>6

\* Of numbers that are not negative none is more than the total.
LEMMA TotalMember ==
    ASSUME NEW s \in Seq(Int), \A k \in 1..Len(s) : s[k] >= 0, NEW n \in 1..Len(s)
    PROVE  s[n] <= Total(s)
<1> DEFINE z == [k \in 1..Len(s) |-> IF k = n THEN s[n] ELSE 0]
<1>1. Len(s) \in Nat /\ \A k \in 1..Len(s) : s[k] \in Int
  OBVIOUS
<1>2. z \in [1..Len(s) -> Int]
  BY <1>1
<1>3. z \in Seq(Int) /\ Len(z) = Len(s)
  BY <1>1, <1>2, SeqDef
<1>4. \A k \in 1..Len(s) : z[k] = IF k = n THEN s[n] ELSE 0
  OBVIOUS
<1> HIDE DEF z
<1>5. n \in 1..Len(z) /\ \A k \in 1..Len(z) : k # n => z[k] = 0
  BY <1>3, <1>4
<1>6. Total(z) = z[n]
  BY <1>3, <1>5, TotalSingle
<1>7. \A k \in 1..Len(s) : z[k] <= s[k]
  BY <1>1, <1>4
<1>8. Total(z) <= Total(s)
  BY <1>3, <1>7, TotalMore
<1> QED BY <1>4, <1>6, <1>8

\* What the members of s weigh together.
Sigma(w, s) == Total([n \in DOMAIN s |-> w[s[n]]])

\* The weights of a sequence are a sequence of numbers.
LEMMA Weights ==
    ASSUME NEW T, NEW w \in [T -> Int], NEW s \in Seq(T)
    PROVE  /\ [n \in DOMAIN s |-> w[s[n]]] \in Seq(Int)
           /\ Len([n \in DOMAIN s |-> w[s[n]]]) = Len(s) /\ Len(s) \in Nat
           /\ \A n \in 1..Len(s) : [k \in DOMAIN s |-> w[s[k]]][n] = w[s[n]] /\ s[n] \in T
           /\ Sigma(w, s) \in Int
<1>1. Len(s) \in Nat /\ DOMAIN s = 1..Len(s) /\ \A n \in 1..Len(s) : s[n] \in T
  OBVIOUS
<1> DEFINE q == [n \in DOMAIN s |-> w[s[n]]]
<1>2. q \in [1..Len(s) -> Int]
  BY <1>1
<1>3. q \in Seq(Int) /\ Len(q) = Len(s)
  BY <1>1, <1>2, SeqDef
<1>4. \A n \in 1..Len(s) : q[n] = w[s[n]]
  BY <1>1
<1> HIDE DEF q
<1>5. Total(q) \in Int
  BY <1>3, TotalInt
<1> QED BY <1>1, <1>3, <1>4, <1>5 DEF q, Sigma

\* Nothing weighs nothing, and one thing what it weighs.
LEMMA SigmaSmall ==
    ASSUME NEW T, NEW w \in [T -> Int]
    PROVE  Sigma(w, <<>>) = 0 /\ \A x \in T : Sigma(w, <<x>>) = w[x]
<1>1. ASSUME NEW s \in Seq(T), Len(s) = 0 PROVE Sigma(w, s) = 0
  <2> DEFINE e == [n \in DOMAIN s |-> w[s[n]]]
  <2>1. e \in Seq(Int) /\ Len(e) = Len(s)
    BY Weights
  <2> HIDE DEF e
  <2>2. \A k \in 1..Len(e) : e[k] = 0
    BY <1>1, <2>1
  <2>3. Total(e) = 0
    BY <2>1, <2>2, TotalZero
  <2> QED BY <2>3 DEF Sigma, e
<1>2. ASSUME NEW x \in T PROVE Sigma(w, <<x>>) = w[x]
  <2> DEFINE e == [n \in DOMAIN <<x>> |-> w[<<x>>[n]]]
  <2>1. <<x>> \in Seq(T) /\ Len(<<x>>) = 1 /\ <<x>>[1] = x
    OBVIOUS
  <2>2. e \in Seq(Int) /\ Len(e) = Len(<<x>>) /\ \A n \in 1..Len(<<x>>) : e[n] = w[<<x>>[n]]
    BY <2>1, Weights
  <2> HIDE DEF e
  <2>3. Len(e) = 1 /\ e[1] = w[x] /\ 1 \in 1..Len(e) /\ \A k \in 1..Len(e) : k = 1
    BY <2>1, <2>2
  <2>4. Total(e) = e[1]
    BY <2>2, <2>3, TotalSingle
  <2> QED BY <2>3, <2>4 DEF Sigma, e
<1>3. <<>> \in Seq(T) /\ Len(<<>>) = 0
  OBVIOUS
<1> QED BY <1>1, <1>2, <1>3

\* Two sequences weigh together what each weighs.
LEMMA SigmaConcat ==
    ASSUME NEW T, NEW w \in [T -> Int], NEW s \in Seq(T), NEW t \in Seq(T)
    PROVE  Sigma(w, s \o t) = Sigma(w, s) + Sigma(w, t)
<1> DEFINE a == [n \in DOMAIN s |-> w[s[n]]]
           b == [n \in DOMAIN t |-> w[t[n]]]
           st == s \o t
           c == [n \in DOMAIN st |-> w[st[n]]]
<1>1. /\ a \in Seq(Int) /\ Len(a) = Len(s) /\ \A n \in 1..Len(s) : a[n] = w[s[n]]
      /\ b \in Seq(Int) /\ Len(b) = Len(t) /\ \A n \in 1..Len(t) : b[n] = w[t[n]]
      /\ Len(s) \in Nat /\ Len(t) \in Nat
  BY Weights
<1>2. /\ st \in Seq(T) /\ Len(st) = Len(s) + Len(t)
      /\ \A i \in 1..(Len(s) + Len(t)) : st[i] = IF i <= Len(s) THEN s[i] ELSE t[i - Len(s)]
  BY ConcatProperties
<1> HIDE DEF st
<1>3. c \in Seq(Int) /\ Len(c) = Len(st) /\ \A n \in 1..Len(st) : c[n] = w[st[n]]
  BY <1>2, Weights
<1> HIDE DEF a, b, c
<1>4. /\ a \o b \in Seq(Int) /\ Len(a \o b) = Len(s) + Len(t)
      /\ \A i \in 1..(Len(s) + Len(t)) : (a \o b)[i] = IF i <= Len(s) THEN a[i] ELSE b[i - Len(s)]
  <2>1. /\ a \o b \in Seq(Int) /\ Len(a \o b) = Len(a) + Len(b)
        /\ \A i \in 1..(Len(a) + Len(b)) : (a \o b)[i] = IF i <= Len(a) THEN a[i] ELSE b[i - Len(a)]
    BY <1>1, ConcatProperties
  <2> QED BY <1>1, <2>1
<1>5. ASSUME NEW i \in 1..(Len(s) + Len(t)) PROVE c[i] = (a \o b)[i]
  <2>1. c[i] = w[st[i]]
    BY <1>2, <1>3
  <2>2. CASE i <= Len(s)
    <3>1. i \in 1..Len(s)
      BY <1>1, <2>2
    <3> QED BY <1>1, <1>2, <1>4, <2>1, <2>2, <3>1
  <2>3. CASE ~(i <= Len(s))
    <3>1. i - Len(s) \in 1..Len(t)
      BY <1>1, <2>3
    <3>2. c[i] = w[t[i - Len(s)]] /\ (a \o b)[i] = b[i - Len(s)]
      BY <1>2, <1>4, <2>1, <2>3
    <3> QED BY <1>1, <3>1, <3>2
  <2> QED BY <2>2, <2>3
<1>6. c = a \o b
  <2> DEFINE ab == a \o b
  <2>1. ab \in Seq(Int) /\ Len(ab) = Len(c) /\ \A i \in 1..Len(c) : c[i] = ab[i]
    BY <1>2, <1>3, <1>4, <1>5
  <2> HIDE DEF ab
  <2>2. c = ab
    BY <1>3, <2>1, SeqEqual
  <2> QED BY <2>2 DEF ab
<1>7. Total(a \o b) = Total(a) + Total(b)
  BY <1>1, TotalConcat
<1> QED BY <1>6, <1>7 DEF Sigma, a, b, c, st

\* A sequence that is flattened weighs what its parts weigh.
LEMMA SigmaFlatten ==
    ASSUME NEW T, NEW w \in [T -> Int], NEW s \in Seq(Seq(T))
    PROVE  /\ Sigma(w, FlattenSeq(s)) = Total([k \in DOMAIN s |-> Sigma(w, s[k])])
           /\ [k \in DOMAIN s |-> Sigma(w, s[k])] \in Seq(Int)
           /\ Len([k \in DOMAIN s |-> Sigma(w, s[k])]) = Len(s)
<1> DEFINE m == Len(s)
           e == [k \in DOMAIN s |-> Sigma(w, s[k])]
<1>1. m \in Nat /\ DOMAIN s = 1..m /\ \A k \in 1..m : s[k] \in Seq(T) /\ Sigma(w, s[k]) \in Int
  <2>1. m \in Nat /\ DOMAIN s = 1..m /\ \A k \in 1..m : s[k] \in Seq(T)
    OBVIOUS
  <2> HIDE DEF m
  <2>2. ASSUME NEW k \in 1..m PROVE Sigma(w, s[k]) \in Int
    <3>1. s[k] \in Seq(T)
      BY <2>1
    <3> QED BY <3>1, Weights
  <2> QED BY <2>1, <2>2
<1>2. e \in Seq(Int) /\ Len(e) = m /\ \A k \in 1..m : e[k] = Sigma(w, s[k])
  <2>1. e \in [1..m -> Int]
    BY <1>1
  <2>2. \A k \in 1..m : e[k] = Sigma(w, s[k])
    BY <1>1
  <2> QED BY <1>1, <2>1, <2>2, SeqDef
<1>3. CASE m = 0
  <2>1. FlattenSeq(s) = <<>>
    BY <1>1, <1>3 DEF FlattenSeq
  <2> HIDE DEF e
  <2>2. Total(e) = 0
    <3>1. \A k \in 1..Len(e) : e[k] = 0
      BY <1>2, <1>3
    <3> QED BY <1>2, <3>1, TotalZero
  <2>3. Sigma(w, <<>>) = 0
    BY SigmaSmall
  <2> QED BY <1>2, <2>1, <2>2, <2>3 DEF e, m
<1>4. CASE m # 0
  <2>1. PICK f : Flattens(f, s, m, T) /\ FlattenSeq(s) = f[m]
    BY <1>4, FlattenIs
  <2>2. f \in [1..m -> Seq(T)] /\ \A i \in 1..m : f[i] = IF i = 1 THEN s[i] ELSE f[i - 1] \o s[i]
    BY <2>1 DEF Flattens, IsFlatten
  <2> DEFINE g == [k \in 0..m |-> IF k = 0 THEN 0 ELSE Sigma(w, f[k])]
  <2> HIDE DEF m, e
  <2>3. \A k \in 0..m : k # 0 => k \in 1..m /\ f[k] \in Seq(T) /\ Sigma(w, f[k]) \in Int
    <3>1. ASSUME NEW k \in 0..m, k # 0 PROVE k \in 1..m /\ f[k] \in Seq(T) /\ Sigma(w, f[k]) \in Int
      <4>1. k \in 1..m /\ f[k] \in Seq(T)
        BY <1>1, <2>2, <3>1
      <4> QED BY <4>1, Weights
    <3> QED BY <3>1
  <2>4. g \in [0..m -> Int] /\ g[0] = 0
    BY <1>1, <2>3
  <2>5. ASSUME NEW k \in 1..m PROVE g[k] = g[k - 1] + e[k]
    <3>1. k \in 0..m /\ k # 0 /\ k - 1 \in 0..m
      BY <1>1
    <3>2. g[k] = Sigma(w, f[k]) /\ g[k - 1] = IF k - 1 = 0 THEN 0 ELSE Sigma(w, f[k - 1])
      BY <3>1
    <3> HIDE DEF g
    <3>3. e[k] = Sigma(w, s[k]) /\ e[k] \in Int /\ s[k] \in Seq(T)
      BY <1>1, <1>2
    <3>4. CASE k = 1
      <4>1. f[k] = s[k] /\ k - 1 = 0
        <5>1. f[k] = s[k]
          BY <2>2, <3>4, Zenon
        <5> QED BY <3>4, <5>1
      <4>2. g[k] = e[k] /\ g[k - 1] = 0
        BY <3>2, <3>3, <4>1
      <4> QED BY <3>3, <4>2
    <3>5. CASE k # 1
      <4>1. k - 1 # 0 /\ f[k] = f[k - 1] \o s[k] /\ f[k - 1] \in Seq(T)
        <5>1. k - 1 # 0
          BY <1>1, <3>5
        <5>2. f[k - 1] \in Seq(T)
          BY <2>3, <3>1, <5>1
        <5> QED BY <2>2, <3>5, <5>1, <5>2
      <4>2. Sigma(w, f[k - 1] \o s[k]) = Sigma(w, f[k - 1]) + Sigma(w, s[k])
        BY <3>3, <4>1, SigmaConcat
      <4> QED BY <3>2, <3>3, <4>1, <4>2
    <3> QED BY <3>4, <3>5
  <2>6. m \in 0..m /\ m # 0
    BY <1>1, <1>4
  <2>7. g[m] = Sigma(w, f[m])
    BY <2>6
  <2> HIDE DEF g
  <2>8. IsTotal(g, e)
    BY <1>2, <2>4, <2>5 DEF IsTotal
  <2>9. Total(e) = g[m]
    BY <1>2, <2>8, TotalIs
  <2> QED BY <1>2, <2>1, <2>7, <2>9 DEF e, m
<1> QED BY <1>3, <1>4

\* The parts of s, sequences over T, weigh under w what the members of text weigh
\* under v ...
SameWeights(T, w, s, v, text) ==
    /\ w \in [T -> Int] /\ s \in Seq(Seq(T)) /\ DOMAIN s = DOMAIN text
    /\ \A k \in DOMAIN s : Sigma(w, s[k]) = v[text[k]]

\* ... and so does s flattened.
LEMMA FlatWeight ==
    ASSUME NEW T, NEW w, NEW s, NEW v, NEW text, SameWeights(T, w, s, v, text)
    PROVE  Sigma(w, FlattenSeq(s)) = Sigma(v, text)
<1> DEFINE a == [k \in DOMAIN s |-> Sigma(w, s[k])]
           b == [k \in DOMAIN text |-> v[text[k]]]
<1>1. a = b
  BY DEF SameWeights
<1>2. Sigma(w, FlattenSeq(s)) = Total(a)
  BY SigmaFlatten DEF SameWeights
<1> HIDE DEF a, b
<1>3. Sigma(w, FlattenSeq(s)) = Total(b)
  BY <1>1, <1>2
<1> QED BY <1>3 DEF Sigma, b

-----------------------------------------------------------------------------
(* Counting tokens *)

\* One for each occurrence of t.
Ones(t) == [x \in Words |-> IF x = t THEN 1 ELSE 0]

\* How often t occurs is a sum.
LEMMA CountIs ==
    ASSUME NEW t, NEW text \in Seq(Words)
    PROVE  Count(t, text) = Sigma(Ones(t), text) /\ Ones(t) \in [Words -> Int]
<1> DEFINE m == Len(text)
           S(k) == {i \in 1..k : text[i] = t}
           g == [k \in 0..m |-> Cardinality(S(k))]
           e == [n \in DOMAIN text |-> Ones(t)[text[n]]]
<1>1. m \in Nat /\ DOMAIN text = 1..m /\ \A k \in 1..m : text[k] \in Words
  OBVIOUS
<1>2. Ones(t) \in [Words -> Int] /\ \A x \in Words : Ones(t)[x] = IF x = t THEN 1 ELSE 0
  BY DEF Ones
<1>3. e \in Seq(Int) /\ Len(e) = m /\ \A k \in 1..m : e[k] = Ones(t)[text[k]]
  BY <1>2, Weights
<1>4. \A k \in 1..m : e[k] = IF text[k] = t THEN 1 ELSE 0
  BY <1>1, <1>2, <1>3
<1> HIDE DEF e, m
<1>5. ASSUME NEW k \in 0..m PROVE IsFiniteSet(S(k)) /\ Cardinality(S(k)) \in Nat
  <2>1. IsFiniteSet(1..k)
    BY <1>1, FS_Interval
  <2>2. IsFiniteSet(S(k))
    BY <2>1, FS_Subset
  <2> QED BY <2>2, FS_CardinalityType
<1>6. g \in [0..m -> Int]
  <2> HIDE DEF S
  <2>1. \A k \in 0..m : Cardinality(S(k)) \in Int
    BY <1>5
  <2> QED BY <2>1
<1>7. g[0] = 0
  <2>1. S(0) = {} /\ 0 \in 0..m
    BY <1>1
  <2> QED BY <2>1, FS_EmptySet
<1>8. ASSUME NEW k \in 1..m PROVE g[k] = g[k - 1] + e[k]
  <2>1. k \in 0..m /\ k - 1 \in 0..m /\ k \notin 1..(k - 1) /\ 1..k = (1..(k - 1)) \cup {k}
    BY <1>1
  <2>2. g[k] = Cardinality(S(k)) /\ g[k - 1] = Cardinality(S(k - 1))
    BY <2>1
  <2> HIDE DEF g
  <2>3. CASE text[k] = t
    <3>1. S(k) = S(k - 1) \cup {k} /\ k \notin S(k - 1)
      BY <2>1, <2>3
    <3> HIDE DEF S
    <3>2. Cardinality(S(k)) = Cardinality(S(k - 1)) + 1
      BY <1>5, <2>1, <3>1, FS_AddElement
    <3> QED BY <1>4, <2>2, <2>3, <3>2
  <2>4. CASE text[k] # t
    <3>1. S(k) = S(k - 1)
      BY <2>1, <2>4
    <3> HIDE DEF S
    <3>2. Cardinality(S(k - 1)) \in Nat /\ e[k] = 0
      BY <1>4, <1>5, <2>1, <2>4
    <3> QED BY <2>2, <3>1, <3>2
  <2> QED BY <2>3, <2>4
<1>9. g[m] = Cardinality(S(m))
  <2>1. m \in 0..m
    BY <1>1
  <2> QED BY <2>1
<1>10. Count(t, text) = Cardinality(S(m))
  BY <1>1 DEF Count
<1> HIDE DEF g, S
<1>11. IsTotal(g, e)
  BY <1>3, <1>6, <1>7, <1>8 DEF IsTotal
<1>12. Total(e) = g[m]
  BY <1>3, <1>11, TotalIs
<1> QED BY <1>2, <1>9, <1>10, <1>12 DEF Sigma, e

\* A token that is not there occurs no times.
LEMMA CountZero ==
    ASSUME NEW t, NEW text \in Seq(Words)
    PROVE  Count(t, text) = 0 <=> t \notin Range(text)
<1> DEFINE S == {i \in DOMAIN text : text[i] = t}
<1>1. IsFiniteSet(DOMAIN text)
  <2>1. DOMAIN text = 1..Len(text) /\ Len(text) \in Nat
    OBVIOUS
  <2> QED BY <2>1, FS_Interval
<1>2. IsFiniteSet(S)
  BY <1>1, FS_Subset
<1>3. S = {} <=> t \notin Range(text)
  BY DEF Range
<1> HIDE DEF S
<1>4. Cardinality(S) = 0 <=> S = {}
  BY <1>2, FS_EmptySet
<1> QED BY <1>3, <1>4 DEF Count, S

\* What weighs nothing anywhere in s makes s weigh nothing.
LEMMA SigmaNothing ==
    ASSUME NEW T, NEW w \in [T -> Int], NEW s \in Seq(T), \A k \in 1..Len(s) : w[s[k]] = 0
    PROVE  Sigma(w, s) = 0
<1> DEFINE e == [n \in DOMAIN s |-> w[s[n]]]
<1>1. e \in Seq(Int) /\ Len(e) = Len(s) /\ \A k \in 1..Len(s) : e[k] = w[s[k]]
  BY Weights
<1> HIDE DEF e
<1>2. \A k \in 1..Len(e) : e[k] = 0
  BY <1>1
<1>3. Total(e) = 0
  BY <1>1, <1>2, TotalZero
<1> QED BY <1>3 DEF Sigma, e

\* A token of queries that the two tokenizers treat alike.
Good(t) ==
    /\ t \in Words \ DroppedWords
    /\ \A p \in Pages : \A k \in DOMAIN p.words :
          IF p.words[k] = t THEN Pieces[t] = <<t>> ELSE t \notin Range(Pieces[p.words[k]])

\* Both find such a token as often as it is on the page.
LEMMA TokenAlike ==
    ASSUME NEW t, Good(t), NEW p \in Pages
    PROVE  /\ Count(t, tokenize(p.words)) = Count(t, p.words)
           /\ Count(t, RowTokens(p.words)) = Count(t, p.words)
<1> DEFINE text == p.words
           w == Ones(t)
           a == [n \in DOMAIN text |-> IF text[n] \in DroppedWords THEN <<>> ELSE <<text[n]>>]
           b == [i \in DOMAIN text |-> Pieces[text[i]]]
<1>1. text \in Seq(Words) /\ t \in Words \ DroppedWords
  BY IndexAssumption DEF Good
<1>2. \A k \in 1..Len(text) : text[k] \in Words /\ Pieces[text[k]] \in Seq(Words)
  BY <1>1, IndexAssumption
<1>3. DOMAIN text = 1..Len(text) /\ Len(text) \in Nat
  BY <1>1
<1>4. \A k \in 1..Len(text) : IF text[k] = t THEN Pieces[t] = <<t>> ELSE t \notin Range(Pieces[text[k]])
  BY <1>3 DEF Good
<1>5. w \in [Words -> Int] /\ \A x \in Words : w[x] = IF x = t THEN 1 ELSE 0
  BY DEF Ones
<1>6. a \in Seq(Seq(Words)) /\ Len(a) = Len(text)
      /\ \A k \in 1..Len(text) : a[k] = IF text[k] \in DroppedWords THEN <<>> ELSE <<text[k]>>
  <2>1. \A k \in 1..Len(text) : a[k] = IF text[k] \in DroppedWords THEN <<>> ELSE <<text[k]>>
    BY <1>3
  <2>2. \A k \in 1..Len(text) : a[k] \in Seq(Words)
    BY <1>2, <2>1
  <2>3. a \in [1..Len(text) -> Seq(Words)]
    BY <1>3, <2>2
  <2> QED BY <1>3, <2>1, <2>3, SeqDef
<1>7. b \in Seq(Seq(Words)) /\ Len(b) = Len(text) /\ \A k \in 1..Len(text) : b[k] = Pieces[text[k]]
  <2>1. b \in [1..Len(text) -> Seq(Words)]
    BY <1>2, <1>3
  <2> QED BY <1>3, <2>1, SeqDef
<1>8. tokenize(text) = FlattenSeq(a) /\ RowTokens(text) = FlattenSeq(b)
  BY DEF tokenize, RowTokens
<1> HIDE DEF a, b, w, text
<1>9. ASSUME NEW k \in 1..Len(text) PROVE Sigma(w, a[k]) = w[text[k]]
  <2>1. text[k] \in Words
    BY <1>2
  <2>2. CASE text[k] \in DroppedWords
    <3>1. a[k] = <<>> /\ text[k] # t
      BY <1>1, <1>6, <2>2
    <3> QED BY <1>5, <2>1, <3>1, SigmaSmall
  <2>3. CASE text[k] \notin DroppedWords
    BY <1>5, <1>6, <2>1, <2>3, SigmaSmall
  <2> QED BY <2>2, <2>3
<1>10. ASSUME NEW k \in 1..Len(text) PROVE Sigma(w, b[k]) = w[text[k]]
  <2>1. text[k] \in Words /\ b[k] \in Seq(Words) /\ b[k] = Pieces[text[k]]
    BY <1>2, <1>7
  <2>2. CASE text[k] = t
    <3>1. b[k] = <<t>>
      BY <1>4, <2>1, <2>2
    <3> QED BY <1>1, <1>5, <2>2, <3>1, SigmaSmall
  <2>3. CASE text[k] # t
    <3>1. t \notin Range(b[k])
      BY <1>4, <2>1, <2>3
    <3> DEFINE s == b[k]
    <3>2. s \in Seq(Words) /\ t \notin Range(s) /\ DOMAIN s = 1..Len(s)
      BY <2>1, <3>1
    <3> HIDE DEF s
    <3>3. \A j \in 1..Len(s) : s[j] \in Words /\ s[j] # t
      BY <3>2 DEF Range
    <3>4. \A j \in 1..Len(s) : w[s[j]] = 0
      BY <1>5, <3>3
    <3>5. Sigma(w, s) = 0
      BY <1>5, <3>2, <3>4, SigmaNothing
    <3> QED BY <1>5, <2>1, <2>3, <3>5 DEF s
  <2> QED BY <2>2, <2>3
<1>11. /\ w \in [Words -> Int] /\ text \in Seq(Words)
       /\ a \in Seq(Seq(Words)) /\ Len(a) = Len(text) /\ b \in Seq(Seq(Words)) /\ Len(b) = Len(text)
  BY <1>1, <1>5, <1>6, <1>7
<1>12. Sigma(w, FlattenSeq(a)) = Sigma(w, text)
  <2>1. SameWeights(Words, w, a, w, text)
    BY <1>9, <1>11 DEF SameWeights
  <2> QED BY <2>1, FlatWeight
<1>13. Sigma(w, FlattenSeq(b)) = Sigma(w, text)
  <2>1. SameWeights(Words, w, b, w, text)
    BY <1>10, <1>11 DEF SameWeights
  <2> QED BY <2>1, FlatWeight
<1>14. tokenize(text) \in Seq(Words) /\ RowTokens(text) \in Seq(Words)
  BY <1>1, TokensType, RowTokensType
<1>15. /\ Count(t, text) = Sigma(w, text) /\ Count(t, tokenize(text)) = Sigma(w, tokenize(text))
       /\ Count(t, RowTokens(text)) = Sigma(w, RowTokens(text))
  BY <1>1, <1>14, CountIs DEF w
<1> QED BY <1>8, <1>12, <1>13, <1>15 DEF text

-----------------------------------------------------------------------------
(* The weights of postings, rows, lines and pages *)

\* What a posting of page u counts for under the measure v, and what a row counts
\* for that gives such a posting for token t.
OfPosting(v, u) == [x \in PostingType |-> IF x.url = u THEN v[x] ELSE 0]
OfRow(v, t, u) == [row \in RowType |-> IF row.token = t /\ row.url = u THEN v[PostingOf(row)] ELSE 0]

\* A line counts for its row if that can be read, a page for all its rows.
OfLine(w) == [line \in LineType |-> IF line.whole THEN w[line.row] ELSE 0]
OfPage(w) == [p \in Pages |-> Sigma(w, collectPostings(p))]

\* Weights that are not negative have such sums.
LEMMA SigmaNat ==
    ASSUME NEW T, NEW w \in [T -> Nat], NEW s \in Seq(T)
    PROVE  w \in [T -> Int] /\ Sigma(w, s) \in Nat
<1> DEFINE e == [n \in DOMAIN s |-> w[s[n]]]
<1>1. w \in [T -> Int]
  OBVIOUS
<1>2. e \in Seq(Int) /\ Len(e) = Len(s) /\ \A k \in 1..Len(s) : e[k] = w[s[k]] /\ s[k] \in T
  BY <1>1, Weights
<1> HIDE DEF e
<1>3. \A k \in 1..Len(e) : e[k] >= 0
  <2>1. \A x \in T : w[x] \in Nat
    OBVIOUS
  <2> QED BY <1>2, <2>1
<1>4. Total(e) \in Nat
  BY <1>2, <1>3, TotalNat
<1> QED BY <1>1, <1>4 DEF Sigma, e

\* The posting of a row.
LEMMA PostingOfRow == \A row \in RowType : PostingOf(row) \in PostingType
BY DEF RowType, PostingType, PostingOf

\* These are weights.
LEMMA WeightTypes ==
    ASSUME NEW v \in [PostingType -> Int], NEW t, NEW u
    PROVE  /\ OfPosting(v, u) \in [PostingType -> Int] /\ OfRow(v, t, u) \in [RowType -> Int]
           /\ v \in [PostingType -> Nat] =>
                /\ OfPosting(v, u) \in [PostingType -> Nat] /\ OfRow(v, t, u) \in [RowType -> Nat]
BY PostingOfRow DEF OfPosting, OfRow

\* So are these.
LEMMA LineWeights ==
    ASSUME NEW w \in [RowType -> Int]
    PROVE  /\ OfLine(w) \in [LineType -> Int] /\ OfPage(w) \in [Pages -> Int]
           /\ w \in [RowType -> Nat] => OfLine(w) \in [LineType -> Nat] /\ OfPage(w) \in [Pages -> Nat]
<1>1. \A line \in LineType : line.row \in RowType
  BY DEF LineType
<1>2. OfLine(w) \in [LineType -> Int] /\ (w \in [RowType -> Nat] => OfLine(w) \in [LineType -> Nat])
  BY <1>1 DEF OfLine
<1>3. ASSUME NEW p \in Pages
      PROVE  /\ Sigma(w, collectPostings(p)) \in Int
             /\ w \in [RowType -> Nat] => Sigma(w, collectPostings(p)) \in Nat
  <2>1. collectPostings(p) \in Seq(RowType)
    BY RowsOfPage
  <2> QED BY <2>1, Weights, SigmaNat
<1>4. OfPage(w) \in [Pages -> Int] /\ (w \in [RowType -> Nat] => OfPage(w) \in [Pages -> Nat])
  BY <1>3 DEF OfPage
<1> QED BY <1>2, <1>4

\* The first part of a sequence weighs at most what the whole does.
LEMMA PrefixWeighs ==
    ASSUME NEW T, NEW w \in [T -> Nat], NEW s \in Seq(T), NEW n \in 0..Len(s)
    PROVE  SubSeq(s, 1, n) \in Seq(T) /\ Sigma(w, SubSeq(s, 1, n)) <= Sigma(w, s)
<1> DEFINE a == SubSeq(s, 1, n)
           b == SubSeq(s, n + 1, Len(s))
<1>1. Len(s) \in Nat /\ n \in Nat /\ n <= Len(s) /\ \A i \in 1..Len(s) : s[i] \in T
  OBVIOUS
<1>2. a \in Seq(T)
  <2>1. \A i \in 1..n : s[i] \in T
    BY <1>1
  <2> QED BY <1>1, <2>1, SubSeqProperties
<1>3. b \in Seq(T)
  <2>1. \A i \in (n + 1)..Len(s) : s[i] \in T
    BY <1>1
  <2>2. n + 1 \in Int /\ Len(s) \in Int
    BY <1>1
  <2> QED BY <2>1, <2>2, SubSeqProperties
<1>4. a \o b = s
  <2> DEFINE c == a \o b
  <2>1. /\ Len(a) = n /\ \A i \in 1..n : a[i] = s[i]
    <3>1. \A i \in 1..n : s[i] \in T /\ 1 + i - 1 = i
      BY <1>1
    <3>2. 1 \in Int /\ n \in Int /\ n - 1 + 1 = n /\ (1 <= n \/ n = 0)
      BY <1>1
    <3> QED BY <3>1, <3>2, SubSeqProperties
  <2>2. /\ Len(b) = Len(s) - n /\ \A i \in 1..(Len(s) - n) : b[i] = s[n + i]
    <3>1. \A i \in (n + 1)..Len(s) : s[i] \in T
      BY <1>1
    <3>2. /\ n + 1 \in Int /\ Len(s) \in Int /\ Len(s) - (n + 1) + 1 = Len(s) - n
          /\ (n + 1 <= Len(s) \/ Len(s) - n = 0)
          /\ \A i \in 1..(Len(s) - n) : (n + 1) + i - 1 = n + i
      BY <1>1
    <3>3. /\ Len(b) = IF n + 1 <= Len(s) THEN Len(s) - (n + 1) + 1 ELSE 0
          /\ \A i \in 1..(Len(s) - (n + 1) + 1) : b[i] = s[(n + 1) + i - 1]
      <4> DEFINE lo == n + 1
                 hi == Len(s)
      <4>1. lo \in Int /\ hi \in Int /\ \A i \in lo..hi : s[i] \in T
        BY <3>1, <3>2
      <4> HIDE DEF lo, hi
      <4>2. /\ Len(SubSeq(s, lo, hi)) = IF lo <= hi THEN hi - lo + 1 ELSE 0
            /\ \A i \in 1..(hi - lo + 1) : SubSeq(s, lo, hi)[i] = s[lo + i - 1]
        BY <4>1, SubSeqProperties
      <4> QED BY <4>2 DEF lo, hi
    <3> HIDE DEF b
    <3>4. Len(b) = Len(s) - n
      BY <1>1, <3>3
    <3> QED BY <3>2, <3>3, <3>4
  <2> HIDE DEF a, b
  <2>3. c \in Seq(T) /\ Len(c) = Len(a) + Len(b)
        /\ \A i \in 1..(Len(a) + Len(b)) : c[i] = IF i <= Len(a) THEN a[i] ELSE b[i - Len(a)]
    BY <1>2, <1>3, ConcatProperties
  <2> HIDE DEF c
  <2>4. Len(c) = Len(s)
    BY <1>1, <2>1, <2>2, <2>3
  <2>5. ASSUME NEW i \in 1..Len(c) PROVE c[i] = s[i]
    <3>1. CASE i <= n
      BY <1>1, <2>1, <2>3, <2>4, <3>1
    <3>2. CASE ~(i <= n)
      <4>1. i - n \in 1..(Len(s) - n) /\ n + (i - n) = i
        BY <1>1, <2>4, <3>2
      <4>2. c[i] = b[i - n]
        BY <2>1, <2>3, <3>2
      <4> QED BY <2>2, <4>1, <4>2
    <3> QED BY <3>1, <3>2
  <2>6. c = s
    BY <2>3, <2>4, <2>5, SeqEqual
  <2> QED BY <2>6 DEF c
<1> HIDE DEF a, b
<1>5. Sigma(w, a \o b) = Sigma(w, a) + Sigma(w, b)
  <2>1. w \in [T -> Int]
    OBVIOUS
  <2> QED BY <1>2, <1>3, <2>1, SigmaConcat
<1>6. Sigma(w, a) \in Nat /\ Sigma(w, b) \in Nat
  BY <1>2, <1>3, SigmaNat
<1>7. Sigma(w, a) <= Sigma(w, s)
  BY <1>4, <1>5, <1>6
<1> QED BY <1>2, <1>7 DEF a

\* Whole lines weigh what their rows weigh.
LEMMA LinesWeigh ==
    ASSUME NEW w \in [RowType -> Int], NEW rows \in Seq(RowType)
    PROVE  Sigma(OfLine(w), Lines(rows)) = Sigma(w, rows) /\ FirstLines(Lines(rows), rows)
<1> DEFINE ls == Lines(rows)
           a == [n \in DOMAIN ls |-> OfLine(w)[ls[n]]]
           b == [n \in DOMAIN rows |-> w[rows[n]]]
<1>1. Len(rows) \in Nat /\ DOMAIN rows = 1..Len(rows) /\ \A k \in 1..Len(rows) : rows[k] \in RowType
  OBVIOUS
<1>2. DOMAIN ls = 1..Len(rows) /\ \A k \in 1..Len(rows) : ls[k] = Line(rows[k])
  BY <1>1 DEF Lines
<1>3. ls \in Seq(LineType) /\ Len(ls) = Len(rows)
  BY <1>1, <1>2, LinesOfRows
<1> HIDE DEF ls
<1>4. ASSUME NEW k \in 1..Len(rows) PROVE OfLine(w)[ls[k]] = w[rows[k]] /\ ls[k].row = rows[k]
  <2>1. ls[k] \in LineType /\ ls[k].whole /\ ls[k].row = rows[k]
    BY <1>2, <1>3, LineIs
  <2> QED BY <2>1 DEF OfLine
<1>5. a = b
  BY <1>1, <1>2, <1>4
<1> HIDE DEF a, b
<1>6. Sigma(OfLine(w), ls) = Sigma(w, rows)
  BY <1>5 DEF Sigma, a, b
<1> QED BY <1>1, <1>3, <1>4, <1>6 DEF ls, FirstLines

\* Lines of the first of some rows weigh at most what the rows weigh.
LEMMA FirstLinesWeigh ==
    ASSUME NEW w \in [RowType -> Nat], NEW rows \in Seq(RowType), NEW ls \in Seq(LineType),
           FirstLines(ls, rows)
    PROVE  Sigma(OfLine(w), ls) <= Sigma(w, rows)
<1> DEFINE n == Len(ls)
           part == SubSeq(rows, 1, n)
           a == [k \in DOMAIN ls |-> OfLine(w)[ls[k]]]
           b == [k \in DOMAIN part |-> w[part[k]]]
<1>1. n \in 0..Len(rows) /\ n \in Nat /\ Len(rows) \in Nat /\ \A k \in 1..n : ls[k].row = rows[k] /\ rows[k] \in RowType
  BY DEF FirstLines
<1>2. part \in Seq(RowType) /\ Sigma(w, part) <= Sigma(w, rows)
  BY <1>1, PrefixWeighs
<1>3. Len(part) = n /\ \A k \in 1..n : part[k] = rows[k]
  <2>1. 1 \in Int /\ n \in Int /\ n - 1 + 1 = n /\ (1 <= n \/ n = 0) /\ \A k \in 1..n : 1 + k - 1 = k
    BY <1>1
  <2> QED BY <1>1, <2>1, SubSeqProperties
<1>4. w \in [RowType -> Int]
  OBVIOUS
<1>5. OfLine(w) \in [LineType -> Int]
  BY <1>4, LineWeights
<1>6. a \in Seq(Int) /\ Len(a) = n /\ \A k \in 1..n : a[k] = OfLine(w)[ls[k]] /\ ls[k] \in LineType
  BY <1>5, Weights
<1> HIDE DEF part
<1>7. b \in Seq(Int) /\ Len(b) = n /\ \A k \in 1..n : b[k] = w[part[k]]
  BY <1>2, <1>3, <1>4, Weights
<1> HIDE DEF a, b, n
<1>8. ASSUME NEW k \in 1..n PROVE a[k] <= b[k]
  <2>1. a[k] = IF ls[k].whole THEN w[rows[k]] ELSE 0
    BY <1>1, <1>6 DEF OfLine
  <2>2. b[k] = w[rows[k]] /\ w[rows[k]] \in Nat
    BY <1>1, <1>3, <1>7
  <2> QED BY <2>1, <2>2
<1>9. Total(a) <= Total(b)
  BY <1>6, <1>7, <1>8, TotalMore
<1>10. Sigma(OfLine(w), ls) <= Sigma(w, part)
  BY <1>9 DEF Sigma, a, b
<1>11. Sigma(OfLine(w), ls) \in Int /\ Sigma(w, part) \in Int /\ Sigma(w, rows) \in Int
  BY <1>2, <1>4, <1>5, Weights
<1> QED BY <1>2, <1>10, <1>11

\* Appending adds at most what the lines weigh.
LEMMA AppendWeighs ==
    ASSUME NEW w \in [RowType -> Nat], NEW f \in Seq(LineType), NEW ls \in Seq(LineType)
    PROVE  Sigma(OfLine(w), AppendLines(f, ls)) <= Sigma(OfLine(w), f) + Sigma(OfLine(w), ls)
<1> DEFINE x == OfLine(w)
<1>1. w \in [RowType -> Int]
  OBVIOUS
<1>2. x \in [LineType -> Nat] /\ x \in [LineType -> Int]
  BY <1>1, LineWeights
<1>3. \A s \in Seq(LineType) : Sigma(x, s) \in Nat
  <2> HIDE DEF x
  <2> QED BY <1>2, SigmaNat
<1>4. CASE AppendLines(f, ls) = f \o ls
  <2> HIDE DEF x
  <2>1. Sigma(x, f \o ls) = Sigma(x, f) + Sigma(x, ls)
    BY <1>2, SigmaConcat
  <2>2. Sigma(x, f) \in Nat /\ Sigma(x, ls) \in Nat
    BY <1>3
  <2> QED BY <1>4, <2>1, <2>2 DEF x
<1>5. CASE AppendLines(f, ls) # f \o ls
  <2> DEFINE cut == [Head(ls) EXCEPT !.whole = FALSE]
             start == Front(f) \o <<cut>>
  <2>1. f # <<>> /\ ls # <<>> /\ AppendLines(f, ls) = start \o Tail(ls)
    BY <1>5 DEF AppendLines
  <2>2. Len(f) \in Nat /\ Len(f) # 0
    BY <2>1, EmptySeq
  <2>3. Front(f) \in Seq(LineType) /\ Sigma(x, Front(f)) <= Sigma(x, f)
    <3>1. Len(f) - 1 \in 0..Len(f)
      BY <2>2
    <3> HIDE DEF x
    <3> QED BY <1>2, <3>1, PrefixWeighs DEF Front
  <2>4. Head(ls) \in LineType /\ Tail(ls) \in Seq(LineType)
    BY <2>1
  <2>5. cut \in LineType /\ x[cut] = 0
    BY <2>4 DEF LineType, OfLine
  <2>6. Sigma(x, ls) = x[Head(ls)] + Sigma(x, Tail(ls)) /\ x[Head(ls)] \in Nat
    <3>1. ls = <<Head(ls)>> \o Tail(ls)
      <4> DEFINE one == <<Head(ls)>>
                 rest == Tail(ls)
                 c == one \o rest
      <4>1. one \in Seq(LineType) /\ Len(one) = 1 /\ one[1] = ls[1]
        <5>1. Head(ls) = ls[1]
          BY <2>1
        <5> QED BY <2>4, <5>1
      <4>2. rest \in Seq(LineType) /\ Len(rest) = Len(ls) - 1 /\ \A k \in 1..Len(rest) : rest[k] = ls[k + 1]
        BY <2>1, HeadTailProperties
      <4>3. Len(ls) \in Nat /\ Len(ls) # 0
        BY <2>1, EmptySeq
      <4> HIDE DEF one, rest
      <4>4. /\ c \in Seq(LineType) /\ Len(c) = Len(one) + Len(rest)
            /\ \A k \in 1..(Len(one) + Len(rest)) : c[k] = IF k <= Len(one) THEN one[k] ELSE rest[k - Len(one)]
        <5>1. one \in Seq(LineType) /\ rest \in Seq(LineType)
          BY <4>1, <4>2
        <5> QED BY <5>1, ConcatProperties
      <4> HIDE DEF c
      <4>5. Len(c) = Len(ls)
        BY <4>1, <4>2, <4>3, <4>4
      <4>6. ASSUME NEW k \in 1..Len(c) PROVE c[k] = ls[k]
        <5>1. CASE k = 1
          BY <4>1, <4>3, <4>4, <4>5, <5>1
        <5>2. CASE k # 1
          <6>1. k - 1 \in 1..Len(rest) /\ (k - 1) + 1 = k /\ ~(k <= 1) /\ k \in 1..(Len(one) + Len(rest))
            BY <4>1, <4>2, <4>3, <4>5, <5>2
          <6>2. c[k] = rest[k - 1]
            BY <4>1, <4>4, <6>1
          <6> QED BY <4>2, <6>1, <6>2
        <5> QED BY <5>1, <5>2
      <4>7. c = ls
        BY <4>4, <4>5, <4>6, SeqEqual
      <4> QED BY <4>7 DEF c, one, rest
    <3> DEFINE h == Head(ls)
               one == <<h>>
               rest == Tail(ls)
    <3>2. h \in LineType /\ one \in Seq(LineType) /\ rest \in Seq(LineType) /\ ls = one \o rest
      BY <2>4, <3>1
    <3> HIDE DEF x, h, rest
    <3>3. Sigma(x, one) = x[h] /\ x[h] \in Nat
      BY <1>2, <3>2, SigmaSmall
    <3> HIDE DEF one
    <3>4. Sigma(x, one \o rest) = Sigma(x, one) + Sigma(x, rest)
      BY <1>2, <3>2, SigmaConcat
    <3> QED BY <3>2, <3>3, <3>4 DEF h, rest
  <2> HIDE DEF cut, x
  <2>7. start \in Seq(LineType) /\ Sigma(x, start) = Sigma(x, Front(f)) + 0
    <3> DEFINE one == <<cut>>
               front == Front(f)
    <3>1. one \in Seq(LineType) /\ front \in Seq(LineType)
      BY <2>3, <2>5
    <3>2. Sigma(x, one) = 0
      BY <1>2, <2>5, SigmaSmall
    <3> HIDE DEF one, front
    <3>3. front \o one \in Seq(LineType)
      BY <3>1, ConcatProperties
    <3>4. Sigma(x, front \o one) = Sigma(x, front) + Sigma(x, one)
      BY <1>2, <3>1, SigmaConcat
    <3> QED BY <3>2, <3>3, <3>4 DEF one, front
  <2> HIDE DEF start
  <2> DEFINE rest == Tail(ls)
  <2>8. rest \in Seq(LineType) /\ AppendLines(f, ls) = start \o rest
    BY <2>1, <2>4
  <2> HIDE DEF rest
  <2>9. Sigma(x, start \o rest) = Sigma(x, start) + Sigma(x, rest)
    BY <1>2, <2>7, <2>8, SigmaConcat
  <2>10. Sigma(x, ls) = x[Head(ls)] + Sigma(x, rest)
    BY <2>6 DEF rest
  <2>11. Sigma(x, rest) \in Nat /\ Sigma(x, Front(f)) \in Nat /\ Sigma(x, f) \in Nat
    BY <1>3, <2>3, <2>8
  <2>12. Sigma(x, AppendLines(f, ls)) = Sigma(x, Front(f)) + Sigma(x, rest)
    BY <2>7, <2>8, <2>9, <2>11
  <2>13. \A k, m, n, o \in Nat : k <= m => k + n <= m + (o + n)
    OBVIOUS
  <2>14. Sigma(x, Front(f)) + Sigma(x, rest) <= Sigma(x, f) + (x[Head(ls)] + Sigma(x, rest))
    BY <2>3, <2>6, <2>11, <2>13
  <2> QED BY <2>10, <2>12, <2>14 DEF x
<1> QED BY <1>4, <1>5

\* The rows read back weigh what the lines of p.data weigh.
LEMMA LoadedWeigh ==
    ASSUME NEW w \in [RowType -> Int], file \in Seq(LineType)
    PROVE  Sigma(w, LoadPostingsFromFile) = Sigma(OfLine(w), file)
<1> DEFINE s == [n \in DOMAIN file |-> IF file[n].whole THEN <<file[n].row>> ELSE <<>>]
<1>1. Len(file) \in Nat /\ DOMAIN file = 1..Len(file) /\ \A n \in 1..Len(file) : file[n] \in LineType
  OBVIOUS
<1>2. \A line \in LineType : line.row \in RowType
  BY DEF LineType
<1>3. DOMAIN s = 1..Len(file) /\ \A n \in 1..Len(file) : s[n] = IF file[n].whole THEN <<file[n].row>> ELSE <<>>
  BY <1>1
<1>4. s \in Seq(Seq(RowType))
  <2>1. \A n \in 1..Len(file) : s[n] \in Seq(RowType)
    BY <1>1, <1>2, <1>3
  <2>2. s \in [1..Len(file) -> Seq(RowType)]
    BY <1>1, <2>1
  <2> QED BY <1>1, <2>2, SeqDef
<1>5. LoadPostingsFromFile = FlattenSeq(s)
  BY DEF LoadPostingsFromFile
<1> HIDE DEF s
<1>6. ASSUME NEW n \in 1..Len(file) PROVE Sigma(w, s[n]) = OfLine(w)[file[n]]
  <2>1. file[n] \in LineType /\ file[n].row \in RowType
    BY <1>1, <1>2
  <2>2. OfLine(w)[file[n]] = IF file[n].whole THEN w[file[n].row] ELSE 0
    BY <2>1 DEF OfLine
  <2>3. Sigma(w, <<>>) = 0 /\ Sigma(w, <<file[n].row>>) = w[file[n].row]
    BY <2>1, SigmaSmall
  <2> QED BY <1>3, <2>2, <2>3
<1>7. SameWeights(RowType, w, s, OfLine(w), file)
  BY <1>1, <1>3, <1>4, <1>6 DEF SameWeights
<1> QED BY <1>5, <1>7, FlatWeight

\* The postings built from rows weigh what the rows weigh.
LEMMA RebuiltWeighs ==
    ASSUME NEW v \in [PostingType -> Int], NEW u, NEW t \in Words, NEW rows \in Seq(RowType)
    PROVE  Sigma(OfPosting(v, u), WithRows(rows)[t]) = Sigma(OfRow(v, t, u), rows)
<1> DEFINE s == [n \in DOMAIN rows |-> IF rows[n].token = t THEN <<PostingOf(rows[n])>> ELSE <<>>]
           w == OfPosting(v, u)
           x == OfRow(v, t, u)
<1>1. Len(rows) \in Nat /\ DOMAIN rows = 1..Len(rows) /\ \A n \in 1..Len(rows) : rows[n] \in RowType
  OBVIOUS
<1>2. \A n \in 1..Len(rows) : PostingOf(rows[n]) \in PostingType /\ PostingOf(rows[n]).url = rows[n].url
  BY <1>1, PostingOfRow DEF PostingOf
<1>3. /\ DOMAIN s = 1..Len(rows)
      /\ \A n \in 1..Len(rows) : s[n] = IF rows[n].token = t THEN <<PostingOf(rows[n])>> ELSE <<>>
  BY <1>1
<1>4. s \in Seq(Seq(PostingType))
  <2>1. \A n \in 1..Len(rows) : s[n] \in Seq(PostingType)
    BY <1>2, <1>3
  <2>2. s \in [1..Len(rows) -> Seq(PostingType)]
    BY <1>1, <2>1
  <2> QED BY <1>1, <2>2, SeqDef
<1>5. WithRows(rows)[t] = FlattenSeq(s)
  BY DEF WithRows
<1>6. w \in [PostingType -> Int]
  BY WeightTypes
<1> HIDE DEF s
<1>7. ASSUME NEW n \in 1..Len(rows) PROVE Sigma(w, s[n]) = x[rows[n]]
  <2> DEFINE y == PostingOf(rows[n])
  <2>1. y \in PostingType /\ y.url = rows[n].url /\ rows[n] \in RowType
    BY <1>1, <1>2
  <2>2. x[rows[n]] = (IF rows[n].token = t /\ rows[n].url = u THEN v[y] ELSE 0)
        /\ w[y] = IF y.url = u THEN v[y] ELSE 0
    BY <2>1 DEF OfRow, OfPosting
  <2> HIDE DEF w, x, y
  <2>3. Sigma(w, <<>>) = 0 /\ Sigma(w, <<y>>) = w[y]
    BY <1>6, <2>1, SigmaSmall
  <2> QED BY <1>3, <2>1, <2>2, <2>3 DEF y
<1> HIDE DEF w, x
<1>8. SameWeights(PostingType, w, s, x, rows)
  BY <1>1, <1>3, <1>4, <1>6, <1>7 DEF SameWeights
<1>9. Sigma(w, FlattenSeq(s)) = Sigma(x, rows)
  BY <1>8, FlatWeight
<1> QED BY <1>5, <1>9 DEF w, x

\* The posting that AddDocument makes of a page for one of its tokens, and what it
\* counts for.
PostingFor(t, p) == [url |-> p.url, depth |-> p.depth, tf |-> Count(t, tokenize(p.words))]
Given(v, t, u, p) ==
    IF p.url = u /\ t \in Range(tokenize(p.words)) THEN v[PostingFor(t, p)] ELSE 0

\* The rows of a page count for the same.
LEMMA PageWeighs ==
    ASSUME NEW v \in [PostingType -> Int], NEW t, Good(t), NEW u, NEW p \in Pages
    PROVE  Sigma(OfRow(v, t, u), collectPostings(p)) = Given(v, t, u, p)
<1> DEFINE rows == collectPostings(p)
           w == OfRow(v, t, u)
           e == [k \in DOMAIN rows |-> w[rows[k]]]
<1>1. p.words \in Seq(Words) /\ tokenize(p.words) \in Seq(Words) /\ RowTokens(p.words) \in Seq(Words)
  BY IndexAssumption, TokensType, RowTokensType
<1>2. Count(t, RowTokens(p.words)) = Count(t, tokenize(p.words))
  BY TokenAlike
<1>3. t \in Range(tokenize(p.words)) <=> t \in Range(RowTokens(p.words))
  BY <1>1, <1>2, CountZero
<1>4. w \in [RowType -> Int]
  BY WeightTypes
<1>5. /\ rows \in Seq(RowType) /\ \A row \in Range(rows) : row.url = p.url
      /\ Range(rows) = {RowAt(p, x) : x \in Range(RowTokens(p.words))}
      /\ \A i, j \in 1..Len(rows) : rows[i].token = rows[j].token => i = j
  BY RowsOfPage
<1> HIDE DEF rows
<1>6. Len(rows) \in Nat /\ DOMAIN rows = 1..Len(rows)
      /\ \A k \in 1..Len(rows) : rows[k] \in RowType /\ rows[k] \in Range(rows)
  BY <1>5 DEF Range
<1>7. \A k \in 1..Len(rows) : rows[k].url = p.url
  BY <1>5, <1>6
<1>8. \A k \in 1..Len(rows) :
          w[rows[k]] = IF rows[k].token = t /\ p.url = u THEN v[PostingOf(rows[k])] ELSE 0
  BY <1>6, <1>7 DEF OfRow
<1> HIDE DEF w
<1>9. CASE p.url # u \/ t \notin Range(RowTokens(p.words))
  <2>1. ASSUME NEW k \in 1..Len(rows) PROVE w[rows[k]] = 0
    <3>1. rows[k].token \in Range(RowTokens(p.words))
      <4>1. PICK x \in Range(RowTokens(p.words)) : rows[k] = RowAt(p, x)
        BY <1>5, <1>6
      <4> QED BY <4>1 DEF RowAt
    <3> QED BY <1>8, <1>9, <3>1
  <2>2. Sigma(w, rows) = 0
    BY <1>4, <1>5, <2>1, SigmaNothing
  <2> QED BY <1>3, <1>9, <2>2 DEF Given, rows, w
<1>10. CASE p.url = u /\ t \in Range(RowTokens(p.words))
  <2>1. RowAt(p, t) \in Range(rows)
    BY <1>5, <1>10
  <2>2. PICK j \in 1..Len(rows) : rows[j] = RowAt(p, t)
    BY <1>6, <2>1 DEF Range
  <2>3. rows[j].token = t /\ PostingOf(rows[j]) = PostingFor(t, p)
    BY <1>2, <2>2 DEF RowAt, PostingOf, PostingFor
  <2>4. e \in Seq(Int) /\ Len(e) = Len(rows) /\ \A k \in 1..Len(rows) : e[k] = w[rows[k]]
    BY <1>4, <1>5, Weights
  <2> HIDE DEF e
  <2>5. ASSUME NEW k \in 1..Len(e), k # j PROVE e[k] = 0
    <3>1. rows[k].token # t
      BY <1>5, <2>3, <2>4, <2>5
    <3> QED BY <1>8, <2>4, <3>1
  <2>6. Total(e) = e[j]
    <3>1. j \in 1..Len(e)
      BY <2>4
    <3> QED BY <2>4, <2>5, <3>1, TotalSingle
  <2>7. e[j] = v[PostingFor(t, p)]
    BY <1>8, <1>10, <2>3, <2>4
  <2>8. Sigma(w, rows) = v[PostingFor(t, p)]
    BY <2>6, <2>7 DEF Sigma, e
  <2> QED BY <1>3, <1>10, <2>8 DEF Given, rows, w
<1> QED BY <1>9, <1>10

-----------------------------------------------------------------------------
(* Sums over pages that were added *)

\* What the rows of the pages at the places S of a weigh.
PageWeights(a, w, S) == [n \in DOMAIN a |-> IF n \in S THEN OfPage(w)[a[n]] ELSE 0]
PageSum(a, w, S) == Total(PageWeights(a, w, S))

\* They are numbers.
LEMMA PageNumbers ==
    ASSUME NEW a \in Seq(Pages), NEW w \in [RowType -> Int], NEW S
    PROVE  /\ PageWeights(a, w, S) \in Seq(Int) /\ Len(PageWeights(a, w, S)) = Len(a)
           /\ \A n \in 1..Len(a) : /\ a[n] \in Pages /\ OfPage(w)[a[n]] \in Int
                                   /\ PageWeights(a, w, S)[n] = IF n \in S THEN OfPage(w)[a[n]] ELSE 0
           /\ PageSum(a, w, S) \in Int /\ Len(a) \in Nat
<1> DEFINE e == PageWeights(a, w, S)
<1>1. Len(a) \in Nat /\ DOMAIN a = 1..Len(a) /\ \A n \in 1..Len(a) : a[n] \in Pages
  OBVIOUS
<1>2. OfPage(w) \in [Pages -> Int]
  BY LineWeights
<1>3. \A n \in 1..Len(a) : OfPage(w)[a[n]] \in Int
  BY <1>1, <1>2
<1>4. e = [n \in 1..Len(a) |-> IF n \in S THEN OfPage(w)[a[n]] ELSE 0]
  BY <1>1 DEF PageWeights
<1>5. \A n \in 1..Len(a) : e[n] = IF n \in S THEN OfPage(w)[a[n]] ELSE 0
  BY <1>4
<1>6. e \in [1..Len(a) -> Int]
  BY <1>3, <1>4
<1> HIDE DEF e
<1>7. e \in Seq(Int) /\ Len(e) = Len(a)
  BY <1>1, <1>6, SeqDef
<1>8. Total(e) \in Int
  BY <1>7, TotalInt
<1> QED BY <1>1, <1>3, <1>5, <1>7, <1>8 DEF e, PageSum

\* Pages in two sets apart weigh what those of each weigh; none weigh nothing.
LEMMA PageUnion ==
    ASSUME NEW a \in Seq(Pages), NEW w \in [RowType -> Int], NEW S, NEW R, S \cap R = {}
    PROVE  PageSum(a, w, S \cup R) = PageSum(a, w, S) + PageSum(a, w, R)
<1> DEFINE c == PageWeights(a, w, S \cup R)
           x == PageWeights(a, w, S)
           y == PageWeights(a, w, R)
<1>1. /\ x \in Seq(Int) /\ Len(x) = Len(a) /\ y \in Seq(Int) /\ Len(y) = Len(a)
      /\ c \in Seq(Int) /\ Len(c) = Len(a)
      /\ \A n \in 1..Len(a) : /\ OfPage(w)[a[n]] \in Int
                              /\ x[n] = IF n \in S THEN OfPage(w)[a[n]] ELSE 0
                              /\ y[n] = IF n \in R THEN OfPage(w)[a[n]] ELSE 0
                              /\ c[n] = IF n \in S \cup R THEN OfPage(w)[a[n]] ELSE 0
  BY PageNumbers
<1> HIDE DEF x, y, c
<1>2. ASSUME NEW n \in 1..Len(c) PROVE c[n] = x[n] + y[n]
  <2> DEFINE z == OfPage(w)[a[n]]
  <2>1. /\ z \in Int /\ x[n] = IF n \in S THEN z ELSE 0
        /\ y[n] = IF n \in R THEN z ELSE 0
        /\ c[n] = IF n \in S \cup R THEN z ELSE 0
    BY <1>1
  <2> HIDE DEF z
  <2>2. z + 0 = z /\ 0 + z = z
    BY <2>1
  <2> QED BY <2>1, <2>2
<1>3. Total(c) = Total(x) + Total(y)
  BY <1>1, <1>2, TotalAdd
<1> QED BY <1>3 DEF x, y, c, PageSum

\* No pages have no rows.
LEMMA PageNone ==
    ASSUME NEW a \in Seq(Pages), NEW w \in [RowType -> Int]
    PROVE  PageSum(a, w, {}) = 0
<1> DEFINE x == PageWeights(a, w, {})
<1>1. x \in Seq(Int) /\ Len(x) = Len(a) /\ \A n \in 1..Len(a) : x[n] = 0
  BY PageNumbers
<1> HIDE DEF x
<1>2. Total(x) = 0
  BY <1>1, TotalZero
<1> QED BY <1>2 DEF x, PageSum

\* More pages weigh more, and one page what its rows weigh.
LEMMA PageMore ==
    ASSUME NEW a \in Seq(Pages), NEW w \in [RowType -> Nat], NEW S, NEW R, S \subseteq R
    PROVE  /\ PageSum(a, w, S) \in Nat /\ PageSum(a, w, S) <= PageSum(a, w, R)
           /\ \A n \in 1..Len(a) : n \in S => Sigma(w, collectPostings(a[n])) <= PageSum(a, w, S)
<1> DEFINE x == PageWeights(a, w, S)
           y == PageWeights(a, w, R)
<1>1. w \in [RowType -> Int]
  OBVIOUS
<1>2. /\ x \in Seq(Int) /\ Len(x) = Len(a) /\ y \in Seq(Int) /\ Len(y) = Len(a)
      /\ Len(a) \in Nat
      /\ \A n \in 1..Len(a) : /\ a[n] \in Pages
                              /\ x[n] = IF n \in S THEN OfPage(w)[a[n]] ELSE 0
                              /\ y[n] = IF n \in R THEN OfPage(w)[a[n]] ELSE 0
  BY <1>1, PageNumbers
<1>3. OfPage(w) \in [Pages -> Nat]
  BY <1>1, LineWeights
<1>4. \A n \in 1..Len(a) : OfPage(w)[a[n]] \in Nat
  BY <1>2, <1>3
<1> HIDE DEF x, y
<1>5. ASSUME NEW n \in 1..Len(a) PROVE x[n] >= 0 /\ x[n] <= y[n]
  <2> DEFINE z == OfPage(w)[a[n]]
  <2>1. z \in Nat /\ x[n] = (IF n \in S THEN z ELSE 0) /\ y[n] = IF n \in R THEN z ELSE 0
    BY <1>2, <1>4
  <2> HIDE DEF z
  <2> QED BY <2>1
<1>6. Total(x) \in Nat /\ Total(x) <= Total(y)
  BY <1>2, <1>5, TotalNat, TotalMore
<1>7. ASSUME NEW n \in 1..Len(a), n \in S PROVE Sigma(w, collectPostings(a[n])) <= Total(x)
  <2>1. n \in 1..Len(x) /\ \A k \in 1..Len(x) : x[k] >= 0
    BY <1>2, <1>5
  <2>2. x[n] <= Total(x)
    BY <1>2, <2>1, TotalMember
  <2>3. x[n] = Sigma(w, collectPostings(a[n]))
    BY <1>2, <1>7 DEF OfPage
  <2> QED BY <2>2, <2>3
<1> QED BY <1>6, <1>7 DEF x, y, PageSum

\* A page more.
LEMMA PageAdded ==
    ASSUME NEW a \in Seq(Pages), NEW p \in Pages, NEW w \in [RowType -> Int], NEW S
    PROVE  PageSum(Append(a, p), w, S)
               = PageSum(a, w, S) + (IF Len(a) + 1 \in S THEN Sigma(w, collectPostings(p)) ELSE 0)
<1> DEFINE b == Append(a, p)
           x == PageWeights(a, w, S)
           c == PageWeights(b, w, S)
           z == IF Len(a) + 1 \in S THEN Sigma(w, collectPostings(p)) ELSE 0
           one == <<z>>
           y == x \o one
<1>1. b \in Seq(Pages) /\ Len(b) = Len(a) + 1 /\ b[Len(a) + 1] = p /\ \A n \in 1..Len(a) : b[n] = a[n]
  BY AppendProperties
<1> HIDE DEF b
<1>2. /\ x \in Seq(Int) /\ Len(x) = Len(a) /\ Len(a) \in Nat
      /\ \A n \in 1..Len(a) : x[n] = IF n \in S THEN OfPage(w)[a[n]] ELSE 0
  BY PageNumbers
<1>3. /\ c \in Seq(Int) /\ Len(c) = Len(b)
      /\ \A n \in 1..Len(b) : c[n] = IF n \in S THEN OfPage(w)[b[n]] ELSE 0
  BY <1>1, PageNumbers
<1>4. z \in Int /\ z = IF Len(a) + 1 \in S THEN OfPage(w)[p] ELSE 0
  <2>1. OfPage(w)[p] = Sigma(w, collectPostings(p))
    BY DEF OfPage
  <2>2. OfPage(w)[p] \in Int
    BY LineWeights
  <2> QED BY <2>1, <2>2
<1> HIDE DEF x, c, z
<1>5. one \in Seq(Int) /\ Len(one) = 1 /\ one[1] = z
  BY <1>4
<1>6. Total(one) = z
  <2> HIDE DEF one
  <2>1. 1 \in 1..Len(one) /\ \A k \in 1..Len(one) : k = 1
    BY <1>5
  <2> QED BY <1>5, <2>1, TotalSingle
<1> HIDE DEF one
<1>7. y \in Seq(Int) /\ Total(y) = Total(x) + Total(one)
  BY <1>2, <1>5, TotalConcat
<1>8. Len(y) = Len(x) + Len(one)
      /\ \A i \in 1..(Len(x) + Len(one)) : y[i] = IF i <= Len(x) THEN x[i] ELSE one[i - Len(x)]
  <2>1. x \in Seq(Int) /\ one \in Seq(Int)
    BY <1>2, <1>5
  <2> QED BY <2>1, ConcatProperties
<1> HIDE DEF y
<1>9. Len(y) = Len(c) /\ Len(c) = Len(a) + 1
  BY <1>1, <1>2, <1>3, <1>5, <1>8
<1>10. ASSUME NEW i \in 1..Len(c) PROVE c[i] = y[i]
  <2>1. CASE i <= Len(a)
    <3>1. i \in 1..Len(a) /\ i \in 1..Len(b) /\ i \in 1..(Len(x) + Len(one))
      BY <1>1, <1>2, <1>3, <1>5, <2>1
    <3>2. c[i] = (IF i \in S THEN OfPage(w)[a[i]] ELSE 0) /\ y[i] = x[i]
      BY <1>1, <1>2, <1>3, <1>8, <2>1, <3>1
    <3> QED BY <1>2, <3>1, <3>2
  <2>2. CASE ~(i <= Len(a))
    <3>1. i = Len(a) + 1 /\ i - Len(x) = 1 /\ ~(i <= Len(x)) /\ i \in 1..Len(b) /\ i \in 1..(Len(x) + Len(one))
      BY <1>1, <1>2, <1>3, <1>5, <2>2
    <3>2. c[i] = (IF i \in S THEN OfPage(w)[p] ELSE 0) /\ y[i] = one[1]
      BY <1>1, <1>3, <1>8, <3>1
    <3> QED BY <1>4, <1>5, <3>1, <3>2
  <2> QED BY <2>1, <2>2
<1>11. c = y
  BY <1>3, <1>7, <1>9, <1>10, SeqEqual
<1>12. Total(c) = Total(x) + z
  BY <1>6, <1>7, <1>11
<1> QED BY <1>12 DEF b, c, x, z, PageSum

\* The pages at all places weigh what all of them weigh.
LEMMA PageAll ==
    ASSUME NEW a \in Seq(Pages), NEW w \in [RowType -> Int]
    PROVE  PageSum(a, w, DOMAIN a) = Sigma(OfPage(w), a)
<1> DEFINE x == PageWeights(a, w, DOMAIN a)
           y == [n \in DOMAIN a |-> OfPage(w)[a[n]]]
<1>1. x = y
  BY DEF PageWeights
<1> HIDE DEF x, y
<1> QED BY <1>1 DEF x, y, PageSum, Sigma

\* Pages without rows make no difference.
LEMMA PageRest ==
    ASSUME NEW a \in Seq(Pages), NEW w \in [RowType -> Int], NEW S,
           \A n \in DOMAIN a : n \in S \/ collectPostings(a[n]) = <<>>
    PROVE  PageSum(a, w, S) = PageSum(a, w, DOMAIN a)
<1> DEFINE x == PageWeights(a, w, S)
           y == PageWeights(a, w, DOMAIN a)
<1>1. ASSUME NEW n \in DOMAIN a, n \notin S PROVE OfPage(w)[a[n]] = 0
  <2>1. a[n] \in Pages
    OBVIOUS
  <2>2. OfPage(w)[a[n]] = Sigma(w, collectPostings(a[n]))
    BY <2>1 DEF OfPage
  <2>3. Sigma(w, <<>>) = 0
    BY SigmaSmall
  <2> QED BY <1>1, <2>2, <2>3
<1>2. x = y
  BY <1>1 DEF PageWeights
<1> HIDE DEF x, y
<1> QED BY <1>2 DEF x, y, PageSum

\* A row measured as one.
One == [row \in RowType |-> 1]

\* Rows that weigh one each weigh as much as there are.
LEMMA SigmaLen ==
    ASSUME NEW rows \in Seq(RowType)
    PROVE  One \in [RowType -> Nat] /\ Sigma(One, rows) = Len(rows)
<1> DEFINE e == [n \in DOMAIN rows |-> One[rows[n]]]
           g == [k \in 0..Len(rows) |-> k]
<1>1. One \in [RowType -> Nat] /\ One \in [RowType -> Int] /\ \A row \in RowType : One[row] = 1
  BY DEF One
<1>2. e \in Seq(Int) /\ Len(e) = Len(rows) /\ Len(rows) \in Nat
      /\ \A n \in 1..Len(rows) : e[n] = One[rows[n]] /\ rows[n] \in RowType
  BY <1>1, Weights
<1> HIDE DEF e
<1>3. \A k \in 1..Len(rows) : e[k] = 1
  BY <1>1, <1>2
<1>4. IsTotal(g, e)
  <2>1. g \in [0..Len(e) -> Int] /\ g[0] = 0
    BY <1>2
  <2>2. ASSUME NEW k \in 1..Len(e) PROVE g[k] = g[k - 1] + e[k]
    <3>1. k \in 0..Len(rows) /\ k - 1 \in 0..Len(rows)
      BY <1>2
    <3>2. g[k] = k /\ g[k - 1] = k - 1 /\ e[k] = 1
      BY <1>2, <1>3, <3>1
    <3> HIDE DEF g
    <3>3. k = (k - 1) + 1
      BY <1>2
    <3> QED BY <3>2, <3>3
  <2> HIDE DEF g
  <2> QED BY <2>1, <2>2 DEF IsTotal
<1>5. g[Len(rows)] = Len(rows)
  BY <1>2
<1> HIDE DEF g
<1>6. Total(e) = g[Len(e)]
  BY <1>2, <1>4, TotalIs
<1> QED BY <1>1, <1>2, <1>5, <1>6 DEF Sigma, e

\* Nothing in a sequence weighs more than the sequence.
LEMMA SigmaMember ==
    ASSUME NEW T, NEW w \in [T -> Nat], NEW s \in Seq(T), NEW x \in Range(s)
    PROVE  w[x] <= Sigma(w, s)
<1> DEFINE e == [n \in DOMAIN s |-> w[s[n]]]
<1>1. w \in [T -> Int]
  OBVIOUS
<1>2. e \in Seq(Int) /\ Len(e) = Len(s) /\ \A k \in 1..Len(s) : e[k] = w[s[k]] /\ s[k] \in T
  BY <1>1, Weights
<1>3. DOMAIN s = 1..Len(s)
  OBVIOUS
<1>4. PICK n \in 1..Len(s) : s[n] = x
  BY <1>3 DEF Range
<1> HIDE DEF e
<1>5. \A k \in 1..Len(e) : e[k] >= 0
  <2>1. \A y \in T : w[y] \in Nat
    OBVIOUS
  <2> QED BY <1>2, <2>1
<1>6. e[n] <= Total(e)
  BY <1>2, <1>5, TotalMember
<1>7. e[n] = w[x]
  BY <1>2, <1>4
<1> QED BY <1>6, <1>7 DEF Sigma, e

-----------------------------------------------------------------------------
(* Which pages are where *)

\* The pages whose rows are in p.data, and those whose rows wait with an indexer,
\* are different places of a, the pages that were added.
Places(a, kept, held) ==
    /\ kept \subseteq DOMAIN a /\ held \in [Indexers -> SUBSET DOMAIN a]
    /\ \A i \in Indexers : /\ held[i] \cap kept = {}
                           /\ \A j \in Indexers : j # i => held[i] \cap held[j] = {}

\* An indexer has the rows of its pages, by whatever they are measured.
Waiting(a, rows, held) ==
    \A i \in Indexers : \A w \in [RowType -> Int] : Sigma(w, rows[i]) = PageSum(a, w, held[i])

\* The readable lines of p.data are not more than the rows of its pages.
Written(a, f, kept) ==
    \A w \in [RowType -> Nat] : Sigma(OfLine(w), f) <= PageSum(a, w, kept)

\* They are exactly those rows, and all that was stored, while no write was cut short.
Exact(a, f, rows, kept) ==
    /\ \A k \in DOMAIN f : f[k].nl
    /\ \A w \in [RowType -> Int] : /\ Sigma(w, rows) = PageSum(a, w, kept)
                                   /\ Sigma(OfLine(w), f) = PageSum(a, w, kept)

\* No page was lost with p.data or in the memory of an indexer.
NoneGone(a, kept, held) ==
    \A n \in DOMAIN a : n \in kept \/ (\E i \in Indexers : n \in held[i]) \/ collectPostings(a[n]) = <<>>

\* The postings of an index are at most, or exactly, those of the pages added.
Within(index, a) ==
    \A v \in [PostingType -> Nat], t \in Words, u \in URLs :
        Good(t) => Sigma(OfPosting(v, u), index[t]) <= PageSum(a, OfRow(v, t, u), DOMAIN a)
AllOf(index, a) ==
    \A v \in [PostingType -> Int], t \in Words, u \in URLs :
        Good(t) => Sigma(OfPosting(v, u), index[t]) = PageSum(a, OfRow(v, t, u), DOMAIN a)

PagesInv ==
    \E kept, held :
        /\ Places(added, kept, held) /\ Waiting(added, pending, held) /\ Written(added, file, kept)
        /\ tornWrites = 0 =>
              /\ Exact(added, file, stored, kept)
              /\ NoneGone(added, kept, held) => AllOf(postings, added)

\* Rows are those of pages, and the table has one for each token and url.
FromPages(rows, a) == \A row \in rows : \E n \in DOMAIN a : row \in Range(collectPostings(a[n]))
OneEach(rows) == \A x, y \in rows : x.token = y.token /\ x.url = y.url => x = y
TableRows ==
    /\ FromPages(table, added) /\ OneEach(table)
    /\ \A i \in Indexers : FromPages(Range(pending[i]), added)

SumsInv == PagesInv /\ TableRows /\ Within(postings, added)

\* A page that is added makes no difference to the pages at other places.
LEMMA PageGrow ==
    ASSUME NEW a \in Seq(Pages), NEW p \in Pages, NEW w \in [RowType -> Int], NEW S, S \subseteq DOMAIN a
    PROVE  /\ PageSum(Append(a, p), w, S) = PageSum(a, w, S)
           /\ PageSum(Append(a, p), w, S \cup {Len(a) + 1})
                  = PageSum(a, w, S) + Sigma(w, collectPostings(p))
<1> DEFINE n == Len(a) + 1
           R == S \cup {n}
<1>1. DOMAIN a = 1..Len(a) /\ Len(a) \in Nat
  OBVIOUS
<1>2. n \notin S /\ n \in R
  BY <1>1
<1>3. PageSum(a, w, R) = PageSum(a, w, S)
  <2>1. \A k \in DOMAIN a : k \in R <=> k \in S
    BY <1>1
  <2> HIDE DEF R
  <2>2. PageWeights(a, w, R) = PageWeights(a, w, S)
    BY <2>1 DEF PageWeights
  <2> QED BY <2>2 DEF PageSum
<1> HIDE DEF R
<1>4. /\ PageSum(Append(a, p), w, S) = PageSum(a, w, S) + 0
      /\ PageSum(Append(a, p), w, R) = PageSum(a, w, R) + Sigma(w, collectPostings(p))
  BY <1>2, PageAdded
<1>5. PageSum(a, w, S) \in Int
  BY PageNumbers
<1> QED BY <1>3, <1>4, <1>5 DEF R

\* Nothing has been added yet.
LEMMA SumsInit == Init => SumsInv
<1> SUFFICES ASSUME Init PROVE SumsInv
  OBVIOUS
<1>1. /\ added = <<>> /\ added \in Seq(Pages) /\ DOMAIN added = {}
      /\ pending = [i \in Indexers |-> <<>>] /\ file = <<>> /\ stored = <<>> /\ table = {}
      /\ DOMAIN file = {} /\ \A t \in Words : postings[t] = <<>>
  BY DEF Init, NoPostings
<1> DEFINE held == [i \in Indexers |-> {}]
<1>2. \A w \in [RowType -> Int] : PageSum(added, w, {}) = 0 /\ Sigma(w, <<>>) = 0
                                 /\ Sigma(OfLine(w), <<>>) = 0
  BY <1>1, PageNone, SigmaSmall, LineWeights
<1>3. Places(added, {}, held)
  BY DEF Places
<1>4. Waiting(added, pending, held) /\ Exact(added, file, stored, {})
  BY <1>1, <1>2 DEF Waiting, Exact
<1>5. Written(added, file, {})
  <2>1. \A w \in [RowType -> Nat] : w \in [RowType -> Int]
    OBVIOUS
  <2>2. \A w \in [RowType -> Nat] : Sigma(OfLine(w), file) = 0 /\ PageSum(added, w, {}) = 0
    BY <1>1, <1>2, <2>1
  <2> QED BY <2>2 DEF Written
<1>6. ASSUME NEW v \in [PostingType -> Int], NEW t \in Words, NEW u \in URLs
      PROVE  Sigma(OfPosting(v, u), postings[t]) = 0 /\ PageSum(added, OfRow(v, t, u), DOMAIN added) = 0
  <2>1. OfPosting(v, u) \in [PostingType -> Int] /\ OfRow(v, t, u) \in [RowType -> Int]
    BY WeightTypes
  <2>2. Sigma(OfPosting(v, u), <<>>) = 0
    BY <2>1, SigmaSmall
  <2> QED BY <1>1, <1>2, <2>1, <2>2
<1>7. AllOf(postings, added)
  BY <1>6 DEF AllOf
<1>8. Within(postings, added)
  <2>1. \A v \in [PostingType -> Nat] : v \in [PostingType -> Int]
    OBVIOUS
  <2>2. \A v \in [PostingType -> Nat], t \in Words, u \in URLs :
            Sigma(OfPosting(v, u), postings[t]) = 0 /\ PageSum(added, OfRow(v, t, u), DOMAIN added) = 0
    BY <1>6, <2>1
  <2> QED BY <2>2 DEF Within
<1>9. PagesInv
  BY <1>3, <1>4, <1>5, <1>7 DEF PagesInv
<1>10. TableRows
  BY <1>1 DEF TableRows, FromPages, OneEach, Range
<1> QED BY <1>8, <1>9, <1>10 DEF SumsInv

\* Steps that leave pages, rows and files alone.
LEMMA SumsStutter ==
    SumsInv /\ UNCHANGED <<postings, added, pending, table, file, stored, tornWrites>> => SumsInv'
BY DEF SumsInv, PagesInv, TableRows
\* The postings of a page count for what its rows do.
LEMMA GivenAdded ==
    ASSUME StorageInv, NEW i \in Indexers, NEW p \in Pages, AddDocument(i, p),
           NEW v \in [PostingType -> Int], NEW t \in Words, Good(t), NEW u
    PROVE  /\ Sigma(OfPosting(v, u), postings'[t])
                  = Sigma(OfPosting(v, u), postings[t]) + Given(v, t, u, p)
           /\ PageSum(added', OfRow(v, t, u), DOMAIN added')
                  = PageSum(added, OfRow(v, t, u), DOMAIN added) + Given(v, t, u, p)
           /\ Given(v, t, u, p) \in Int /\ Sigma(OfPosting(v, u), postings[t]) \in Int
           /\ PageSum(added, OfRow(v, t, u), DOMAIN added) \in Int
<1> DEFINE w == OfPosting(v, u)
           x == OfRow(v, t, u)
           new == PostingFor(t, p)
           tokens == tokenize(p.words)
<1>1. postings'[t] = (IF t \in Range(tokens) THEN Append(postings[t], new) ELSE postings[t])
      /\ added' = Append(added, p)
  BY DEF AddDocument, PostingFor
<1>2. postings[t] \in Seq(PostingType) /\ added \in Seq(Pages)
  BY DEF StorageInv, StorageTypes
<1>3. w \in [PostingType -> Int] /\ x \in [RowType -> Int]
  BY WeightTypes
<1>4. new \in PostingType /\ new.url = p.url
  <2>1. tokens \in Seq(Words) /\ p.depth \in Depths /\ p.url \in URLs
    BY TokensType, IndexAssumption DEF URLs, Depths
  <2>2. Count(t, tokens) \in Nat
    BY <2>1, CountNat
  <2> QED BY <2>1, <2>2 DEF PostingFor, PostingType
<1>5. w[new] = IF p.url = u THEN v[new] ELSE 0
  BY <1>4 DEF OfPosting
<1>6. Given(v, t, u, p) = IF p.url = u /\ t \in Range(tokens) THEN v[new] ELSE 0
  BY DEF Given
<1>7. v[new] \in Int
  BY <1>4
<1> HIDE DEF w, x, new, tokens
<1>8. Sigma(w, postings'[t]) = Sigma(w, postings[t]) + Given(v, t, u, p) /\ Given(v, t, u, p) \in Int
      /\ Sigma(w, postings[t]) \in Int
  <2> DEFINE s == postings[t]
  <2>1. s \in Seq(PostingType) /\ <<new>> \in Seq(PostingType) /\ Append(s, new) = s \o <<new>>
    BY <1>2, <1>4, AppendIsConcat
  <2> HIDE DEF s
  <2>2. Sigma(w, s \o <<new>>) = Sigma(w, s) + Sigma(w, <<new>>) /\ Sigma(w, s) \in Int
    BY <1>3, <2>1, SigmaConcat, Weights
  <2>3. Sigma(w, <<new>>) = w[new]
    BY <1>3, <1>4, SigmaSmall
  <2>4. Sigma(w, Append(s, new)) = Sigma(w, s) + w[new]
    BY <2>1, <2>2, <2>3
  <2>5. CASE t \in Range(tokens)
    BY <1>1, <1>5, <1>6, <1>7, <2>2, <2>4, <2>5 DEF s
  <2>6. CASE t \notin Range(tokens)
    BY <1>1, <1>6, <2>2, <2>6 DEF s
  <2> QED BY <2>5, <2>6
<1>9. PageSum(added', x, DOMAIN added') = PageSum(added, x, DOMAIN added) + Given(v, t, u, p)
      /\ PageSum(added, x, DOMAIN added) \in Int
  <2>1. DOMAIN added' = DOMAIN added \cup {Len(added) + 1} /\ DOMAIN added \subseteq DOMAIN added
    BY <1>1, <1>2
  <2>2. Sigma(x, collectPostings(p)) = Given(v, t, u, p)
    BY PageWeighs DEF x
  <2>3. PageSum(added, x, DOMAIN added) \in Int
    BY <1>2, <1>3, PageNumbers
  <2> DEFINE S == DOMAIN added
  <2>4. S \subseteq DOMAIN added
    OBVIOUS
  <2> HIDE DEF S
  <2>5. PageSum(Append(added, p), x, S \cup {Len(added) + 1})
            = PageSum(added, x, S) + Sigma(x, collectPostings(p))
    <3> DEFINE a == added
    <3>1. a \in Seq(Pages) /\ S \subseteq DOMAIN a
      BY <1>2, <2>4
    <3>2. x \in [RowType -> Int]
      BY <1>3
    <3> HIDE DEF a
    <3>3. PageSum(Append(a, p), x, S \cup {Len(a) + 1}) = PageSum(a, x, S) + Sigma(x, collectPostings(p))
      BY <3>1, <3>2, PageGrow
    <3> QED BY <3>3 DEF a
  <2> QED BY <1>1, <2>1, <2>2, <2>3, <2>5 DEF S
<1> QED BY <1>8, <1>9 DEF w, x
\* The rows of a page that is added wait with its indexer.
LEMMA SumsAdd ==
    ASSUME StorageInv, SumsInv, NEW i \in Indexers, NEW p \in Pages, AddDocument(i, p)
    PROVE  SumsInv'
<1> DEFINE rows == collectPostings(p)
           n == Len(added) + 1
<1>1. /\ added' = Append(added, p) /\ pending' = [pending EXCEPT ![i] = pending[i] \o rows]
      /\ UNCHANGED <<table, file, stored, tornWrites>>
  BY DEF AddDocument, diskVars
<1>2. added \in Seq(Pages) /\ pending \in [Indexers -> Seq(RowType)] /\ Len(added) \in Nat
      /\ DOMAIN added = 1..Len(added)
  BY DEF StorageInv, StorageTypes
<1>3. rows \in Seq(RowType)
  BY RowsOfPage
<1>4. /\ DOMAIN added' = DOMAIN added \cup {n} /\ n \notin DOMAIN added
      /\ added'[n] = p /\ \A k \in DOMAIN added : added'[k] = added[k]
  BY <1>1, <1>2
<1>5. PICK kept, held :
        /\ Places(added, kept, held) /\ Waiting(added, pending, held) /\ Written(added, file, kept)
        /\ tornWrites = 0 =>
              /\ Exact(added, file, stored, kept)
              /\ NoneGone(added, kept, held) => AllOf(postings, added)
  BY DEF SumsInv, PagesInv
<1> DEFINE held2 == [held EXCEPT ![i] = @ \cup {n}]
<1>6. /\ kept \subseteq DOMAIN added /\ held \in [Indexers -> SUBSET DOMAIN added]
      /\ \A j \in Indexers : /\ held[j] \cap kept = {}
                             /\ \A k \in Indexers : k # j => held[j] \cap held[k] = {}
  BY <1>5 DEF Places
<1>7. \A j \in Indexers : held2[j] = IF j = i THEN held[i] \cup {n} ELSE held[j]
  BY <1>6
<1>8. held2 \in [Indexers -> SUBSET DOMAIN added']
  BY <1>4, <1>6
<1> HIDE DEF rows, n, held2
<1>9. Places(added', kept, held2)
  <2>1. kept \subseteq DOMAIN added' /\ n \notin kept /\ \A j \in Indexers : n \notin held[j]
    BY <1>4, <1>6
  <2>2. ASSUME NEW j \in Indexers
        PROVE  held2[j] \cap kept = {} /\ \A k \in Indexers : k # j => held2[j] \cap held2[k] = {}
    <3>1. held2[j] \cap kept = {}
      BY <1>6, <1>7, <2>1
    <3>2. ASSUME NEW k \in Indexers, k # j PROVE held2[j] \cap held2[k] = {}
      <4>1. held[j] \cap held[k] = {}
        BY <1>6, <3>2
      <4>2. held2[j] = (IF j = i THEN held[j] \cup {n} ELSE held[j])
            /\ held2[k] = (IF k = i THEN held[k] \cup {n} ELSE held[k])
        BY <1>7
      <4> QED BY <2>1, <3>2, <4>1, <4>2
    <3> QED BY <3>1, <3>2
  <2> QED BY <1>8, <2>1, <2>2 DEF Places
<1>10. \A w \in [RowType -> Int] : \A S \in SUBSET DOMAIN added :
          /\ PageSum(added', w, S) = PageSum(added, w, S)
          /\ PageSum(added', w, S \cup {n}) = PageSum(added, w, S) + Sigma(w, rows)
  <2> DEFINE a == added
  <2>1. a \in Seq(Pages)
    BY <1>2
  <2> HIDE DEF a
  <2>2. \A w \in [RowType -> Int] : \A S \in SUBSET DOMAIN a :
          /\ PageSum(Append(a, p), w, S) = PageSum(a, w, S)
          /\ PageSum(Append(a, p), w, S \cup {Len(a) + 1})
                 = PageSum(a, w, S) + Sigma(w, collectPostings(p))
    <3>1. ASSUME NEW w \in [RowType -> Int], NEW S \in SUBSET DOMAIN a
          PROVE  /\ PageSum(Append(a, p), w, S) = PageSum(a, w, S)
                 /\ PageSum(Append(a, p), w, S \cup {Len(a) + 1})
                       = PageSum(a, w, S) + Sigma(w, collectPostings(p))
      <4>1. S \subseteq DOMAIN a
        OBVIOUS
      <4> QED BY <2>1, <4>1, PageGrow
    <3> QED BY <3>1
  <2> QED BY <1>1, <2>2 DEF a, n, rows
<1>11. Waiting(added', pending', held2)
  <2>1. ASSUME NEW j \in Indexers, NEW w \in [RowType -> Int]
        PROVE  Sigma(w, pending'[j]) = PageSum(added', w, held2[j])
    <3>1. Sigma(w, pending[j]) = PageSum(added, w, held[j]) /\ held[j] \in SUBSET DOMAIN added
      BY <1>5, <1>6 DEF Waiting
    <3>2. CASE j = i
      <4>1. pending'[j] = pending[j] \o rows /\ pending[j] \in Seq(RowType) /\ held2[j] = held[j] \cup {n}
        BY <1>1, <1>2, <1>7, <3>2
      <4>2. Sigma(w, pending[j] \o rows) = Sigma(w, pending[j]) + Sigma(w, rows)
        <5> DEFINE q == pending[j]
        <5>1. q \in Seq(RowType)
          BY <4>1
        <5> HIDE DEF q
        <5>2. Sigma(w, q \o rows) = Sigma(w, q) + Sigma(w, rows)
          BY <1>3, <5>1, SigmaConcat
        <5> QED BY <5>2 DEF q
      <4>3. PageSum(added', w, held[j] \cup {n}) = PageSum(added, w, held[j]) + Sigma(w, rows)
        BY <1>10, <3>1
      <4> QED BY <3>1, <4>1, <4>2, <4>3
    <3>3. CASE j # i
      <4>1. pending'[j] = pending[j] /\ held2[j] = held[j]
        BY <1>1, <1>2, <1>7, <3>3
      <4> QED BY <1>10, <3>1, <4>1
    <3> QED BY <3>2, <3>3
  <2> QED BY <2>1 DEF Waiting
<1>12. kept \in SUBSET DOMAIN added /\ \A w \in [RowType -> Nat] : w \in [RowType -> Int]
  BY <1>6
<1>13. Written(added', file', kept)
  <2>1. \A w \in [RowType -> Nat] : PageSum(added', w, kept) = PageSum(added, w, kept)
    BY <1>10, <1>12
  <2> QED BY <1>1, <1>5, <2>1 DEF Written
<1>14. ASSUME tornWrites' = 0
       PROVE  /\ Exact(added', file', stored', kept)
              /\ NoneGone(added', kept, held2) => AllOf(postings', added')
  <2>1. Exact(added, file, stored, kept) /\ (NoneGone(added, kept, held) => AllOf(postings, added))
    BY <1>1, <1>5, <1>14
  <2>2. Exact(added', file', stored', kept)
    <3>1. \A w \in [RowType -> Int] : PageSum(added', w, kept) = PageSum(added, w, kept)
      BY <1>10, <1>12
    <3> QED BY <1>1, <2>1, <3>1 DEF Exact
  <2>3. ASSUME NoneGone(added', kept, held2) PROVE AllOf(postings', added')
    <3>1. NoneGone(added, kept, held)
      <4>1. ASSUME NEW k \in DOMAIN added
            PROVE  k \in kept \/ (\E j \in Indexers : k \in held[j]) \/ collectPostings(added[k]) = <<>>
        <5>1. k \in DOMAIN added' /\ added'[k] = added[k] /\ k # n
          BY <1>4
        <5>2. k \in kept \/ (\E j \in Indexers : k \in held2[j]) \/ collectPostings(added[k]) = <<>>
          BY <2>3, <5>1 DEF NoneGone
        <5> QED BY <1>7, <5>1, <5>2
      <4> QED BY <4>1 DEF NoneGone
    <3>2. ASSUME NEW v \in [PostingType -> Int], NEW t \in Words, NEW u \in URLs, Good(t)
          PROVE  Sigma(OfPosting(v, u), postings'[t]) = PageSum(added', OfRow(v, t, u), DOMAIN added')
      <4>1. Sigma(OfPosting(v, u), postings[t]) = PageSum(added, OfRow(v, t, u), DOMAIN added)
        BY <2>1, <3>1, <3>2 DEF AllOf
      <4> QED BY <3>2, <4>1, GivenAdded
    <3> QED BY <3>2 DEF AllOf
  <2> QED BY <2>2, <2>3
<1>15. Within(postings', added')
  <2>1. ASSUME NEW v \in [PostingType -> Nat], NEW t \in Words, NEW u \in URLs, Good(t)
        PROVE  Sigma(OfPosting(v, u), postings'[t]) <= PageSum(added', OfRow(v, t, u), DOMAIN added')
    <3>1. v \in [PostingType -> Int]
      OBVIOUS
    <3>2. Sigma(OfPosting(v, u), postings[t]) <= PageSum(added, OfRow(v, t, u), DOMAIN added)
      BY <2>1 DEF SumsInv, Within
    <3>3. /\ Sigma(OfPosting(v, u), postings'[t])
                  = Sigma(OfPosting(v, u), postings[t]) + Given(v, t, u, p)
           /\ PageSum(added', OfRow(v, t, u), DOMAIN added')
                  = PageSum(added, OfRow(v, t, u), DOMAIN added) + Given(v, t, u, p)
           /\ Given(v, t, u, p) \in Int /\ Sigma(OfPosting(v, u), postings[t]) \in Int
           /\ PageSum(added, OfRow(v, t, u), DOMAIN added) \in Int
      BY <2>1, <3>1, GivenAdded
    <3> QED BY <3>2, <3>3
  <2> QED BY <2>1 DEF Within
<1>16. PagesInv'
  <2>1. /\ Places(added', kept, held2) /\ Waiting(added', pending', held2) /\ Written(added', file', kept)
        /\ tornWrites' = 0 =>
              /\ Exact(added', file', stored', kept)
              /\ NoneGone(added', kept, held2) => AllOf(postings', added')
    BY <1>9, <1>11, <1>13, <1>14
  <2> QED BY <2>1 DEF PagesInv
<1>17. TableRows'
  <2>1. \A S : FromPages(S, added) => FromPages(S, added')
    BY <1>4 DEF FromPages
  <2>2. FromPages(Range(rows), added')
    BY <1>4 DEF FromPages, rows
  <2>3. ASSUME NEW j \in Indexers PROVE FromPages(Range(pending'[j]), added')
    <3>1. FromPages(Range(pending[j]), added')
      BY <2>1 DEF SumsInv, TableRows
    <3>2. CASE j = i
      <4>1. pending'[j] = pending[j] \o rows /\ pending[j] \in Seq(RowType)
        BY <1>1, <1>2, <3>2
      <4>2. Range(pending[j] \o rows) = Range(pending[j]) \cup Range(rows)
        BY <1>3, <4>1, RangeConcat, Zenon
      <4> QED BY <2>2, <3>1, <4>1, <4>2 DEF FromPages
    <3>3. CASE j # i
      BY <1>1, <1>2, <3>1, <3>3
    <3> QED BY <3>2, <3>3
  <2> QED BY <1>1, <2>1, <2>3 DEF SumsInv, TableRows
<1> QED BY <1>15, <1>16, <1>17 DEF SumsInv

\* A start of a crawl: the pages of p.data are gone with it.
LEMMA SumsStart ==
    ASSUME StorageInv, SumsInv, NEW i \in Indexers, StartCrawl(i)
    PROVE  SumsInv'
<1>1. file' = <<>> /\ stored' = <<>> /\ UNCHANGED <<postings, added, pending, table, tornWrites>>
  BY DEF StartCrawl, memVars
<1>2. added \in Seq(Pages)
  BY DEF StorageInv, StorageTypes
<1>3. PICK kept, held :
        /\ Places(added, kept, held) /\ Waiting(added, pending, held) /\ Written(added, file, kept)
        /\ tornWrites = 0 =>
              /\ Exact(added, file, stored, kept)
              /\ NoneGone(added, kept, held) => AllOf(postings, added)
  BY DEF SumsInv, PagesInv
<1>4. \A w \in [RowType -> Int] : PageSum(added, w, {}) = 0 /\ Sigma(w, <<>>) = 0
                                 /\ Sigma(OfLine(w), <<>>) = 0
  BY <1>2, PageNone, SigmaSmall, LineWeights
<1>5. Places(added, {}, held)
  BY <1>3 DEF Places
<1>6. Written(added, file', {}) /\ Exact(added, file', stored', {})
  <2>1. \A w \in [RowType -> Nat] : w \in [RowType -> Int]
    OBVIOUS
  <2>2. \A w \in [RowType -> Nat] : Sigma(OfLine(w), file') = 0 /\ PageSum(added, w, {}) = 0
    BY <1>1, <1>4, <2>1
  <2>3. Written(added, file', {})
    BY <2>2 DEF Written
  <2>4. \A k \in DOMAIN file' : file'[k].nl
    BY <1>1
  <2> QED BY <1>1, <1>4, <2>3, <2>4 DEF Exact
<1>7. NoneGone(added, {}, held) => NoneGone(added, kept, held)
  BY DEF NoneGone
<1>8. /\ Places(added', {}, held) /\ Waiting(added', pending', held) /\ Written(added', file', {})
      /\ tornWrites' = 0 =>
            /\ Exact(added', file', stored', {})
            /\ NoneGone(added', {}, held) => AllOf(postings', added')
  BY <1>1, <1>3, <1>5, <1>6, <1>7
<1>9. PagesInv'
  BY <1>8 DEF PagesInv
<1> QED BY <1>1, <1>9 DEF SumsInv, TableRows

\* The table gets the rows of a batch.
LEMMA SumsSave ==
    ASSUME StorageInv, SumsInv, NEW i \in Indexers, SavePostingsBatch(i)
    PROVE  SumsInv'
<1> DEFINE rows == pending[i]
           Key(row) == <<row.token, row.url>>
           latest == {rows[n] : n \in {m \in DOMAIN rows :
                         \A k \in DOMAIN rows : k > m => Key(rows[k]) # Key(rows[m])}}
           old == {row \in table : \A new \in latest : Key(new) # Key(row)}
<1>1. table' = Saved(rows) /\ UNCHANGED <<postings, added, pending, file, stored, tornWrites>>
  BY DEF SavePostingsBatch, memVars
<1>2. rows \in Seq(RowType) /\ Len(rows) \in Nat /\ DOMAIN rows = 1..Len(rows)
  BY DEF StorageInv, StorageTypes
<1>3. table' = latest \cup old
  BY <1>1 DEF Saved
<1>4. FromPages(latest, added) /\ FromPages(old, added)
  <2>1. latest \subseteq Range(rows) /\ old \subseteq table
    BY DEF Range
  <2>2. FromPages(Range(rows), added) /\ FromPages(table, added)
    BY DEF SumsInv, TableRows
  <2> HIDE DEF latest, old, rows
  <2> QED BY <2>1, <2>2 DEF FromPages
<1>5. OneEach(table')
  <2>1. ASSUME NEW x \in latest, NEW y \in latest, Key(x) = Key(y) PROVE x = y
    <3>1. PICK m \in DOMAIN rows : x = rows[m] /\ \A k \in DOMAIN rows : k > m => Key(rows[k]) # Key(rows[m])
      OBVIOUS
    <3>2. PICK n \in DOMAIN rows : y = rows[n] /\ \A k \in DOMAIN rows : k > n => Key(rows[k]) # Key(rows[n])
      OBVIOUS
    <3> HIDE DEF Key, latest, old, rows
    <3>3. ~(m > n) /\ ~(n > m)
      BY <2>1, <3>1, <3>2
    <3>4. m = n
      BY <1>2, <3>3
    <3> QED BY <3>1, <3>2, <3>4
  <2>2. \A x \in latest, y \in old : Key(x) # Key(y)
    OBVIOUS
  <2>3. \A x, y \in old : Key(x) = Key(y) => x = y
    BY DEF SumsInv, TableRows, OneEach
  <2> HIDE DEF latest, old
  <2>4. \A x, y \in latest \cup old : Key(x) = Key(y) => x = y
    BY <2>1, <2>2, <2>3
  <2> QED BY <1>3, <2>4 DEF OneEach
<1>6. FromPages(table', added)
  <2> HIDE DEF latest, old
  <2> QED BY <1>3, <1>4 DEF FromPages
<1>7. TableRows'
  BY <1>1, <1>5, <1>6 DEF SumsInv, TableRows
<1> QED BY <1>1, <1>7 DEF SumsInv, PagesInv
\* Lines that are not more than the rows of other pages.
LEMMA WrittenMore ==
    ASSUME NEW a \in Seq(Pages), NEW f \in Seq(LineType), NEW ls \in Seq(LineType), NEW S, NEW R,
           S \cap R = {}, Written(a, f, S), Written(a, ls, R)
    PROVE  Written(a, AppendLines(f, ls), S \cup R)
<1> SUFFICES ASSUME NEW w \in [RowType -> Nat]
             PROVE  Sigma(OfLine(w), AppendLines(f, ls)) <= PageSum(a, w, S \cup R)
  BY DEF Written
<1>1. w \in [RowType -> Int]
  OBVIOUS
<1>2. Sigma(OfLine(w), AppendLines(f, ls)) <= Sigma(OfLine(w), f) + Sigma(OfLine(w), ls)
  BY AppendWeighs
<1>3. Sigma(OfLine(w), f) <= PageSum(a, w, S) /\ Sigma(OfLine(w), ls) <= PageSum(a, w, R)
  BY DEF Written
<1>4. PageSum(a, w, S \cup R) = PageSum(a, w, S) + PageSum(a, w, R)
  BY <1>1, PageUnion
<1>5. PageSum(a, w, S) \in Int /\ PageSum(a, w, R) \in Int
  BY <1>1, PageNumbers
<1>6. OfLine(w) \in [LineType -> Int]
  BY <1>1, LineWeights
<1>7. AppendLines(f, ls) \in Seq(LineType)
  BY Appended
<1>8. Sigma(OfLine(w), f) \in Int /\ Sigma(OfLine(w), ls) \in Int /\ Sigma(OfLine(w), AppendLines(f, ls)) \in Int
  BY <1>6, <1>7, Weights
<1> QED BY <1>2, <1>3, <1>4, <1>5, <1>8

\* The pages of an indexer that has no rows left are in p.data, or gone.
LEMMA PlacesMoved ==
    ASSUME NEW a, NEW kept, NEW held, Places(a, kept, held), NEW i \in Indexers
    PROVE  LET none == [held EXCEPT ![i] = {}]
           IN  /\ Places(a, kept \cup held[i], none) /\ Places(a, kept, none)
               /\ kept \cap held[i] = {}
               /\ \A j \in Indexers : none[j] = IF j = i THEN {} ELSE held[j]
<1> DEFINE none == [held EXCEPT ![i] = {}]
<1>1. /\ kept \subseteq DOMAIN a /\ held \in [Indexers -> SUBSET DOMAIN a]
      /\ \A j \in Indexers : /\ held[j] \cap kept = {}
                             /\ \A k \in Indexers : k # j => held[j] \cap held[k] = {}
  BY DEF Places
<1>2. \A j \in Indexers : none[j] = IF j = i THEN {} ELSE held[j]
  BY <1>1
<1>3. none \in [Indexers -> SUBSET DOMAIN a]
  BY <1>1
<1> HIDE DEF none
<1>4. Places(a, kept, none)
  BY <1>1, <1>2, <1>3 DEF Places
<1>5. \A j \in Indexers : none[j] \cap (kept \cup held[i]) = {}
  BY <1>1, <1>2
<1>6. Places(a, kept \cup held[i], none)
  BY <1>1, <1>2, <1>3, <1>5 DEF Places
<1> QED BY <1>1, <1>2, <1>4, <1>6 DEF none

\* A batch goes to p.data, or nowhere.
LEMMA SumsAppend ==
    ASSUME StorageInv, SumsInv, NEW i \in Indexers, AppendPostingsToFile(i)
    PROVE  SumsInv'
<1> DEFINE rows == pending[i]
           ls == Lines(rows)
<1>1. /\ \/ handle /\ file' = AppendLines(file, ls) /\ stored' = stored \o rows
         \/ ~handle /\ UNCHANGED <<file, stored>>
      /\ pending' = [pending EXCEPT ![i] = <<>>]
      /\ UNCHANGED <<postings, added, table, tornWrites>>
  BY DEF AppendPostingsToFile, memVars
<1>2. added \in Seq(Pages) /\ rows \in Seq(RowType) /\ stored \in Seq(RowType) /\ file \in Seq(LineType)
  BY DEF StorageInv, StorageTypes
<1>3. \A j \in Indexers : pending'[j] = IF j = i THEN <<>> ELSE pending[j]
  BY <1>1 DEF StorageInv, StorageTypes
<1>4. PICK kept, held :
        /\ Places(added, kept, held) /\ Waiting(added, pending, held) /\ Written(added, file, kept)
        /\ tornWrites = 0 =>
              /\ Exact(added, file, stored, kept)
              /\ NoneGone(added, kept, held) => AllOf(postings, added)
  BY DEF SumsInv, PagesInv
<1> DEFINE none == [held EXCEPT ![i] = {}]
           H == held[i]
<1>5. /\ Places(added, kept \cup H, none) /\ Places(added, kept, none) /\ kept \cap H = {}
      /\ \A j \in Indexers : none[j] = IF j = i THEN {} ELSE held[j]
  BY <1>4, PlacesMoved
<1> HIDE DEF none
<1>6. \A w \in [RowType -> Int] : PageSum(added, w, {}) = 0 /\ Sigma(w, <<>>) = 0
  BY <1>2, PageNone, SigmaSmall
<1>7. Waiting(added, pending', none)
  BY <1>3, <1>4, <1>5, <1>6 DEF Waiting
<1>8. \A w \in [RowType -> Int] : Sigma(w, rows) = PageSum(added, w, H)
  BY <1>4 DEF Waiting
<1>9. NoneGone(added, kept \cup H, none) \/ NoneGone(added, kept, none) => NoneGone(added, kept, held)
  <2>1. ASSUME NEW n \in DOMAIN added, n \in kept \cup H \/ \E j \in Indexers : n \in none[j]
        PROVE  n \in kept \/ \E j \in Indexers : n \in held[j]
    BY <1>5, <2>1
  <2> QED BY <2>1 DEF NoneGone
<1> HIDE DEF rows, ls, H
<1>10. ls \in Seq(LineType) /\ \A w \in [RowType -> Int] : Sigma(OfLine(w), ls) = Sigma(w, rows)
  <2>1. ls \in Seq(LineType)
    BY <1>2, LinesOfRows DEF ls
  <2> QED BY <1>2, <2>1, LinesWeigh DEF ls
<1>11. ASSUME handle PROVE PagesInv'
  <2>1. file' = AppendLines(file, ls) /\ stored' = stored \o rows
    BY <1>1, <1>11
  <2>2. Written(added, ls, H)
    <3>1. ASSUME NEW w \in [RowType -> Nat] PROVE Sigma(OfLine(w), ls) <= PageSum(added, w, H)
      <4>1. w \in [RowType -> Int]
        OBVIOUS
      <4>2. Sigma(OfLine(w), ls) = PageSum(added, w, H) /\ PageSum(added, w, H) \in Int
        BY <1>2, <1>8, <1>10, <4>1, PageNumbers
      <4> QED BY <4>2
    <3> QED BY <3>1 DEF Written
  <2>3. Written(added, file', kept \cup H)
    BY <1>2, <1>4, <1>5, <1>10, <2>1, <2>2, WrittenMore
  <2>4. ASSUME tornWrites = 0 PROVE Exact(added, file', stored', kept \cup H)
    <3>1. /\ \A k \in DOMAIN file : file[k].nl
          /\ \A w \in [RowType -> Int] : /\ Sigma(w, stored) = PageSum(added, w, kept)
                                         /\ Sigma(OfLine(w), file) = PageSum(added, w, kept)
      BY <1>4, <2>4 DEF Exact
    <3>2. file' = file \o ls
      <4>1. Len(file) \in Nat /\ (file # <<>> => Len(file) \in DOMAIN file)
        BY <1>2, EmptySeq
      <4> QED BY <2>1, <3>1, <4>1 DEF AppendLines, Last
    <3>3. \A k \in DOMAIN file' : file'[k].nl
      <4>1. \A k \in 1..Len(ls) : ls[k].nl
        <5>1. DOMAIN rows = 1..Len(rows)
          BY <1>2
        <5>2. Len(ls) = Len(rows) /\ \A k \in 1..Len(rows) : ls[k] = Line(rows[k])
          <6>1. ls = [k \in 1..Len(rows) |-> Line(rows[k])] /\ Len(rows) \in Nat
            BY <1>2, <5>1 DEF ls, Lines
          <6> QED BY <6>1
        <5> QED BY <5>2, LineIs
      <4>2. /\ Len(file \o ls) = Len(file) + Len(ls) /\ file \o ls \in Seq(LineType)
            /\ \A k \in 1..(Len(file) + Len(ls)) :
                  (file \o ls)[k] = IF k <= Len(file) THEN file[k] ELSE ls[k - Len(file)]
        BY <1>2, <1>10, ConcatProperties
      <4> DEFINE c == file \o ls
      <4>3. DOMAIN c = 1..(Len(file) + Len(ls)) /\ Len(file) \in Nat /\ Len(ls) \in Nat
        BY <1>2, <1>10, <4>2
      <4>4. ASSUME NEW k \in 1..(Len(file) + Len(ls)) PROVE c[k].nl
        <5>1. CASE k <= Len(file)
          <6>1. k \in DOMAIN file
            BY <1>2, <4>3, <5>1
          <6> QED BY <3>1, <4>2, <5>1, <6>1
        <5>2. CASE ~(k <= Len(file))
          <6>1. k - Len(file) \in 1..Len(ls)
            BY <4>3, <5>2
          <6> QED BY <4>1, <4>2, <5>2, <6>1
        <5> QED BY <5>1, <5>2
      <4> HIDE DEF c
      <4> QED BY <3>2, <4>3, <4>4 DEF c
    <3>4. ASSUME NEW w \in [RowType -> Int]
          PROVE  /\ Sigma(w, stored') = PageSum(added, w, kept \cup H)
                 /\ Sigma(OfLine(w), file') = PageSum(added, w, kept \cup H)
      <4>1. PageSum(added, w, kept \cup H) = PageSum(added, w, kept) + PageSum(added, w, H)
        <5> DEFINE a == added
        <5>1. a \in Seq(Pages) /\ kept \cap H = {}
          BY <1>2, <1>5
        <5> HIDE DEF a
        <5>2. PageSum(a, w, kept \cup H) = PageSum(a, w, kept) + PageSum(a, w, H)
          BY <5>1, PageUnion
        <5> QED BY <5>2 DEF a
      <4>2. Sigma(w, stored \o rows) = Sigma(w, stored) + Sigma(w, rows)
        BY <1>2, SigmaConcat
      <4>3. OfLine(w) \in [LineType -> Int]
        BY LineWeights
      <4>4. Sigma(OfLine(w), file \o ls) = Sigma(OfLine(w), file) + Sigma(OfLine(w), ls)
        <5> DEFINE x == OfLine(w)
        <5>1. x \in [LineType -> Int]
          BY <4>3
        <5> HIDE DEF x
        <5>2. Sigma(x, file \o ls) = Sigma(x, file) + Sigma(x, ls)
          BY <1>2, <1>10, <5>1, SigmaConcat
        <5> QED BY <5>2 DEF x
      <4> QED BY <1>8, <1>10, <2>1, <3>1, <3>2, <4>1, <4>2, <4>4
    <3> QED BY <3>3, <3>4 DEF Exact
  <2>5. /\ Places(added', kept \cup H, none) /\ Waiting(added', pending', none)
        /\ Written(added', file', kept \cup H)
        /\ tornWrites' = 0 =>
              /\ Exact(added', file', stored', kept \cup H)
              /\ NoneGone(added', kept \cup H, none) => AllOf(postings', added')
    BY <1>1, <1>4, <1>5, <1>7, <1>9, <2>3, <2>4
  <2> QED BY <2>5 DEF PagesInv
<1>12. ASSUME ~handle PROVE PagesInv'
  <2>1. /\ Places(added', kept, none) /\ Waiting(added', pending', none)
        /\ Written(added', file', kept)
        /\ tornWrites' = 0 =>
              /\ Exact(added', file', stored', kept)
              /\ NoneGone(added', kept, none) => AllOf(postings', added')
    BY <1>1, <1>4, <1>5, <1>7, <1>9, <1>12
  <2> QED BY <2>1 DEF PagesInv
<1>13. TableRows'
  <2>1. FromPages(Range(<<>>), added)
    BY DEF FromPages, Range
  <2> QED BY <1>1, <1>3, <2>1 DEF SumsInv, TableRows
<1> QED BY <1>1, <1>11, <1>12, <1>13 DEF SumsInv
\* The rows of a table count for no more than the pages they are from.
LEMMA TableWeighs ==
    ASSUME NEW a \in Seq(Pages), NEW rows \in SUBSET RowType, IsFiniteSet(rows), OneEach(rows),
           FromPages(rows, a), NEW v \in [PostingType -> Nat], NEW t, NEW u
    PROVE  Sigma(OfRow(v, t, u), SetToSeq(rows)) <= PageSum(a, OfRow(v, t, u), DOMAIN a)
<1> DEFINE q == SetToSeq(rows)
           w == OfRow(v, t, u)
           e == [k \in DOMAIN q |-> w[q[k]]]
           all == PageSum(a, w, DOMAIN a)
<1>1. q \in Seq(rows) /\ Range(q) = rows /\ \A i, j \in 1..Len(q) : q[i] = q[j] => i = j
  BY SetListed
<1>2. q \in Seq(RowType)
  BY <1>1, SeqMonotonic
<1> HIDE DEF q
<1>3. Len(q) \in Nat /\ DOMAIN q = 1..Len(q) /\ \A k \in 1..Len(q) : q[k] \in RowType /\ q[k] \in rows
  BY <1>1, <1>2
<1>4. w \in [RowType -> Nat] /\ w \in [RowType -> Int]
  <2>1. v \in [PostingType -> Int]
    OBVIOUS
  <2> QED BY <2>1, WeightTypes
<1>5. \A k \in 1..Len(q) : ~(q[k].token = t /\ q[k].url = u) => w[q[k]] = 0
  BY <1>3 DEF OfRow
<1> HIDE DEF w
<1>6. /\ all \in Nat
      /\ \A n \in 1..Len(a) : n \in DOMAIN a => Sigma(w, collectPostings(a[n])) <= all
  <2> DEFINE S == DOMAIN a
  <2>1. S \subseteq S
    OBVIOUS
  <2> HIDE DEF S
  <2>2. PageSum(a, w, S) \in Nat /\ \A n \in 1..Len(a) : n \in S => Sigma(w, collectPostings(a[n])) <= PageSum(a, w, S)
    BY <1>4, <2>1, PageMore
  <2> QED BY <2>2 DEF S
<1> HIDE DEF all
<1>7. CASE \A k \in 1..Len(q) : ~(q[k].token = t /\ q[k].url = u)
  <2>1. \A k \in 1..Len(q) : w[q[k]] = 0
    BY <1>5, <1>7
  <2>2. Sigma(w, q) = 0
    BY <1>2, <1>4, <2>1, SigmaNothing
  <2> QED BY <1>6, <2>2 DEF q, w, all
<1>8. ASSUME NEW j \in 1..Len(q), q[j].token = t, q[j].url = u PROVE Sigma(w, q) <= all
  <2>1. ASSUME NEW k \in 1..Len(q), k # j PROVE w[q[k]] = 0
    <3>1. q[k] # q[j] /\ q[k] \in rows /\ q[j] \in rows
      BY <1>1, <1>3, <2>1
    <3>2. ~(q[k].token = t /\ q[k].url = u)
      BY <1>8, <3>1 DEF OneEach
    <3> QED BY <1>5, <3>2
  <2>2. e \in Seq(Int) /\ Len(e) = Len(q) /\ \A k \in 1..Len(q) : e[k] = w[q[k]]
    BY <1>2, <1>4, Weights
  <2> HIDE DEF e
  <2>3. j \in 1..Len(e) /\ \A k \in 1..Len(e) : k # j => e[k] = 0
    BY <2>1, <2>2
  <2>4. Total(e) = w[q[j]]
    BY <2>2, <2>3, TotalSingle
  <2>5. Sigma(w, q) = w[q[j]]
    BY <2>4 DEF Sigma, e
  <2>6. PICK n \in DOMAIN a : q[j] \in Range(collectPostings(a[n]))
    BY <1>3 DEF FromPages
  <2>7. n \in 1..Len(a) /\ a[n] \in Pages
    OBVIOUS
  <2> DEFINE s == collectPostings(a[n])
  <2>8. s \in Seq(RowType) /\ Sigma(w, s) <= all
    BY <1>6, <2>7, RowsOfPage
  <2>9. q[j] \in Range(s)
    BY <2>6
  <2> HIDE DEF s
  <2>10. w[q[j]] <= Sigma(w, s)
    BY <1>4, <2>8, <2>9, SigmaMember
  <2>11. w[q[j]] \in Int /\ Sigma(w, s) \in Int
    BY <1>3, <1>4, <2>8, Weights
  <2> QED BY <1>6, <2>5, <2>8, <2>10, <2>11
<1> QED BY <1>7, <1>8 DEF q, w, all

\* What a restart would build from p.data or the table counts for no more than the
\* pages that were added ...
RestoresWithin ==
    StorageTypes /\ TableRows /\ (\E kept \in SUBSET DOMAIN added : Written(added, file, kept))
        => Within(WithRows(RestoredRows), added)

\* That is so.
LEMMA RestoredWithin == RestoresWithin
<1> SUFFICES ASSUME StorageTypes, TableRows, NEW kept \in SUBSET DOMAIN added, Written(added, file, kept),
                    NEW v \in [PostingType -> Nat], NEW t \in Words, NEW u \in URLs
             PROVE  Sigma(OfPosting(v, u), WithRows(RestoredRows)[t])
                        <= PageSum(added, OfRow(v, t, u), DOMAIN added)
  BY DEF RestoresWithin, Within
<1> DEFINE rows == RestoredRows
           w == OfRow(v, t, u)
           all == DOMAIN added
<1>1. /\ added \in Seq(Pages) /\ file \in Seq(LineType)
      /\ table \in SUBSET RowType /\ IsFiniteSet(table)
  BY DEF StorageTypes
<1>2. rows \in Seq(RowType)
  BY <1>1, Restored
<1>3. v \in [PostingType -> Int]
  OBVIOUS
<1>4. w \in [RowType -> Nat] /\ w \in [RowType -> Int]
  BY <1>3, WeightTypes
<1> HIDE DEF rows
<1>5. Sigma(OfPosting(v, u), WithRows(rows)[t]) = Sigma(w, rows)
  BY <1>2, <1>3, RebuiltWeighs
<1>6. CASE rows = LoadPostingsFromFile
  <2> HIDE DEF w
  <2>1. Sigma(w, rows) = Sigma(OfLine(w), file)
    BY <1>1, <1>4, <1>6, LoadedWeigh
  <2>2. Sigma(OfLine(w), file) <= PageSum(added, w, kept)
    BY <1>4 DEF Written
  <2>3. PageSum(added, w, kept) <= PageSum(added, w, all) /\ PageSum(added, w, kept) \in Nat
        /\ PageSum(added, w, all) \in Int
    <3> DEFINE a == added
    <3>1. a \in Seq(Pages) /\ kept \subseteq all
      BY <1>1
    <3> HIDE DEF a, all
    <3>2. PageSum(a, w, kept) <= PageSum(a, w, all) /\ PageSum(a, w, kept) \in Nat
          /\ PageSum(a, w, all) \in Int
      BY <1>4, <3>1, PageMore, PageNumbers
    <3> QED BY <3>2 DEF a
  <2>4. OfLine(w) \in [LineType -> Int]
    BY <1>4, LineWeights
  <2>5. Sigma(OfLine(w), file) \in Int
    BY <1>1, <2>4, Weights
  <2> HIDE DEF all
  <2>6. Sigma(w, rows) <= PageSum(added, w, all)
    BY <2>1, <2>2, <2>3, <2>5
  <2> QED BY <1>5, <2>6 DEF rows, w, all
<1>7. CASE rows = SetToSeq(table)
  <2>1. OneEach(table) /\ FromPages(table, added)
    BY DEF TableRows
  <2>2. Sigma(w, rows) <= PageSum(added, w, all)
    BY <1>1, <1>7, <2>1, TableWeighs
  <2> QED BY <1>5, <2>2 DEF rows
<1> QED BY <1>6, <1>7 DEF rows, RestoredRows, LoadAllPostings

\* ... and, when all of them are in p.data, for exactly that.
RestoresAll ==
    \A kept : /\ StorageTypes /\ TableRows /\ Exact(added, file, stored, kept)
              /\ \A n \in DOMAIN added : n \in kept \/ collectPostings(added[n]) = <<>>
              => AllOf(WithRows(RestoredRows), added)

\* That is so too.
LEMMA RestoredAll == RestoresAll
<1> SUFFICES ASSUME NEW kept, StorageTypes, TableRows, Exact(added, file, stored, kept),
                    \A n \in DOMAIN added : n \in kept \/ collectPostings(added[n]) = <<>>,
                    NEW v \in [PostingType -> Int], NEW t \in Words, NEW u \in URLs
             PROVE  Sigma(OfPosting(v, u), WithRows(RestoredRows)[t])
                        = PageSum(added, OfRow(v, t, u), DOMAIN added)
  BY DEF RestoresAll, AllOf
<1> DEFINE rows == RestoredRows
           w == OfRow(v, t, u)
           all == DOMAIN added
<1>1. /\ added \in Seq(Pages) /\ file \in Seq(LineType)
      /\ table \in SUBSET RowType /\ IsFiniteSet(table)
  BY DEF StorageTypes
<1>2. rows \in Seq(RowType)
  BY <1>1, Restored
<1>3. w \in [RowType -> Int]
  BY WeightTypes
<1> HIDE DEF rows
<1>4. Sigma(OfPosting(v, u), WithRows(rows)[t]) = Sigma(w, rows)
  BY <1>2, RebuiltWeighs
<1> HIDE DEF w
<1>5. \A x \in [RowType -> Int] : Sigma(x, LoadPostingsFromFile) = PageSum(added, x, all)
  <2>1. ASSUME NEW x \in [RowType -> Int]
        PROVE  Sigma(x, LoadPostingsFromFile) = PageSum(added, x, all)
    <3>1. Sigma(x, LoadPostingsFromFile) = Sigma(OfLine(x), file)
      BY <1>1, LoadedWeigh
    <3>2. Sigma(OfLine(x), file) = PageSum(added, x, kept)
      BY DEF Exact
    <3>3. PageSum(added, x, kept) = PageSum(added, x, all)
      <4> DEFINE a == added
      <4>1. a \in Seq(Pages) /\ \A n \in DOMAIN a : n \in kept \/ collectPostings(a[n]) = <<>>
        BY <1>1
      <4> HIDE DEF a
      <4>2. PageSum(a, x, kept) = PageSum(a, x, DOMAIN a)
        BY <4>1, PageRest
      <4> QED BY <4>2 DEF a
    <3> QED BY <3>1, <3>2, <3>3
  <2> QED BY <2>1
<1>6. CASE rows = LoadPostingsFromFile
  BY <1>3, <1>4, <1>5, <1>6 DEF rows, w
<1>7. CASE LoadPostingsFromFile = <<>> /\ rows = SetToSeq(table)
  <2>1. PageSum(added, One, all) = 0 /\ PageSum(added, w, all) = 0
        /\ One \in [RowType -> Nat] /\ One \in [RowType -> Int]
    <3>1. One \in [RowType -> Nat] /\ One \in [RowType -> Int]
      BY DEF One
    <3>2. Sigma(One, <<>>) = 0 /\ Sigma(w, <<>>) = 0
      BY <1>3, <3>1, SigmaSmall
    <3> QED BY <1>3, <1>5, <1>7, <3>1, <3>2
  <2>2. table = {}
    <3>1. ASSUME NEW row \in table PROVE FALSE
      <4>1. PICK n \in DOMAIN added : row \in Range(collectPostings(added[n]))
        BY DEF TableRows, FromPages
      <4> DEFINE s == collectPostings(added[n])
                 a == added
      <4>2. n \in 1..Len(a) /\ a[n] \in Pages /\ a \in Seq(Pages) /\ n \in all
        BY <1>1
      <4>3. s \in Seq(RowType) /\ row \in Range(s)
        BY <4>1, <4>2, RowsOfPage
      <4> HIDE DEF a
      <4>4. Sigma(One, collectPostings(a[n])) <= PageSum(a, One, all)
        <5>1. all \subseteq all
          OBVIOUS
        <5> HIDE DEF all
        <5> QED BY <2>1, <4>2, <5>1, PageMore
      <4>5. Sigma(One, s) <= 0
        BY <2>1, <4>4 DEF a
      <4> HIDE DEF s
      <4>6. Sigma(One, s) = Len(s) /\ Len(s) \in Nat /\ Len(s) # 0
        <5>1. Sigma(One, s) = Len(s)
          BY <4>3, SigmaLen
        <5>2. Len(s) \in Nat /\ DOMAIN s = 1..Len(s) /\ DOMAIN s # {}
          BY <4>3 DEF Range
        <5> QED BY <5>1, <5>2
      <4> QED BY <4>5, <4>6
    <3> QED BY <3>1
  <2>3. Sigma(w, rows) = 0
    <3>1. Range(rows) = {}
      BY <1>1, <1>7, <2>2, SetListed
    <3>2. Len(rows) \in Nat /\ DOMAIN rows = 1..Len(rows) /\ DOMAIN rows = {}
      BY <1>2, <3>1 DEF Range
    <3>3. \A k \in 1..Len(rows) : w[rows[k]] = 0
      BY <3>2
    <3> QED BY <1>2, <1>3, <3>3, SigmaNothing
  <2> QED BY <1>4, <2>1, <2>3 DEF rows, w
<1> QED BY <1>6, <1>7 DEF rows, RestoredRows, LoadAllPostings

\* A restart: what waits in memory is gone, but for the rows that a write which is
\* interrupted has brought to p.data, and the index is built anew.
LEMMA SumsRestart ==
    ASSUME StorageInv, SumsInv, Restart, StorageInv'
    PROVE  SumsInv'
<1> DEFINE none == [i \in Indexers |-> {}]
<1>1. /\ UNCHANGED <<added, table, stored>>
      /\ postings' = WithRows(RestoredRows') /\ pending' = [i \in Indexers |-> <<>>]
      /\ \/ UNCHANGED <<file, tornWrites>>
         \/ \E i \in Indexers : /\ file' \in {file} \cup TornFiles(i)
                                /\ tornWrites' = tornWrites + 1
  BY DEF Restart
<1>2. added \in Seq(Pages) /\ file \in Seq(LineType) /\ tornWrites \in Nat
      /\ \A i \in Indexers : pending[i] \in Seq(RowType)
  BY DEF StorageInv, StorageTypes
<1>3. PICK kept, held :
        /\ Places(added, kept, held) /\ Waiting(added, pending, held) /\ Written(added, file, kept)
        /\ tornWrites = 0 =>
              /\ Exact(added, file, stored, kept)
              /\ NoneGone(added, kept, held) => AllOf(postings, added)
  BY DEF SumsInv, PagesInv
<1>4. \A S \in SUBSET DOMAIN added : Places(added, S, none)
  BY DEF Places
<1>5. Waiting(added, pending', none)
  <2>1. \A w \in [RowType -> Int] : PageSum(added, w, {}) = 0 /\ Sigma(w, <<>>) = 0
    BY <1>2, PageNone, SigmaSmall
  <2> QED BY <1>1, <2>1 DEF Waiting
<1>6. kept \in SUBSET DOMAIN added
  BY <1>3 DEF Places
<1>7. \E S \in SUBSET DOMAIN added : Written(added, file', S) /\ (tornWrites' = 0 => S = kept)
  <2>1. CASE file' = file
    BY <1>3, <1>6, <2>1
  <2>2. ASSUME NEW i \in Indexers, file' \in TornFiles(i), tornWrites' = tornWrites + 1
        PROVE  \E S \in SUBSET DOMAIN added : Written(added, file', S) /\ (tornWrites' = 0 => S = kept)
    <3> DEFINE H == held[i]
               rows == pending[i]
    <3>1. PICK ls \in Seq(LineType) : file' = AppendLines(file, ls) /\ FirstLines(ls, rows)
      BY <1>2, <2>2, TornAppends
    <3>2. H \in SUBSET DOMAIN added /\ kept \cap H = {}
      BY <1>3 DEF Places
    <3>3. rows \in Seq(RowType) /\ \A w \in [RowType -> Int] : Sigma(w, rows) = PageSum(added, w, H)
      BY <1>2, <1>3 DEF Waiting
    <3> HIDE DEF H, rows
    <3>4. Written(added, ls, H)
      <4>1. ASSUME NEW w \in [RowType -> Nat] PROVE Sigma(OfLine(w), ls) <= PageSum(added, w, H)
        <5>1. w \in [RowType -> Int]
          OBVIOUS
        <5>2. Sigma(OfLine(w), ls) <= Sigma(w, rows)
          BY <3>1, <3>3, FirstLinesWeigh
        <5> QED BY <3>3, <5>1, <5>2
      <4> QED BY <4>1 DEF Written
    <3>5. Written(added, file', kept \cup H)
      BY <1>2, <1>3, <3>1, <3>2, <3>4, WrittenMore
    <3>6. kept \cup H \in SUBSET DOMAIN added
      BY <1>6, <3>2
    <3>7. tornWrites' # 0
      BY <1>2, <2>2
    <3> QED BY <3>5, <3>6, <3>7
  <2> QED BY <1>1, <2>1, <2>2
<1>8. PICK S \in SUBSET DOMAIN added : Written(added, file', S) /\ (tornWrites' = 0 => S = kept)
  BY <1>7
<1>9. TableRows'
  <2>1. FromPages(Range(<<>>), added)
    BY DEF FromPages, Range
  <2> QED BY <1>1, <2>1 DEF SumsInv, TableRows
<1>10. StorageTypes'
  BY DEF StorageInv
<1>11. Within(postings', added')
  <2>1. RestoresWithin'
    BY RestoredWithin, PTL
  <2>2. \E k \in SUBSET DOMAIN added' : Written(added', file', k)
    BY <1>1, <1>8
  <2> QED BY <1>1, <1>9, <1>10, <2>1, <2>2 DEF RestoresWithin
<1>12. ASSUME tornWrites' = 0
       PROVE  /\ Exact(added', file', stored', S)
              /\ NoneGone(added', S, none) => AllOf(postings', added')
  <2>1. tornWrites = 0 /\ UNCHANGED file /\ S = kept
    <3>1. tornWrites' # tornWrites + 1
      BY <1>2, <1>12
    <3>2. UNCHANGED <<file, tornWrites>>
      BY <1>1, <3>1
    <3> QED BY <1>8, <1>12, <3>2
  <2>2. Exact(added', file', stored', S)
    BY <1>1, <1>3, <2>1
  <2>3. ASSUME NoneGone(added', S, none) PROVE AllOf(postings', added')
    <3>1. \A n \in DOMAIN added' : n \in S \/ collectPostings(added'[n]) = <<>>
      BY <2>3 DEF NoneGone
    <3>2. RestoresAll'
      BY RestoredAll, PTL
    <3>3. StorageTypes' /\ TableRows' /\ Exact(added', file', stored', S)
      BY <1>9, <1>10, <2>2
    <3>4. AllOf(WithRows(RestoredRows'), added')
      BY <3>1, <3>2, <3>3 DEF RestoresAll
    <3> QED BY <1>1, <3>4
  <2> QED BY <2>2, <2>3
<1>13. /\ Places(added', S, none) /\ Waiting(added', pending', none) /\ Written(added', file', S)
       /\ tornWrites' = 0 =>
             /\ Exact(added', file', stored', S)
             /\ NoneGone(added', S, none) => AllOf(postings', added')
  BY <1>1, <1>4, <1>5, <1>8, <1>12
<1> HIDE DEF none
<1>14. PagesInv'
  BY <1>13 DEF PagesInv
<1> QED BY <1>9, <1>11, <1>14 DEF SumsInv

\* Every step preserves the invariant.
LEMMA SumsStep == StorageInv /\ SumsInv /\ StorageInv' /\ [Next]_vars => SumsInv'
<1> SUFFICES ASSUME StorageInv, SumsInv, StorageInv', [Next]_vars PROVE SumsInv'
  OBVIOUS
<1>1. CASE UNCHANGED <<postings, added, pending, table, file, stored, tornWrites>>
  BY <1>1, SumsStutter
<1>2. ASSUME NEW i \in Indexers, StartCrawl(i) PROVE SumsInv'
  BY <1>2, SumsStart
<1>3. ASSUME NEW i \in Indexers, NEW p \in Pages, AddDocument(i, p) PROVE SumsInv'
  BY <1>3, SumsAdd
<1>4. ASSUME NEW i \in Indexers, SavePostingsBatch(i) PROVE SumsInv'
  BY <1>4, SumsSave
<1>5. ASSUME NEW i \in Indexers, AppendPostingsToFile(i) PROVE SumsInv'
  BY <1>5, SumsAppend
<1>6. CASE Restart
  BY <1>6, SumsRestart
<1>7. ASSUME NEW i \in Indexers,
             \/ ResumeCrawl(i) \/ CloseEmpty(i) \/ OpenPData(i)
             \/ \E last \in BOOLEAN : FlushRest(i, last)
      PROVE  SumsInv'
  BY <1>1, <1>7 DEF ResumeCrawl, CloseEmpty, OpenPData, FlushRest, memVars, diskVars
<1>8. CASE Lookup \/ (\E q \in Queries : SearchBegin(q))
           \/ (\E sortBy \in {"relevance", "depth", "frequency"} : SearchReturn(sortBy)) \/ UNCHANGED vars
  BY <1>1, <1>8 DEF Lookup, SearchBegin, SearchReturn, vars, memVars, indexerVars, diskVars
<1> QED BY <1>2, <1>3, <1>4, <1>5, <1>6, <1>7, <1>8 DEF Next

\* The sums are right in every reachable state.
LEMMA SumsHold == Spec => [](StorageInv /\ SumsInv)
BY SumsInit, SumsStep, StorageHolds, PTL DEF Spec

-----------------------------------------------------------------------------
(* What a search finds, in sums *)

\* A posting measured by its frequency, by what it is worth, and as one.
Freq == [p \in PostingType |-> p.tf]
Worth == [p \in PostingType |-> Gain(p)]
Each == [p \in PostingType |-> 1]

\* These are measures.
LEMMA Measures ==
    /\ Freq \in [PostingType -> Nat] /\ Freq \in [PostingType -> Int]
    /\ Worth \in [PostingType -> Int]
    /\ Each \in [PostingType -> Nat] /\ Each \in [PostingType -> Int]
<1>1. \A p \in PostingType : p.tf \in Nat /\ p.depth \in Nat
  BY IndexAssumption DEF PostingType, Depths
<1>2. \A p \in PostingType : Gain(p) \in Int
  BY <1>1 DEF Gain
<1> QED BY <1>1, <1>2 DEF Freq, Worth, Each

\* Some posting is of page u just when they do not weigh nothing.
LEMMA EachPosting ==
    ASSUME NEW s \in Seq(PostingType), NEW u
    PROVE  (\E k \in 1..Len(s) : s[k].url = u) <=> Sigma(OfPosting(Each, u), s) # 0
<1> DEFINE w == OfPosting(Each, u)
<1>1. w \in [PostingType -> Nat] /\ w \in [PostingType -> Int]
  BY Measures, WeightTypes
<1>2. \A k \in 1..Len(s) : s[k] \in PostingType /\ s[k] \in Range(s)
  BY DEF Range
<1>3. \A k \in 1..Len(s) : w[s[k]] = IF s[k].url = u THEN 1 ELSE 0
  BY <1>2 DEF OfPosting, Each
<1> HIDE DEF w
<1>4. ASSUME NEW k \in 1..Len(s), s[k].url = u PROVE Sigma(w, s) # 0
  <2>1. w[s[k]] = 1
    BY <1>3, <1>4
  <2> DEFINE x == s[k]
  <2>2. x \in Range(s) /\ w[x] = 1
    BY <1>2, <2>1
  <2> HIDE DEF x
  <2>3. w[x] <= Sigma(w, s) /\ Sigma(w, s) \in Int
    BY <1>1, <2>2, SigmaMember, Weights
  <2> QED BY <2>2, <2>3
<1>5. ASSUME \A k \in 1..Len(s) : s[k].url # u PROVE Sigma(w, s) = 0
  <2>1. \A k \in 1..Len(s) : w[s[k]] = 0
    BY <1>3, <1>5
  <2> QED BY <1>1, <2>1, SigmaNothing
<1> QED BY <1>4, <1>5 DEF w

\* Adding a posting of page u adds its measures to what was found of u.
LEMMA FoundAdded ==
    ASSUME NEW sc \in Tables, NEW p \in PostingType, NEW u
    PROVE  LET new == AddToScores(sc, p)
           IN  /\ new \in Tables /\ (u \in DOMAIN new <=> u \in DOMAIN sc \/ p.url = u)
               /\ Found(new, u).frequency = Found(sc, u).frequency + OfPosting(Freq, u)[p]
               /\ Found(new, u).score = Found(sc, u).score + OfPosting(Worth, u)[p]
<1> DEFINE new == AddToScores(sc, p)
<1>1. new \in Tables /\ Adds(sc, p, new)
  BY PostingAdded
<1> HIDE DEF new
<1>2. /\ DOMAIN new = DOMAIN sc \cup {p.url}
      /\ \A x \in DOMAIN sc : x # p.url => new[x] = sc[x]
      /\ new[p.url].score = Found(sc, p.url).score + Gain(p)
      /\ new[p.url].frequency = Found(sc, p.url).frequency + p.tf
  BY <1>1 DEF Adds
<1>3. /\ OfPosting(Freq, u)[p] = IF p.url = u THEN p.tf ELSE 0
      /\ OfPosting(Worth, u)[p] = IF p.url = u THEN Gain(p) ELSE 0
  BY DEF OfPosting, Freq, Worth
<1>4. CASE p.url = u
  <2>1. Found(new, u).score = new[u].score /\ Found(new, u).frequency = new[u].frequency
    BY <1>1, <1>2, <1>4, FoundType
  <2> QED BY <1>1, <1>2, <1>3, <1>4, <2>1 DEF new
<1>5. CASE p.url # u
  <2>1. Found(new, u) = Found(sc, u)
    BY <1>2, <1>5 DEF Found
  <2>2. Found(sc, u).score \in Int /\ Found(sc, u).frequency \in Int
    BY FoundType
  <2>3. Found(sc, u).score = Found(sc, u).score + 0 /\ Found(sc, u).frequency = Found(sc, u).frequency + 0
    BY <2>2
  <2> QED BY <1>1, <1>2, <1>3, <1>5, <2>1, <2>3 DEF new
<1> QED BY <1>4, <1>5

\* Looking postings up adds the sums of theirs.
LEMMA LookupCounts ==
    ASSUME NEW sc \in Tables, NEW s \in Seq(PostingType), NEW u
    PROVE  LET new == FoldLeft(AddToScores, sc, s)
           IN  /\ u \in DOMAIN new <=> u \in DOMAIN sc \/ Sigma(OfPosting(Each, u), s) # 0
               /\ Found(new, u).frequency = Found(sc, u).frequency + Sigma(OfPosting(Freq, u), s)
               /\ Found(new, u).score = Found(sc, u).score + Sigma(OfPosting(Worth, u), s)
<1> DEFINE m == Len(s)
<1>1. PICK h : PostingTrace(h, sc, s) /\ FoldLeft(AddToScores, sc, s) = h[m]
  BY PostingsFolded
<1>2. /\ m \in Nat /\ h \in [0..m -> Tables] /\ h[0] = sc
      /\ \A k \in 1..m : h[k] = AddToScores(h[k - 1], s[k]) /\ s[k] \in PostingType
  BY <1>1 DEF PostingTrace
<1> HIDE DEF m
<1>3. ASSUME NEW k \in 1..m
      PROVE  /\ k \in 0..m /\ k - 1 \in 0..m
             /\ u \in DOMAIN h[k] <=> u \in DOMAIN h[k - 1] \/ s[k].url = u
             /\ Found(h[k], u).frequency = Found(h[k - 1], u).frequency + OfPosting(Freq, u)[s[k]]
             /\ Found(h[k], u).score = Found(h[k - 1], u).score + OfPosting(Worth, u)[s[k]]
  <2>1. k \in 0..m /\ k - 1 \in 0..m
    BY <1>2
  <2>2. h[k - 1] \in Tables /\ s[k] \in PostingType /\ h[k] = AddToScores(h[k - 1], s[k])
    BY <1>2, <2>1
  <2> QED BY <2>1, <2>2, FoundAdded
<1>4. /\ OfPosting(Freq, u) \in [PostingType -> Int] /\ OfPosting(Worth, u) \in [PostingType -> Int]
  BY Measures, WeightTypes
<1>5. \A k \in 0..m : Found(h[k], u).frequency \in Int /\ Found(h[k], u).score \in Int
  <2>1. ASSUME NEW k \in 0..m PROVE Found(h[k], u).frequency \in Int /\ Found(h[k], u).score \in Int
    <3>1. h[k] \in Tables
      BY <1>2
    <3> QED BY <3>1, FoundType
  <2> QED BY <2>1
<1>6. 0 \in 0..m /\ m \in 0..m
  BY <1>2
<1>7. Found(h[m], u).frequency = Found(sc, u).frequency + Sigma(OfPosting(Freq, u), s)
  <2> DEFINE w == OfPosting(Freq, u)
             x == [k \in 0..m |-> Found(h[k], u).frequency]
             e == [n \in DOMAIN s |-> w[s[n]]]
  <2>1. e \in Seq(Int) /\ Len(e) = m /\ \A k \in 1..m : e[k] = w[s[k]]
    BY <1>4, Weights DEF m
  <2>2. \A k \in 0..m : x[k] = Found(h[k], u).frequency /\ x[k] \in Int
    BY <1>5
  <2>3. \A k \in 1..m : x[k] = x[k - 1] + e[k]
    BY <1>3, <2>1, <2>2
  <2>4. x[0] = Found(sc, u).frequency /\ x[m] = Found(h[m], u).frequency
    BY <1>2, <1>6
  <2> HIDE DEF e, w, x
  <2>5. x[m] = x[0] + Total(e)
    BY <2>1, <2>2, <2>3, Telescope
  <2> QED BY <2>4, <2>5 DEF Sigma, e, w
<1>8. Found(h[m], u).score = Found(sc, u).score + Sigma(OfPosting(Worth, u), s)
  <2> DEFINE w == OfPosting(Worth, u)
             x == [k \in 0..m |-> Found(h[k], u).score]
             e == [n \in DOMAIN s |-> w[s[n]]]
  <2>1. e \in Seq(Int) /\ Len(e) = m /\ \A k \in 1..m : e[k] = w[s[k]]
    BY <1>4, Weights DEF m
  <2>2. \A k \in 0..m : x[k] = Found(h[k], u).score /\ x[k] \in Int
    BY <1>5
  <2>3. \A k \in 1..m : x[k] = x[k - 1] + e[k]
    BY <1>3, <2>1, <2>2
  <2>4. x[0] = Found(sc, u).score /\ x[m] = Found(h[m], u).score
    BY <1>2, <1>6
  <2> HIDE DEF e, w, x
  <2>5. x[m] = x[0] + Total(e)
    BY <2>1, <2>2, <2>3, Telescope
  <2> QED BY <2>4, <2>5 DEF Sigma, e, w
<1>9. u \in DOMAIN h[m] <=> u \in DOMAIN sc \/ \E k \in 1..m : s[k].url = u
  <2> DEFINE There(k) == u \in DOMAIN sc \/ \E j \in 1..k : s[j].url = u
             Bad == {k \in 0..m : ~(u \in DOMAIN h[k] <=> There(k))}
  <2>1. Bad \subseteq Nat /\ \A k \in 0..m : k \in Bad <=> ~(u \in DOMAIN h[k] <=> There(k))
    BY <1>2
  <2>2. There(0) <=> u \in DOMAIN h[0]
    BY <1>2
  <2>3. \A k \in 1..m : There(k) <=> There(k - 1) \/ s[k].url = u
    <3>1. \A k \in 1..m : 1..k = (1..(k - 1)) \cup {k}
      BY <1>2
    <3> QED BY <3>1
  <2>4. Bad \subseteq 0..m
    OBVIOUS
  <2> HIDE DEF Bad, There
  <2>5. ASSUME Bad # {} PROVE FALSE
    <3>1. PICK k \in Bad : \A y \in Bad : k <= y
      BY <2>1, <2>5, LeastNumber
    <3>2. k \in 0..m /\ k # 0
      BY <2>1, <2>2, <2>4
    <3>3. k \in 1..m /\ k - 1 \in 0..m /\ ~(k <= k - 1)
      BY <1>2, <3>2
    <3>4. u \in DOMAIN h[k - 1] <=> There(k - 1)
      BY <2>1, <3>1, <3>3
    <3>5. u \in DOMAIN h[k] <=> There(k)
      BY <1>3, <2>3, <3>3, <3>4
    <3> QED BY <2>1, <3>2, <3>5
  <2> QED BY <1>6, <2>1, <2>5 DEF There
<1>10. (\E k \in 1..m : s[k].url = u) <=> Sigma(OfPosting(Each, u), s) # 0
  BY EachPosting DEF m
<1> QED BY <1>1, <1>7, <1>8, <1>9, <1>10

\* What the measure v finds of page u in index for the tokens q.
SearchSum(v, u, index, q) == Total([n \in DOMAIN q |-> Sigma(OfPosting(v, u), index[q[n]])])

\* The numbers of such a sum.
LEMMA SearchNumbers ==
    ASSUME NEW v \in [PostingType -> Int], NEW u, NEW index \in Indexes, NEW q \in Seq(Words)
    PROVE  LET e == [n \in DOMAIN q |-> Sigma(OfPosting(v, u), index[q[n]])]
           IN  /\ e \in Seq(Int) /\ Len(e) = Len(q) /\ Len(q) \in Nat
               /\ \A n \in 1..Len(q) : /\ q[n] \in Words /\ index[q[n]] \in Seq(PostingType)
                                       /\ e[n] = Sigma(OfPosting(v, u), index[q[n]])
<1> DEFINE e == [n \in DOMAIN q |-> Sigma(OfPosting(v, u), index[q[n]])]
           w == OfPosting(v, u)
<1>1. Len(q) \in Nat /\ DOMAIN q = 1..Len(q) /\ \A n \in 1..Len(q) : q[n] \in Words
  OBVIOUS
<1>2. \A n \in 1..Len(q) : index[q[n]] \in Seq(PostingType)
  BY <1>1 DEF Indexes
<1>3. w \in [PostingType -> Int]
  BY WeightTypes
<1> HIDE DEF w
<1>4. \A n \in 1..Len(q) : Sigma(w, index[q[n]]) \in Int
  BY <1>2, <1>3, Weights
<1>5. e \in [1..Len(q) -> Int] /\ \A n \in 1..Len(q) : e[n] = Sigma(w, index[q[n]])
  BY <1>1, <1>4 DEF w
<1> HIDE DEF e
<1>6. e \in Seq(Int) /\ Len(e) = Len(q)
  BY <1>1, <1>5, SeqDef
<1> QED BY <1>1, <1>2, <1>5, <1>6 DEF e, w

\* A search finds the sums of its tokens.
LEMMA TokensCount ==
    ASSUME NEW index \in Indexes, NEW q \in Seq(Words), NEW u
    PROVE  LET found == Atomic(index, q)
           IN  /\ found \in Tables
               /\ u \in DOMAIN found <=>
                      \E n \in 1..Len(q) : Sigma(OfPosting(Each, u), index[q[n]]) # 0
               /\ Found(found, u).frequency = SearchSum(Freq, u, index, q)
               /\ Found(found, u).score = SearchSum(Worth, u, index, q)
<1> DEFINE m == Len(q)
<1>1. PICK h : TokenTrace(h, index, q) /\ Atomic(index, q) = h[m]
  BY TokensFolded
<1>2. /\ m \in Nat /\ h \in [0..m -> Tables] /\ h[0] = NoScores
      /\ \A k \in 1..m : h[k] = FoldLeft(AddToScores, h[k - 1], index[q[k]])
  BY <1>1 DEF TokenTrace, AddFrom
<1>3. \A k \in 1..m : index[q[k]] \in Seq(PostingType)
  BY Measures, SearchNumbers
<1>4. ASSUME NEW v \in [PostingType -> Int]
      PROVE  LET e == [n \in DOMAIN q |-> Sigma(OfPosting(v, u), index[q[n]])]
             IN  /\ e \in Seq(Int) /\ Len(e) = m
                 /\ \A k \in 1..m : e[k] = Sigma(OfPosting(v, u), index[q[k]])
  BY SearchNumbers
<1> HIDE DEF m
<1>5. ASSUME NEW k \in 1..m
      PROVE  /\ k \in 0..m /\ k - 1 \in 0..m
             /\ u \in DOMAIN h[k] <=>
                    u \in DOMAIN h[k - 1] \/ Sigma(OfPosting(Each, u), index[q[k]]) # 0
             /\ Found(h[k], u).frequency
                    = Found(h[k - 1], u).frequency + Sigma(OfPosting(Freq, u), index[q[k]])
             /\ Found(h[k], u).score
                    = Found(h[k - 1], u).score + Sigma(OfPosting(Worth, u), index[q[k]])
  <2>1. k \in 0..m /\ k - 1 \in 0..m
    BY <1>2
  <2>2. h[k - 1] \in Tables /\ index[q[k]] \in Seq(PostingType)
        /\ h[k] = FoldLeft(AddToScores, h[k - 1], index[q[k]])
    BY <1>2, <1>3, <2>1
  <2> QED BY <2>1, <2>2, LookupCounts
<1>6. \A k \in 0..m : Found(h[k], u).frequency \in Int /\ Found(h[k], u).score \in Int
  <2>1. ASSUME NEW k \in 0..m PROVE Found(h[k], u).frequency \in Int /\ Found(h[k], u).score \in Int
    <3>1. h[k] \in Tables
      BY <1>2
    <3> QED BY <3>1, FoundType
  <2> QED BY <2>1
<1>7. 0 \in 0..m /\ m \in 0..m
  BY <1>2
<1>8. u \notin DOMAIN h[0] /\ Found(h[0], u).frequency = 0 /\ Found(h[0], u).score = 0
  <2>1. u \notin DOMAIN h[0] /\ h[0] \in Tables
    BY <1>2, NoScoresTable DEF NoScores
  <2> QED BY <2>1, FoundType
<1>9. Found(h[m], u).frequency = SearchSum(Freq, u, index, q)
  <2> DEFINE x == [k \in 0..m |-> Found(h[k], u).frequency]
             e == [n \in DOMAIN q |-> Sigma(OfPosting(Freq, u), index[q[n]])]
  <2>1. e \in Seq(Int) /\ Len(e) = m /\ \A k \in 1..m : e[k] = Sigma(OfPosting(Freq, u), index[q[k]])
    BY <1>4, Measures
  <2>2. \A k \in 0..m : x[k] = Found(h[k], u).frequency /\ x[k] \in Int
    BY <1>6
  <2>3. \A k \in 1..m : x[k] = x[k - 1] + e[k]
    BY <1>5, <2>1, <2>2
  <2>4. x[0] = 0 /\ x[m] = Found(h[m], u).frequency
    BY <1>7, <1>8
  <2> HIDE DEF e, x
  <2>5. x[m] = x[0] + Total(e) /\ Total(e) \in Int
    BY <2>1, <2>2, <2>3, Telescope, TotalInt
  <2> QED BY <2>4, <2>5 DEF SearchSum, e
<1>10. Found(h[m], u).score = SearchSum(Worth, u, index, q)
  <2> DEFINE x == [k \in 0..m |-> Found(h[k], u).score]
             e == [n \in DOMAIN q |-> Sigma(OfPosting(Worth, u), index[q[n]])]
  <2>1. e \in Seq(Int) /\ Len(e) = m /\ \A k \in 1..m : e[k] = Sigma(OfPosting(Worth, u), index[q[k]])
    BY <1>4, Measures
  <2>2. \A k \in 0..m : x[k] = Found(h[k], u).score /\ x[k] \in Int
    BY <1>6
  <2>3. \A k \in 1..m : x[k] = x[k - 1] + e[k]
    BY <1>5, <2>1, <2>2
  <2>4. x[0] = 0 /\ x[m] = Found(h[m], u).score
    BY <1>7, <1>8
  <2> HIDE DEF e, x
  <2>5. x[m] = x[0] + Total(e) /\ Total(e) \in Int
    BY <2>1, <2>2, <2>3, Telescope, TotalInt
  <2> QED BY <2>4, <2>5 DEF SearchSum, e
<1>11. u \in DOMAIN h[m] <=> \E n \in 1..m : Sigma(OfPosting(Each, u), index[q[n]]) # 0
  <2> DEFINE P(k) == Sigma(OfPosting(Each, u), index[q[k]]) # 0
             There(k) == \E j \in 1..k : P(j)
             Bad == {k \in 0..m : ~(u \in DOMAIN h[k] <=> There(k))}
  <2>1. Bad \subseteq Nat /\ Bad \subseteq 0..m
        /\ \A k \in 0..m : k \in Bad <=> ~(u \in DOMAIN h[k] <=> There(k))
    BY <1>2
  <2>2. \A k \in 1..m : u \in DOMAIN h[k] <=> u \in DOMAIN h[k - 1] \/ P(k)
    BY <1>5
  <2> HIDE DEF P
  <2>3. There(0) <=> u \in DOMAIN h[0]
    BY <1>8
  <2>4. \A k \in 1..m : There(k) <=> There(k - 1) \/ P(k)
    <3>1. \A k \in 1..m : 1..k = (1..(k - 1)) \cup {k}
      BY <1>2
    <3> QED BY <3>1
  <2> HIDE DEF Bad, There
  <2>5. ASSUME Bad # {} PROVE FALSE
    <3>1. PICK k \in Bad : \A y \in Bad : k <= y
      BY <2>1, <2>5, LeastNumber
    <3>2. k \in 0..m /\ k # 0
      BY <2>1, <2>3
    <3>3. k \in 1..m /\ k - 1 \in 0..m /\ ~(k <= k - 1)
      BY <1>2, <3>2
    <3>4. u \in DOMAIN h[k - 1] <=> There(k - 1)
      BY <2>1, <3>1, <3>3
    <3>5. u \in DOMAIN h[k] <=> There(k)
      BY <2>2, <2>4, <3>3, <3>4
    <3> QED BY <2>1, <3>2, <3>5
  <2> QED BY <1>7, <2>1, <2>5 DEF There, P
<1>12. h[m] \in Tables
  BY <1>2, <1>7
<1> QED BY <1>1, <1>9, <1>10, <1>11, <1>12 DEF m

-----------------------------------------------------------------------------
(* How often the words of a query occur on the pages of a URL *)

\* The words of the pages of u.
PageText(a, u) == FlattenSeq([n \in DOMAIN a |-> IF a[n].url = u THEN a[n].words ELSE <<>>])

\* How often the words q occur in text is a sum of what each of them adds.
LEMMA CountsFolded ==
    ASSUME NEW text, NEW q \in Seq(Words), \A t \in Words : Count(t, text) \in Int
    PROVE  LET e == [n \in DOMAIN q |-> Count(q[n], text)]
           IN  /\ FoldLeft(LAMBDA sum, t : sum + Count(t, text), 0, q) = Total(e)
               /\ e \in Seq(Int) /\ Len(e) = Len(q) /\ \A n \in 1..Len(q) : e[n] = Count(q[n], text)
<1> DEFINE D == DOMAIN q
           Plus(x, t) == x + Count(t, text)
           P(g) == g = [S \in SUBSET D |-> IF S = {} THEN 0 ELSE Plus(g[S \ {Max(S)}], q[Max(S)])]
           g0 == CHOOSE g : P(g)
           F == [x \in Int \X Words |-> Plus(x[1], x[2])]
           h == [k \in 0..Len(q) |-> g0[1..k]]
           e == [n \in DOMAIN q |-> Count(q[n], text)]
           sum0 == FoldLeft(LAMBDA sum, t : sum + Count(t, text), 0, q)
<1>1. sum0 = g0[D]
  BY DEF FoldLeft, MapThenFoldSet
<1>2. Len(q) \in Nat /\ D = 1..Len(q) /\ Len(q) \in 0..Len(q) /\ \A k \in 1..Len(q) : q[k] \in Words
  OBVIOUS
<1> HIDE DEF sum0
<1>3. F \in [Int \X Words -> Int]
  OBVIOUS
<1>4. \A a \in Int, t \in Words : F[<<a, t>>] = Plus(a, t)
  OBVIOUS
<1>5. e \in Seq(Int) /\ Len(e) = Len(q) /\ \A n \in 1..Len(q) : e[n] = Count(q[n], text)
  <2>1. e \in [1..Len(q) -> Int]
    BY <1>2
  <2> QED BY <1>2, <2>1, SeqDef
<1>6. \A a \in Int, k \in 1..Len(q) : Plus(a, q[k]) = a + e[k]
  BY <1>5
<1> HIDE DEF F, Plus, e
<1>7. PICK g : IsFold(g, Int, F, 0, q, Len(q))
  <2>1. 0 \in Int
    OBVIOUS
  <2> QED BY <1>2, <1>3, <2>1, FoldExists
<1>8. P(g)
  <2>1. ASSUME NEW S \in SUBSET D, S # {}
        PROVE  F[<<g[S \ {Max(S)}], q[Max(S)]>>] = Plus(g[S \ {Max(S)}], q[Max(S)])
    <3>1. Max(S) \in S
      BY <1>2, <2>1, MaxIn
    <3>2. q[Max(S)] \in Words
      BY <1>2, <3>1
    <3>3. g[S \ {Max(S)}] \in Int
      BY <1>2, <1>7 DEF IsFold
    <3> QED BY <1>4, <3>2, <3>3
  <2>2. g = [S \in SUBSET D |-> g[S]]
        /\ \A S \in SUBSET D : g[S] = IF S = {} THEN 0 ELSE F[<<g[S \ {Max(S)}], q[Max(S)]>>]
    BY <1>2, <1>7 DEF IsFold
  <2>3. \A S \in SUBSET D : g[S] = IF S = {} THEN 0 ELSE Plus(g[S \ {Max(S)}], q[Max(S)])
    BY <2>1, <2>2
  <2>4. [S \in SUBSET D |-> g[S]]
          = [S \in SUBSET D |-> IF S = {} THEN 0 ELSE Plus(g[S \ {Max(S)}], q[Max(S)])]
    BY <2>3
  <2> QED BY <2>2, <2>4
<1>9. P(g0)
  BY <1>8
<1> HIDE DEF g0
<1>10. \A S \in SUBSET D : g0[S] = IF S = {} THEN 0 ELSE Plus(g0[S \ {Max(S)}], q[Max(S)])
  BY <1>9
<1>11. h[0] = 0
  <2>1. 1..0 = {} /\ {} \in SUBSET D /\ 0 \in 0..Len(q)
    BY <1>2
  <2> QED BY <1>10, <2>1
<1>12. ASSUME NEW k \in 1..Len(q) PROVE h[k] = Plus(h[k - 1], q[k])
  <2>1. /\ 1..k \in SUBSET (1..Len(q)) /\ 1..k # {} /\ Max(1..k) = k
        /\ (1..k) \ {Max(1..k)} = 1..(k - 1)
    BY <1>2, Prefix
  <2>2. k - 1 \in 0..Len(q) /\ k \in 0..Len(q)
    BY <1>2
  <2>3. h[k] = g0[1..k] /\ h[k - 1] = g0[1..(k - 1)]
    BY <2>2
  <2> HIDE DEF h, D
  <2> QED BY <1>2, <1>10, <2>1, <2>3
<1>13. h[Len(q)] = g0[D]
  BY <1>2
<1> HIDE DEF h
<1>14. \A k \in 0..Len(q) : h[k] \in Int
  <2> DEFINE Bad == {k \in 0..Len(q) : h[k] \notin Int}
  <2> SUFFICES ASSUME Bad # {} PROVE FALSE
    OBVIOUS
  <2>1. Bad \subseteq Nat /\ (\A k \in 0..Len(q) : k \notin Bad => h[k] \in Int)
        /\ (\A k \in Bad : k \in 0..Len(q) /\ h[k] \notin Int)
    OBVIOUS
  <2> HIDE DEF Bad
  <2>2. PICK k \in Bad : \A j \in Bad : k <= j
    BY <2>1, LeastNumber
  <2>3. k \in 0..Len(q) /\ h[k] \notin Int
    BY <2>1
  <2>4. k # 0
    BY <1>11, <2>3
  <2>5. k \in 1..Len(q) /\ k - 1 \in 0..Len(q) /\ ~(k <= k - 1)
    BY <1>2, <2>3, <2>4
  <2>6. h[k - 1] \in Int /\ e[k] \in Int
    <3>1. e[k] \in Int
      BY <1>5, <2>5
    <3> QED BY <2>1, <2>2, <2>5, <3>1
  <2>7. h[k] = h[k - 1] + e[k]
    BY <1>6, <1>12, <2>5, <2>6
  <2> QED BY <2>3, <2>6, <2>7
<1>15. \A k \in 1..Len(q) : h[k] = h[k - 1] + e[k]
  <2>1. \A k \in 1..Len(q) : k - 1 \in 0..Len(q)
    BY <1>2
  <2> QED BY <1>6, <1>12, <1>14, <2>1
<1>16. h[Len(q)] = h[0] + Total(e) /\ Total(e) \in Int
  BY <1>5, <1>14, <1>15, Telescope, TotalInt
<1>17. sum0 = Total(e)
  BY <1>1, <1>11, <1>13, <1>16
<1> QED BY <1>5, <1>17 DEF sum0, e

\* They are words, taken page by page.
LEMMA PageWords ==
    ASSUME NEW a \in Seq(Pages), NEW u
    PROVE  LET s == [n \in DOMAIN a |-> IF a[n].url = u THEN a[n].words ELSE <<>>]
           IN  /\ s \in Seq(Seq(Words)) /\ DOMAIN s = DOMAIN a /\ PageText(a, u) = FlattenSeq(s)
               /\ \A n \in DOMAIN a : s[n] = IF a[n].url = u THEN a[n].words ELSE <<>>
               /\ PageText(a, u) \in Seq(Words)
<1> DEFINE s == [n \in DOMAIN a |-> IF a[n].url = u THEN a[n].words ELSE <<>>]
<1>1. DOMAIN a = 1..Len(a) /\ Len(a) \in Nat /\ \A n \in 1..Len(a) : a[n] \in Pages
  OBVIOUS
<1>2. \A n \in 1..Len(a) : s[n] \in Seq(Words) /\ s[n] = IF a[n].url = u THEN a[n].words ELSE <<>>
  <2>1. \A n \in 1..Len(a) : a[n].words \in Seq(Words)
    BY <1>1, IndexAssumption
  <2>2. \A n \in 1..Len(a) : s[n] = IF a[n].url = u THEN a[n].words ELSE <<>>
    BY <1>1
  <2>3. <<>> \in Seq(Words)
    OBVIOUS
  <2> QED BY <2>1, <2>2, <2>3
<1>3. s \in Seq(Seq(Words)) /\ DOMAIN s = DOMAIN a
  <2>1. s \in [1..Len(a) -> Seq(Words)]
    BY <1>1, <1>2
  <2> QED BY <1>1, <2>1, SeqDef
<1>4. PageText(a, u) = FlattenSeq(s)
  BY DEF PageText
<1> HIDE DEF s
<1>5. FlattenSeq(s) \in Seq(Words)
  BY <1>3, Flattened
<1> QED BY <1>1, <1>2, <1>3, <1>4, <1>5 DEF s

\* The rows that pages have for a token of a query count, by their frequencies, how
\* often it occurs on the pages.
LEMMA PageOccurrences ==
    ASSUME NEW a \in Seq(Pages), NEW t, Good(t), NEW u
    PROVE  PageSum(a, OfRow(Freq, t, u), DOMAIN a) = Count(t, PageText(a, u))
<1> DEFINE w == OfRow(Freq, t, u)
           s == [n \in DOMAIN a |-> IF a[n].url = u THEN a[n].words ELSE <<>>]
           v == OfPage(w)
<1>1. w \in [RowType -> Int]
  BY Measures, WeightTypes
<1>2. PageSum(a, w, DOMAIN a) = Sigma(v, a)
  BY <1>1, PageAll
<1>3. DOMAIN a = 1..Len(a) /\ Len(a) \in Nat /\ \A n \in 1..Len(a) : a[n] \in Pages
  OBVIOUS
<1>4. \A n \in DOMAIN a : s[n] = IF a[n].url = u THEN a[n].words ELSE <<>>
  BY PageWords
<1>5. s \in Seq(Seq(Words)) /\ DOMAIN s = DOMAIN a /\ PageText(a, u) = FlattenSeq(s)
      /\ PageText(a, u) \in Seq(Words)
  BY PageWords
<1> HIDE DEF s
<1>6. ASSUME NEW n \in 1..Len(a) PROVE Sigma(Ones(t), s[n]) = v[a[n]]
  <2> DEFINE p == a[n]
  <2>1. p \in Pages /\ p.words \in Seq(Words) /\ v[p] = Sigma(w, collectPostings(p))
    BY <1>3, IndexAssumption DEF OfPage
  <2>2. s[n] = IF p.url = u THEN p.words ELSE <<>>
    BY <1>3, <1>4
  <2> HIDE DEF p, v
  <2>3. v[p] = Given(Freq, t, u, p)
    BY <2>1, Measures, PageWeighs
  <2>4. tokenize(p.words) \in Seq(Words) /\ Count(t, tokenize(p.words)) = Count(t, p.words)
    BY <2>1, TokensType, TokenAlike
  <2>5. PostingFor(t, p) \in PostingType /\ PostingFor(t, p).tf = Count(t, p.words)
    <3>1. Count(t, tokenize(p.words)) \in Nat
      BY <2>4, CountNat
    <3>2. p.url \in URLs /\ p.depth \in Depths
      BY <2>1 DEF URLs, Depths
    <3> QED BY <2>4, <3>1, <3>2 DEF PostingFor, PostingType
  <2>6. Freq[PostingFor(t, p)] = Count(t, p.words)
    BY <2>5 DEF Freq
  <2>7. t \notin Range(tokenize(p.words)) => Count(t, p.words) = 0
    BY <2>4, CountZero
  <2>8. v[p] = IF p.url = u THEN Count(t, p.words) ELSE 0
    BY <2>3, <2>6, <2>7 DEF Given
  <2>9. Sigma(Ones(t), p.words) = Count(t, p.words) /\ Sigma(Ones(t), <<>>) = 0
    <3>1. Ones(t) \in [Words -> Int]
      BY <2>1, CountIs
    <3> QED BY <2>1, <3>1, CountIs, SigmaSmall
  <2> QED BY <2>2, <2>8, <2>9 DEF p
<1> HIDE DEF v, w
<1>7. Count(t, FlattenSeq(s)) = Sigma(Ones(t), FlattenSeq(s)) /\ Ones(t) \in [Words -> Int]
  BY <1>5, CountIs
<1>8. SameWeights(Words, Ones(t), s, v, a)
  BY <1>3, <1>5, <1>6, <1>7 DEF SameWeights
<1>9. Sigma(Ones(t), FlattenSeq(s)) = Sigma(v, a)
  BY <1>8, FlatWeight
<1> QED BY <1>2, <1>5, <1>7, <1>9 DEF w

\* The words of a query that the tokenizers agree on are good tokens.
LEMMA PlainGood ==
    ASSUME NEW q \in PlainQueries
    PROVE  q \in Seq(Words) /\ \A n \in 1..Len(q) : q[n] \in Words /\ Good(q[n])
<1>1. PICK r \in Queries : q = tokenize(r)
  BY DEF PlainQueries
<1>2. Plain(q)
  BY DEF PlainQueries
<1> DEFINE s == [n \in DOMAIN r |-> IF r[n] \in DroppedWords THEN <<>> ELSE <<r[n]>>]
           Kinds == Words \ DroppedWords
<1>3. r \in Seq(Words)
  BY IndexAssumption
<1>4. s \in Seq(Seq(Kinds))
  <2>1. DOMAIN r = 1..Len(r) /\ Len(r) \in Nat /\ \A n \in 1..Len(r) : r[n] \in Words
    BY <1>3
  <2>2. \A n \in 1..Len(r) : (IF r[n] \in DroppedWords THEN <<>> ELSE <<r[n]>>) \in Seq(Kinds)
    <3>1. <<>> \in Seq(Kinds) /\ \A x \in Kinds : <<x>> \in Seq(Kinds)
      OBVIOUS
    <3>2. \A n \in 1..Len(r) : r[n] \notin DroppedWords => r[n] \in Kinds
      BY <2>1
    <3> HIDE DEF Kinds
    <3> QED BY <3>1, <3>2
  <2>3. s \in [1..Len(r) -> Seq(Kinds)]
    BY <2>1, <2>2
  <2> QED BY <2>1, <2>3, SeqDef
<1>5. q = FlattenSeq(s)
  BY <1>1 DEF tokenize
<1> HIDE DEF s
<1>6. q \in Seq(Kinds)
  BY <1>4, <1>5, Flattened
<1>7. q \in Seq(Words) /\ DOMAIN q = 1..Len(q) /\ \A n \in 1..Len(q) : q[n] \in Words \ DroppedWords
  BY <1>6
<1> QED BY <1>2, <1>7 DEF Plain, Good

-----------------------------------------------------------------------------
(* The theorems about what is found after losses and restarts *)

\* A search in an index within the pages counts no occurrence that is not there.
LEMMA FewerFound ==
    ASSUME NEW index \in Indexes, NEW a \in Seq(Pages), Within(index, a), NEW q \in PlainQueries,
           NEW u \in DOMAIN Atomic(index, q)
    PROVE  Atomic(index, q)[u].frequency
               <= FoldLeft(LAMBDA sum, t : sum + Count(t, PageText(a, u)), 0, q)
<1> DEFINE d == [n \in DOMAIN q |-> Sigma(OfPosting(Freq, u), index[q[n]])]
           text == PageText(a, u)
           e == [n \in DOMAIN q |-> Count(q[n], text)]
<1>1. q \in Seq(Words) /\ \A n \in 1..Len(q) : q[n] \in Words /\ Good(q[n])
  BY PlainGood
<1>2. Atomic(index, q) \in Tables /\ Found(Atomic(index, q), u).frequency = Total(d)
  BY <1>1, TokensCount DEF SearchSum
<1>3. u \in URLs /\ Atomic(index, q)[u].frequency = Total(d)
  BY <1>2, FoundType, TableIs
<1>4. d \in Seq(Int) /\ Len(d) = Len(q)
      /\ \A n \in 1..Len(q) : d[n] = Sigma(OfPosting(Freq, u), index[q[n]])
  <2>1. Freq \in [PostingType -> Int] /\ q \in Seq(Words)
    BY <1>1, Measures
  <2> QED BY <2>1, SearchNumbers
<1>5. text \in Seq(Words)
  BY PageWords
<1> HIDE DEF d, text
<1>6. \A t \in Words : Count(t, text) \in Int
  BY <1>5, CountNat
<1>7. /\ FoldLeft(LAMBDA sum, t : sum + Count(t, text), 0, q) = Total(e)
      /\ e \in Seq(Int) /\ Len(e) = Len(q) /\ \A n \in 1..Len(q) : e[n] = Count(q[n], text)
  BY <1>1, <1>6, CountsFolded
<1>8. ASSUME NEW n \in 1..Len(q) PROVE d[n] <= e[n]
  <2>1. Sigma(OfPosting(Freq, u), index[q[n]]) <= PageSum(a, OfRow(Freq, q[n], u), DOMAIN a)
    BY <1>1, <1>3, Measures DEF Within
  <2>2. PageSum(a, OfRow(Freq, q[n], u), DOMAIN a) = Count(q[n], text)
    BY <1>1, PageOccurrences DEF text
  <2> QED BY <1>4, <1>7, <2>1, <2>2
<1> HIDE DEF e
<1>9. Total(d) <= Total(e)
  BY <1>4, <1>7, <1>8, TotalMore
<1> QED BY <1>3, <1>7, <1>9 DEF text

\* The sums allow an occurrence to be found only where there is one.
LEMMA InventsNothing == StorageInv /\ SumsInv => NothingInvented
<1> SUFFICES ASSUME StorageInv, SumsInv, NEW q \in PlainQueries,
                    NEW index \in {postings, WithRows(RestoredRows)},
                    NEW u \in DOMAIN Atomic(index, q)
             PROVE  Atomic(index, q)[u].frequency <= Occurrences(u, q)
  BY DEF NothingInvented
<1>1. /\ StorageTypes /\ postings \in Indexes /\ added \in Seq(Pages)
      /\ file \in Seq(LineType) /\ table \subseteq RowType /\ IsFiniteSet(table)
  BY DEF StorageInv, StorageTypes, Indexes
<1>2. PICK kept, held : Places(added, kept, held) /\ Written(added, file, kept)
  BY DEF SumsInv, PagesInv
<1>3. kept \in SUBSET DOMAIN added
  BY <1>2 DEF Places
<1>4. Within(WithRows(RestoredRows), added)
  BY <1>1, <1>2, <1>3, RestoredWithin DEF RestoresWithin, SumsInv
<1>5. WithRows(RestoredRows) \in Indexes
  <2>1. RestoredRows \in Seq(RowType)
    BY <1>1, Restored
  <2> QED BY <2>1, Rebuilt DEF Indexes
<1>6. index \in Indexes /\ Within(index, added)
  BY <1>1, <1>4, <1>5 DEF SumsInv
<1>7. Atomic(index, q)[u].frequency
          <= FoldLeft(LAMBDA sum, t : sum + Count(t, PageText(added, u)), 0, q)
  BY <1>1, <1>6, FewerFound
<1> QED BY <1>7 DEF Occurrences, PageText

\* All rows of the pages, counted.
LEMMA RowsCounted ==
    ASSUME NEW a \in Seq(Pages)
    PROVE  AllRows(a) \in Seq(RowType) /\ Len(AllRows(a)) = PageSum(a, One, DOMAIN a)
<1> DEFINE s == [n \in DOMAIN a |-> collectPostings(a[n])]
<1>1. DOMAIN a = 1..Len(a) /\ Len(a) \in Nat /\ \A n \in 1..Len(a) : a[n] \in Pages
  OBVIOUS
<1>2. \A n \in 1..Len(a) : s[n] = collectPostings(a[n]) /\ s[n] \in Seq(RowType)
  BY <1>1, RowsOfPage
<1>3. s \in Seq(Seq(RowType)) /\ DOMAIN s = DOMAIN a
  <2>1. s \in [1..Len(a) -> Seq(RowType)]
    BY <1>1, <1>2
  <2> QED BY <1>1, <2>1, SeqDef
<1>4. AllRows(a) = FlattenSeq(s)
  BY DEF AllRows
<1> HIDE DEF s
<1>5. One \in [RowType -> Nat] /\ One \in [RowType -> Int]
  BY DEF One
<1>6. \A n \in DOMAIN s : Sigma(One, s[n]) = OfPage(One)[a[n]]
  BY <1>1, <1>2, <1>3 DEF OfPage
<1>7. SameWeights(RowType, One, s, OfPage(One), a)
  BY <1>3, <1>5, <1>6 DEF SameWeights
<1>8. Sigma(One, FlattenSeq(s)) = Sigma(OfPage(One), a)
  BY <1>7, FlatWeight
<1>9. FlattenSeq(s) \in Seq(RowType)
  BY <1>3, Flattened
<1>10. Sigma(One, FlattenSeq(s)) = Len(FlattenSeq(s))
  BY <1>9, SigmaLen
<1>11. PageSum(a, One, DOMAIN a) = Sigma(OfPage(One), a)
  BY <1>5, PageAll
<1> QED BY <1>4, <1>8, <1>9, <1>10, <1>11

\* When as many rows are in p.data as the pages have, no page with rows is missing.
LEMMA AllKept ==
    ASSUME NEW a \in Seq(Pages), NEW kept \in SUBSET DOMAIN a, NEW rows \in Seq(RowType),
           Sigma(One, rows) = PageSum(a, One, kept), Len(rows) = Len(AllRows(a))
    PROVE  \A n \in DOMAIN a : n \in kept \/ collectPostings(a[n]) = <<>>
<1> DEFINE gone == DOMAIN a \ kept
<1>1. One \in [RowType -> Nat] /\ One \in [RowType -> Int] /\ Sigma(One, rows) = Len(rows)
  BY SigmaLen DEF One
<1>2. kept \cap gone = {} /\ kept \cup gone = DOMAIN a
  OBVIOUS
<1>3. DOMAIN a = 1..Len(a) /\ \A n \in 1..Len(a) : a[n] \in Pages
  OBVIOUS
<1> HIDE DEF gone
<1>4. PageSum(a, One, DOMAIN a) = PageSum(a, One, kept) + PageSum(a, One, gone)
  <2>1. kept \cap gone = {} /\ One \in [RowType -> Int] /\ a \in Seq(Pages)
    BY <1>1, <1>2
  <2>2. PageSum(a, One, kept \cup gone) = PageSum(a, One, kept) + PageSum(a, One, gone)
    BY <2>1, PageUnion
  <2> QED BY <1>2, <2>2
<1>5. PageSum(a, One, DOMAIN a) = PageSum(a, One, kept)
  BY <1>1, RowsCounted
<1>6. PageSum(a, One, kept) \in Int /\ PageSum(a, One, gone) \in Int
  BY <1>1, PageNumbers
<1>7. PageSum(a, One, gone) = 0
  BY <1>4, <1>5, <1>6
<1>8. ASSUME NEW n \in DOMAIN a, n \notin kept PROVE collectPostings(a[n]) = <<>>
  <2>1. n \in gone /\ n \in 1..Len(a) /\ a[n] \in Pages
    BY <1>3, <1>8 DEF gone
  <2>2. gone \subseteq gone
    OBVIOUS
  <2>3. Sigma(One, collectPostings(a[n])) <= PageSum(a, One, gone)
    BY <1>1, <2>1, <2>2, PageMore
  <2> DEFINE r == collectPostings(a[n])
  <2>4. r \in Seq(RowType)
    BY <2>1, RowsOfPage
  <2>5. Sigma(One, r) <= 0
    BY <1>7, <2>3
  <2> HIDE DEF r
  <2>6. Len(r) <= 0 /\ Len(r) \in Nat
    BY <2>4, <2>5, SigmaLen
  <2>7. r = <<>>
    BY <2>4, <2>6
  <2> QED BY <2>7 DEF r
<1> QED BY <1>8

\* Two indexes with all postings of the same pages give the same.
LEMMA SameFound ==
    ASSUME NEW x \in Indexes, NEW y \in Indexes, NEW a, AllOf(x, a), AllOf(y, a), NEW q \in PlainQueries
    PROVE  AtMost(Atomic(x, q), Atomic(y, q))
<1>1. q \in Seq(Words) /\ \A n \in 1..Len(q) : q[n] \in Words /\ Good(q[n])
  BY PlainGood
<1>2. Atomic(x, q) \in Tables /\ Atomic(y, q) \in Tables
  BY <1>1, TokensCount
<1>3. ASSUME NEW u \in DOMAIN Atomic(x, q)
      PROVE  /\ u \in DOMAIN Atomic(y, q)
             /\ Atomic(x, q)[u].score <= Atomic(y, q)[u].score
             /\ Atomic(x, q)[u].frequency <= Atomic(y, q)[u].frequency
  <2>1. u \in URLs
    BY <1>2, TableIs
  <2>2. ASSUME NEW v \in [PostingType -> Int], NEW n \in 1..Len(q)
        PROVE  Sigma(OfPosting(v, u), x[q[n]]) = Sigma(OfPosting(v, u), y[q[n]])
    <3>1. Sigma(OfPosting(v, u), x[q[n]]) = PageSum(a, OfRow(v, q[n], u), DOMAIN a)
      BY <1>1, <2>1 DEF AllOf
    <3>2. Sigma(OfPosting(v, u), y[q[n]]) = PageSum(a, OfRow(v, q[n], u), DOMAIN a)
      BY <1>1, <2>1 DEF AllOf
    <3> QED BY <3>1, <3>2
  <2>3. ASSUME NEW v \in [PostingType -> Int] PROVE SearchSum(v, u, x, q) = SearchSum(v, u, y, q)
    <3>1. DOMAIN q = 1..Len(q)
      BY <1>1
    <3>2. [n \in DOMAIN q |-> Sigma(OfPosting(v, u), x[q[n]])]
            = [n \in DOMAIN q |-> Sigma(OfPosting(v, u), y[q[n]])]
      BY <2>2, <3>1
    <3> QED BY <3>2 DEF SearchSum
  <2>4. u \in DOMAIN Atomic(y, q)
    <3>1. \E n \in 1..Len(q) : Sigma(OfPosting(Each, u), x[q[n]]) # 0
      BY <1>1, TokensCount
    <3>2. \E n \in 1..Len(q) : Sigma(OfPosting(Each, u), y[q[n]]) # 0
      BY <2>2, <3>1, Measures
    <3> QED BY <1>1, <3>2, TokensCount
  <2>5. /\ Found(Atomic(x, q), u).frequency = SearchSum(Freq, u, x, q)
        /\ Found(Atomic(x, q), u).score = SearchSum(Worth, u, x, q)
    BY <1>1, TokensCount
  <2>6. /\ Found(Atomic(y, q), u).frequency = SearchSum(Freq, u, y, q)
        /\ Found(Atomic(y, q), u).score = SearchSum(Worth, u, y, q)
    BY <1>1, TokensCount
  <2>7. SearchSum(Freq, u, x, q) = SearchSum(Freq, u, y, q)
        /\ SearchSum(Worth, u, x, q) = SearchSum(Worth, u, y, q)
    BY <2>3, Measures
  <2>8. /\ Found(Atomic(x, q), u).score = Atomic(x, q)[u].score
        /\ Found(Atomic(x, q), u).frequency = Atomic(x, q)[u].frequency
        /\ Atomic(x, q)[u].score \in Int /\ Atomic(x, q)[u].frequency \in Int
    BY <1>2, FoundType
  <2>9. /\ Found(Atomic(y, q), u).score = Atomic(y, q)[u].score
        /\ Found(Atomic(y, q), u).frequency = Atomic(y, q)[u].frequency
    BY <1>2, <2>4, FoundType
  <2>10. Atomic(x, q)[u].score = Atomic(y, q)[u].score
         /\ Atomic(x, q)[u].frequency = Atomic(y, q)[u].frequency
    BY <2>5, <2>6, <2>7, <2>8, <2>9
  <2> QED BY <2>4, <2>8, <2>10
<1> QED BY <1>3 DEF AtMost

\* With all rows in p.data and no write cut short, the index and what would be
\* restored have all postings of the pages.
LEMMA RestoresExactly == StorageInv /\ SumsInv => RestoreExact
<1> SUFFICES ASSUME StorageInv, SumsInv, tornWrites = 0, Len(stored) = Len(AllRows(added)),
                    NEW q \in PlainQueries
             PROVE  /\ AtMost(Atomic(postings, q), Atomic(WithRows(RestoredRows), q))
                    /\ AtMost(Atomic(WithRows(RestoredRows), q), Atomic(postings, q))
  BY DEF RestoreExact
<1>1. /\ StorageTypes /\ postings \in Indexes /\ added \in Seq(Pages) /\ stored \in Seq(RowType)
      /\ file \in Seq(LineType) /\ table \subseteq RowType /\ IsFiniteSet(table)
  BY DEF StorageInv, StorageTypes, Indexes
<1>2. PICK kept, held : /\ Places(added, kept, held) /\ Exact(added, file, stored, kept)
                        /\ NoneGone(added, kept, held) => AllOf(postings, added)
  BY DEF SumsInv, PagesInv
<1>3. \A n \in DOMAIN added : n \in kept \/ collectPostings(added[n]) = <<>>
  <2> DEFINE a == added
             rows == stored
  <2>1. a \in Seq(Pages) /\ kept \in SUBSET DOMAIN a /\ rows \in Seq(RowType) /\ Len(rows) = Len(AllRows(a))
    BY <1>1, <1>2 DEF Places
  <2>2. Sigma(One, rows) = PageSum(a, One, kept)
    <3>1. One \in [RowType -> Int]
      BY DEF One
    <3> QED BY <1>2, <3>1 DEF Exact
  <2> HIDE DEF a, rows
  <2>3. \A n \in DOMAIN a : n \in kept \/ collectPostings(a[n]) = <<>>
    BY <2>1, <2>2, AllKept
  <2> QED BY <2>3 DEF a
<1>4. AllOf(postings, added)
  BY <1>2, <1>3 DEF NoneGone
<1>5. AllOf(WithRows(RestoredRows), added)
  BY <1>1, <1>2, <1>3, RestoredAll DEF RestoresAll, SumsInv
<1>6. WithRows(RestoredRows) \in Indexes
  <2>1. RestoredRows \in Seq(RowType)
    BY <1>1, Restored
  <2> QED BY <2>1, Rebuilt DEF Indexes
<1> QED BY <1>1, <1>4, <1>5, <1>6, SameFound

\* A search, whether in the index as it is or as a restart would build it, counts no
\* word of a page more often than it is there (addToScores in index.go over what
\* AddDocument, savePostingsBatch, AppendPostingsToFile and RestoreIndex leave):
\* crashes, a removed p.data, the fallback to the table and restarts may lose
\* occurrences, but never make one up or count it twice.
THEOREM NothingIsInvented == Spec => []NothingInvented
BY SumsHold, InventsNothing, PTL

\* RestoreIndex answers as the process did that wrote p.data: when every page has
\* reached the present file and no write was cut short, a search finds the same
\* pages with the same scores and frequencies in the index and in what a restart
\* would build, although both sides tokenize for themselves.
THEOREM RestoredIsExact == Spec => []RestoreExact
BY SumsHold, RestoresExactly, PTL

=============================================================================
