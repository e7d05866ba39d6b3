------------------------------- MODULE Index -------------------------------
(***************************************************************************)
(* The inverted index (internal/index), the two places its postings are    *)
(* written to (internal/storage) and the way back after a restart          *)
(* (Manager.RestoreIndex).                                                 *)
(*                                                                         *)
(* The indexer goroutines of the crawls add pages and flush batches, a     *)
(* StartCrawl removes p.data without a lock, a search looks its tokens up  *)
(* one by one, and the process may end at any moment, in the middle of a   *)
(* write too.                                                              *)
(*                                                                         *)
(* A text is the sequence of its words, split as index.tokenize does (at   *)
(* everything that is not a letter or digit of any script); Pieces[w] is   *)
(* what collectPostings, which knows ASCII only, makes of a word.          *)
(* OriginURL and Title are payload of a result, InTitle and InURL are read *)
(* by nothing: they are left out.                                          *)
(***************************************************************************)
EXTENDS Integers, SequencesExt

CONSTANTS
    Words,        \* the words of texts and queries, and pieces of them
    DroppedWords, \* stop words, and words shorter than two bytes
    Pieces,       \* Pieces[w]: the ASCII parts, two characters or longer, of w
    Pages,        \* the records a fetch may give: url, depth and words
    Queries,      \* what is searched for: sequences of words
    Indexers,     \* the indexer goroutines
    TopK,         \* how many results a search returns
    BatchRows,    \* rows that fill a batch (500 in the code)
    MaxPages,     \* bound on the pages indexed
    MaxRestarts   \* bound on ends of the process

URLs == {p.url : p \in Pages}

ASSUME IndexAssumption ==
    /\ DroppedWords \subseteq Words
    /\ Pieces \in [Words -> Seq(Words)]
    /\ Queries \subseteq Seq(Words)
    /\ \A p \in Pages : p.depth \in Nat /\ p.words \in Seq(Words)
    /\ TopK \in Nat /\ BatchRows \in Nat \ {0} /\ MaxPages \in Nat /\ MaxRestarts \in Nat

VARIABLES
    postings,  \* postings[t]: the postings of token t, in the order they were added
    docCount,  \* Index.docCount
    ipc,       \* ipc[i]: where indexer i is; "off" when its crawl does not run
    closing,   \* closing[i]: resultsCh is closed, the flush under way is the last
    pending,   \* pending[i]: pendingPostings, the rows that wait for a flush
    handle,    \* is the p.data that the writer opened still the one in place?
    table,     \* the postings table, keyed by token and url
    file,      \* the lines of p.data
    spc,       \* where the search is
    todo,      \* the query tokens it has still to look up
    scores,    \* scores[u]: what it has accumulated for u
    answer,    \* what it returned: the order asked for, and the hits in order
    restarts,
    (* history *)
    added,     \* every page ever added to the index
    stored,    \* the rows appended to the present p.data
    tornWrites,\* how often the process ended during a write
    query,     \* the query of the search ...
    low        \* ... and what it would have found in one step when it began

memVars == <<postings, docCount, added>>
indexerVars == <<ipc, closing, pending, handle>>
diskVars == <<table, file, stored, tornWrites>>
searchVars == <<spc, todo, scores, answer, query, low>>
vars == <<memVars, indexerVars, diskVars, searchVars, restarts>>

-----------------------------------------------------------------------------
(* Tokens, postings and rows *)

tokenize(text) ==
    FlattenSeq([n \in DOMAIN text |-> IF text[n] \in DroppedWords THEN <<>> ELSE <<text[n]>>])

Count(t, text) == Cardinality({i \in DOMAIN text : text[i] = t})

\* The tokens of collectPostings: no stop words, ASCII only.
RowTokens(text) == FlattenSeq([i \in DOMAIN text |-> Pieces[text[i]]])

\* Mutant: a token is counted once per page.
collectPostingsOnce(p) ==
    SetToSeq({[token |-> t, url |-> p.url, depth |-> p.depth, tf |-> 1] :
                 t \in Range(RowTokens(p.words))})

\* The rows of a page.  (The code takes them from a map, in any order; they
\* have different tokens, so the order makes no difference to a search.)
collectPostings(p) ==
    SetToSeq({[token |-> t, url |-> p.url, depth |-> p.depth,
               tf |-> Count(t, RowTokens(p.words))] :
                 t \in Range(RowTokens(p.words))})

NoPostings == [t \in Words |-> <<>>]

PostingOf(row) == [url |-> row.url, depth |-> row.depth, tf |-> row.tf]

\* AddPosting for every row, in order.
WithRows(rows) ==
    [t \in Words |->
        FlattenSeq([n \in DOMAIN rows |->
                       IF rows[n].token = t THEN <<PostingOf(rows[n])>> ELSE <<>>])]

\* A line of p.data: is its row readable, does it end with a newline?
Line(row) == [row |-> row, whole |-> TRUE, nl |-> TRUE]
Lines(rows) == [i \in DOMAIN rows |-> Line(rows[i])]

\* Appending: a line left without its newline swallows the first new one, and
\* LoadPostingsFromFile skips the two together, since the field that should be
\* a number is not.  (Cut inside its first word the line gives a row under a
\* token nobody wrote, which counts as skipped here; a frequency of several
\* digits may be cut to a smaller one, here frequencies have one digit.)
AppendLines(f, ls) ==
    IF f = <<>> \/ ls = <<>> \/ Last(f).nl THEN f \o ls
    ELSE Front(f) \o <<[Head(ls) EXCEPT !.whole = FALSE]>> \o Tail(ls)

\* Mutant: reading ends at the first bad line.
LoadUntilBadLine ==
    LET good == {n \in 0..Len(file) : \A k \in 1..n : file[k].whole}
    IN [i \in 1..Max(good) |-> file[i].row]

\* Lines that do not parse are skipped.
LoadPostingsFromFile ==
    FlattenSeq([n \in DOMAIN file |-> IF file[n].whole THEN <<file[n].row>> ELSE <<>>])

LoadAllPostings == SetToSeq(table)

\* RestoreIndex: p.data if it has a readable row, else the table.
RestoredRows ==
    IF LoadPostingsFromFile # <<>> THEN LoadPostingsFromFile ELSE LoadAllPostings

\* Mutant: rows are counted instead of documents.
RestoredRowCount == Len(RestoredRows)

RestoredDocCount == Cardinality({row.url : row \in Range(RestoredRows)})

-----------------------------------------------------------------------------
(* Search *)

\* Mutant: the last posting of a page replaces the ones before.
AddToScoresReplacing(sc, p) ==
    [u \in DOMAIN sc \cup {p.url} |->
        IF u # p.url THEN sc[u]
        ELSE [depth |-> p.depth, score |-> p.tf * 10 + 1000 - p.depth * 5, frequency |-> p.tf]]

\* One posting is added to the scores; depth is that of the first one.
AddToScores(sc, p) ==
    LET old == IF p.url \in DOMAIN sc THEN sc[p.url]
               ELSE [depth |-> p.depth, score |-> 0, frequency |-> 0]
    IN [u \in DOMAIN sc \cup {p.url} |->
           IF u # p.url THEN sc[u]
           ELSE [old EXCEPT !.score = @ + p.tf * 10 + 1000 - p.depth * 5, !.frequency = @ + p.tf]]

NoScores == [u \in {} |-> 0]
NoAnswer == [by |-> "none", hits |-> <<>>]

\* The scores after all postings of token t.
AddToken(sc, t) == FoldLeft(AddToScores, sc, postings[t])

\* Mutant: best last.
BeforeAscending(sortBy, x, y) ==
    CASE sortBy = "depth" -> x.depth < y.depth \/ (x.depth = y.depth /\ x.score < y.score)
      [] sortBy = "frequency" ->
            x.frequency < y.frequency \/ (x.frequency = y.frequency /\ x.score < y.score)
      [] OTHER -> x.score < y.score

\* The three orders of the results.
Before(sortBy, x, y) ==
    CASE sortBy = "depth" -> x.depth < y.depth \/ (x.depth = y.depth /\ x.score > y.score)
      [] sortBy = "frequency" ->
            x.frequency > y.frequency \/ (x.frequency = y.frequency /\ x.score > y.score)
      [] OTHER -> x.score > y.score

\* The sorted results, cut after TopK; the order of equals is not determined.
Results(sc, sortBy) ==
    LET results == {[url |-> u, depth |-> sc[u].depth, score |-> sc[u].score,
                     frequency |-> sc[u].frequency] : u \in DOMAIN sc}
        sorted == {r \in SetToSeqs(results) :
                      \A i, j \in DOMAIN r : i < j => ~Before(sortBy, r[j], r[i])}
    IN {IF TopK > 0 /\ Len(r) > TopK THEN SubSeq(r, 1, TopK) ELSE r : r \in sorted}

-----------------------------------------------------------------------------
(* Actions *)

Init ==
    /\ postings = NoPostings /\ docCount = 0 /\ added = <<>>
    /\ ipc = [i \in Indexers |-> "off"] /\ closing = [i \in Indexers |-> FALSE]
    /\ pending = [i \in Indexers |-> <<>>] /\ handle = TRUE
    /\ table = {} /\ file = <<>> /\ stored = <<>> /\ tornWrites = 0
    /\ spc = "idle" /\ todo = <<>> /\ scores = NoScores /\ answer = NoAnswer
    /\ query = <<>> /\ low = NoScores
    /\ restarts = 0

\* StartCrawl removes p.data, whoever may be writing to it, and starts a crawl.
StartCrawl(i) ==
    /\ ipc[i] = "off"
    /\ ipc' = [ipc EXCEPT ![i] = "select"]
    /\ file' = <<>> /\ stored' = <<>>
    /\ handle' = FALSE
    /\ UNCHANGED <<memVars, closing, pending, table, tornWrites, searchVars, restarts>>

\* ResumeCrawlByID starts one and leaves p.data alone.
ResumeCrawl(i) ==
    /\ ipc[i] = "off"
    /\ ipc' = [ipc EXCEPT ![i] = "select"]
    /\ UNCHANGED <<memVars, closing, pending, handle, diskVars, searchVars, restarts>>

\* The page goes into the index, under the write lock, and its rows to the
\* others; a full batch is flushed.
AddDocument(i, p) ==
    LET tokens == tokenize(p.words)
        Posting(t) == [url |-> p.url, depth |-> p.depth, tf |-> Count(t, tokens)]
        rows == pending[i] \o collectPostings(p)
    IN
    /\ ipc[i] = "select" /\ Len(added) < MaxPages
    /\ postings' = [t \in Words |-> IF t \in Range(tokens) THEN Append(postings[t], Posting(t))
                                    ELSE postings[t]]
    /\ docCount' = docCount + 1
    /\ added' = Append(added, p)
    /\ pending' = [pending EXCEPT ![i] = rows]
    /\ ipc' = IF Len(rows) >= BatchRows THEN [ipc EXCEPT ![i] = "save"] ELSE ipc
    /\ UNCHANGED <<closing, handle, diskVars, searchVars, restarts>>

\* The ticker, or the close of resultsCh, with rows to flush.
FlushRest(i, last) ==
    /\ ipc[i] = "select" /\ pending[i] # <<>>
    /\ ipc' = [ipc EXCEPT ![i] = "save"]
    /\ closing' = [closing EXCEPT ![i] = last]
    /\ UNCHANGED <<memVars, pending, handle, diskVars, searchVars, restarts>>

\* The close of resultsCh with nothing to flush.
CloseEmpty(i) ==
    /\ ipc[i] = "select" /\ pending[i] = <<>>
    /\ ipc' = [ipc EXCEPT ![i] = "off"]
    /\ UNCHANGED <<memVars, closing, pending, handle, diskVars, searchVars, restarts>>

\* INSERT OR REPLACE of the rows of a batch, the later ones over the earlier.
Saved(rows) ==
    LET Key(row) == <<row.token, row.url>>
        latest == {rows[n] : n \in {m \in DOMAIN rows :
                      \A k \in DOMAIN rows : k > m => Key(rows[k]) # Key(rows[m])}}
    IN latest \cup {old \in table : \A row \in latest : Key(row) # Key(old)}

\* Mutant: only the last flush of a crawl goes to the table.
SavePostingsAtClose(i) ==
    /\ ipc[i] = "save"
    /\ table' = IF closing[i] THEN Saved(pending[i]) ELSE table
    /\ ipc' = [ipc EXCEPT ![i] = "open"]
    /\ UNCHANGED <<memVars, closing, pending, handle, file, stored, tornWrites, searchVars, restarts>>

\* SavePostingsBatch: one transaction.
SavePostingsBatch(i) ==
    /\ ipc[i] = "save"
    /\ table' = Saved(pending[i])
    /\ ipc' = [ipc EXCEPT ![i] = "open"]
    /\ UNCHANGED <<memVars, closing, pending, handle, file, stored, tornWrites, searchVars, restarts>>

\* Mutant: without pdataMu.
OpenPDataUnlocked(i) ==
    /\ ipc[i] = "open"
    /\ ipc' = [ipc EXCEPT ![i] = "write"]
    /\ handle' = TRUE
    /\ UNCHANGED <<memVars, closing, pending, diskVars, searchVars, restarts>>

\* AppendPostingsToFile takes pdataMu and opens the file, ...
OpenPData(i) ==
    /\ ipc[i] = "open" /\ \A j \in Indexers : ipc[j] # "write"
    /\ ipc' = [ipc EXCEPT ![i] = "write"]
    /\ handle' = TRUE
    /\ UNCHANGED <<memVars, closing, pending, diskVars, searchVars, restarts>>

\* Mutant: the buffer of rows is not emptied after a flush.
AppendPostingsKeeping(i) ==
    /\ ipc[i] = "write"
    /\ IF handle THEN /\ file' = AppendLines(file, Lines(pending[i]))
                      /\ stored' = stored \o pending[i]
       ELSE UNCHANGED <<file, stored>>
    /\ ipc' = [ipc EXCEPT ![i] = IF closing[i] THEN "off" ELSE "select"]
    /\ closing' = [closing EXCEPT ![i] = FALSE]
    /\ UNCHANGED <<memVars, pending, handle, table, tornWrites, searchVars, restarts>>

\* ... writes the rows, which go nowhere if the file was removed meanwhile, and
\* the indexer empties its buffer and goes on, or ends.
AppendPostingsToFile(i) ==
    /\ ipc[i] = "write"
    /\ IF handle THEN /\ file' = AppendLines(file, Lines(pending[i]))
                      /\ stored' = stored \o pending[i]
       ELSE UNCHANGED <<file, stored>>
    /\ pending' = [pending EXCEPT ![i] = <<>>]
    /\ ipc' = [ipc EXCEPT ![i] = IF closing[i] THEN "off" ELSE "select"]
    /\ closing' = [closing EXCEPT ![i] = FALSE]
    /\ UNCHANGED <<memVars, handle, table, tornWrites, searchVars, restarts>>

\* What a write that the end of the process interrupts leaves: some lines, the
\* last one perhaps cut short or without its newline.
TornFiles(i) ==
    {AppendLines(file, Lines(SubSeq(pending[i], 1, n))) : n \in 0..Len(pending[i])}
        \cup {AppendLines(file, Append(Lines(SubSeq(pending[i], 1, n)),
                                       [row |-> pending[i][n + 1], whole |-> w, nl |-> FALSE])) :
                 n \in 0..(Len(pending[i]) - 1), w \in BOOLEAN}

\* The process ends, at a good moment or a bad one, and a new one starts:
\* RestoreIndex rebuilds the index before anything else runs.
Restart ==
    /\ restarts < MaxRestarts
    /\ restarts' = restarts + 1
    /\ \/ /\ \A i \in Indexers : ipc[i] # "write"
          /\ UNCHANGED <<file, tornWrites>>
       \/ \E i \in Indexers :
          /\ ipc[i] = "write"
          /\ file' \in (IF handle THEN TornFiles(i) ELSE {file})
          /\ tornWrites' = tornWrites + 1
    /\ UNCHANGED <<added, handle, table, stored>>
    /\ postings' = WithRows(RestoredRows')
    /\ docCount' = RestoredDocCount'
    /\ ipc' = [i \in Indexers |-> "off"] /\ closing' = [i \in Indexers |-> FALSE]
    /\ pending' = [i \in Indexers |-> <<>>]
    /\ spc' = "idle" /\ todo' = <<>> /\ scores' = NoScores /\ answer' = NoAnswer
    /\ query' = <<>> /\ low' = NoScores

\* handleSearch: Search with a query that has tokens left ...
SearchBegin(q) ==
    /\ spc \in {"idle", "done"} /\ tokenize(q) # <<>>
    /\ spc' = "lookup"
    /\ query' = q /\ todo' = tokenize(q)
    /\ scores' = NoScores /\ answer' = NoAnswer
    /\ low' = FoldLeft(AddToken, NoScores, tokenize(q))
    /\ UNCHANGED <<memVars, indexerVars, diskVars, restarts>>

\* ... looks them up one after the other, each under a read lock of its own, ...
Lookup ==
    /\ spc = "lookup" /\ todo # <<>>
    /\ scores' = AddToken(scores, Head(todo))
    /\ todo' = Tail(todo)
    /\ UNCHANGED <<memVars, indexerVars, diskVars, spc, answer, query, low, restarts>>

\* ... and returns the best.
SearchReturn(sortBy) ==
    /\ spc = "lookup" /\ todo = <<>>
    /\ \E hits \in Results(scores, sortBy) : answer' = [by |-> sortBy, hits |-> hits]
    /\ spc' = "done"
    /\ UNCHANGED <<memVars, indexerVars, diskVars, todo, scores, query, low, restarts>>

Next ==
    \/ \E i \in Indexers :
        \/ StartCrawl(i) \/ ResumeCrawl(i) \/ CloseEmpty(i)
        \/ \E p \in Pages : AddDocument(i, p)
        \/ \E last \in BOOLEAN : FlushRest(i, last)
        \/ SavePostingsBatch(i) \/ OpenPData(i) \/ AppendPostingsToFile(i)
    \/ Restart
    \/ \E q \in Queries : SearchBegin(q)
    \/ Lookup
    \/ \E sortBy \in {"relevance", "depth", "frequency"} : SearchReturn(sortBy)

Spec == Init /\ [][Next]_vars

-----------------------------------------------------------------------------
(* Properties *)

Row == [token : Words, url : URLs, depth : Nat, tf : Nat]
Score == [depth : Nat, score : Int, frequency : Nat]

\* Every variable has its type, and pdataMu admits one writer, who has rows.
TypeOK ==
    /\ \A i, j \in Indexers : ipc[i] = "write" => pending[i] # <<>> /\ (ipc[j] = "write" => i = j)
    /\ postings \in [Words -> Seq([url : URLs, depth : Nat, tf : Nat])]
    /\ docCount \in Nat /\ restarts \in Nat /\ tornWrites \in Nat
    /\ ipc \in [Indexers -> {"off", "select", "save", "open", "write"}]
    /\ closing \in [Indexers -> BOOLEAN] /\ handle \in BOOLEAN
    /\ pending \in [Indexers -> Seq(Row)] /\ stored \in Seq(Row) /\ table \subseteq Row
    /\ file \in Seq([row : Row, whole : BOOLEAN, nl : BOOLEAN])
    /\ added \in Seq(Pages)
    /\ spc \in {"idle", "lookup", "done"} /\ todo \in Seq(Words) /\ query \in Seq(Words)
    /\ \A sc \in {scores, low} : DOMAIN sc \subseteq URLs /\ Range(sc) \subseteq Score

\* What a search in one step for the tokens q finds in an index.
Atomic(index, q) == FoldLeft(LAMBDA sc, t : FoldLeft(AddToScores, sc, index[t]), NoScores, q)

\* More was found of each page in y than in x, or as much.
AtMost(x, y) ==
    /\ DOMAIN x \subseteq DOMAIN y
    /\ \A u \in DOMAIN x : x[u].score <= y[u].score /\ x[u].frequency <= y[u].frequency

\* A search takes a lock per token and pages come in between: it may see a page
\* for one token and not for another.  But it finds all that was there when it
\* began, and nothing that is not there when it returns.
SearchBounded ==
    spc = "done" => AtMost(low, scores) /\ AtMost(scores, Atomic(postings, tokenize(query)))

\* A page that was in the index when the search began is missing from the
\* answer only if TopK others are at least as good, although their scores and
\* its own were read at different times.
TopKBest ==
    spc = "done" => \A u \in DOMAIN low \ {answer.hits[n].url : n \in DOMAIN answer.hits} :
        /\ Len(answer.hits) = TopK
        /\ \A n \in DOMAIN answer.hits :
              /\ answer.by = "relevance" => answer.hits[n].score >= low[u].score
              /\ answer.by = "frequency" => answer.hits[n].frequency >= low[u].frequency

\* The two tokenizers agree on the words of q: each is ASCII and not a part of
\* another word of the pages.
Plain(q) ==
    \A n \in DOMAIN q : \A p \in Pages : \A k \in DOMAIN p.words :
        IF p.words[k] = q[n] THEN Pieces[q[n]] = <<q[n]>> ELSE q[n] \notin Range(Pieces[p.words[k]])

PlainQueries == {q \in {tokenize(r) : r \in Queries} : Plain(q)}

AllRows(ps) == FlattenSeq([n \in DOMAIN ps |-> collectPostings(ps[n])])

\* When every page ever indexed has reached the present p.data and no write was
\* cut short, a restart at this moment would answer as the running process
\* does, although documents are tokenized a second time, batched, written line
\* by line and read back.
RestoreExact ==
    tornWrites = 0 /\ Len(stored) = Len(AllRows(added)) =>
        \A q \in PlainQueries :
            LET now == Atomic(postings, q)  then == Atomic(WithRows(RestoredRows), q)
            IN AtMost(now, then) /\ AtMost(then, now)

\* How often the words of q occur on the pages of u that were ever indexed.
Occurrences(u, q) ==
    LET text == FlattenSeq([n \in DOMAIN added |-> IF added[n].url = u THEN added[n].words ELSE <<>>])
    IN FoldLeft(LAMBDA sum, t : sum + Count(t, text), 0, q)

\* Crashes, lost files, the fallback to the table and restarts in any order
\* never count an occurrence twice or make one up, in the index as it is or as
\* it would be restored.
NothingInvented ==
    \A q \in PlainQueries : \A index \in {postings, WithRows(RestoredRows)} :
        LET found == Atomic(index, q)
        IN \A u \in DOMAIN found : found[u].frequency <= Occurrences(u, q)

\* Of the rows appended to the present p.data each write that the end of the
\* process cut short costs at most one: the row its unfinished line swallows.
RowsLost ==
    BagCardinality(ToBag(stored) (-) ToBag(LoadPostingsFromFile)) <= tornWrites

\* p.data never holds what the table lacks: a flush that is interrupted between
\* its two writes leaves the table ahead.
FileInTable ==
    \A n \in DOMAIN LoadPostingsFromFile : \E row \in table :
        /\ row.token = LoadPostingsFromFile[n].token
        /\ row.url = LoadPostingsFromFile[n].url

\* The document count of the dashboard, a counter in memory and a count of URLs
\* after a restart, is at least the number of pages a search can find and at
\* most the number of pages indexed.
DocCountTruthful ==
    /\ Cardinality({p.url : p \in UNION {Range(postings[t]) : t \in Words}}) <= docCount
    /\ docCount <= Len(added)

=============================================================================
