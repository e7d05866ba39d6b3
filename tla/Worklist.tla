------------------------------ MODULE Worklist ------------------------------
(***************************************************************************)
(* What a crawl promises, without goroutines, channels and queues: pages   *)
(* become known through pages fetched before them, every known page is     *)
(* fetched at most once and one link below the page that made it known,    *)
(* and the reason given at the end is the true one.                        *)
(***************************************************************************)
EXTENDS Naturals, Sequences, FiniteSets, Functions

CONSTANTS
    Pages,     \* the pages of the web
    Out,       \* Out[u]: the links on page u
    Roots,     \* where the crawl begins
    DepthMax,  \* how many links away from a root it goes
    Limit      \* how many pages fetched end it, 0 = any number

VARIABLES
    known,   \* the pages found
    log,     \* log[u]: the depths at which u was fetched
    asked,   \* was the crawl asked to stop?
    reason   \* why it ended

wvars == <<known, log, asked, reason>>

WInit ==
    /\ known = {} /\ log = [u \in Pages |-> <<>>]
    /\ asked = FALSE /\ reason = "none"

WBegin == known = {} /\ known' = Roots /\ UNCHANGED <<log, asked, reason>>

\* A link on a page that was fetched makes another page known.
Discover(u, v) ==
    /\ log[u] # <<>> /\ log[u][1] < DepthMax
    /\ v \in Range(Out[u]) \ known
    /\ known' = known \cup {v}
    /\ UNCHANGED <<log, asked, reason>>

\* How far from a root the pages fetched so far put page u.
Depths(u) ==
    (IF u \in Roots THEN {0} ELSE {})
        \cup {log[p][1] + 1 : p \in {q \in Pages : log[q] # <<>> /\ u \in Range(Out[q])}}

Visit(u) ==
    /\ u \in known /\ log[u] = <<>>
    /\ \E d \in Depths(u) : d <= DepthMax /\ log' = [log EXCEPT ![u] = <<d>>]
    /\ UNCHANGED <<known, asked, reason>>

WCancel == ~asked /\ asked' = TRUE /\ UNCHANGED <<known, log, reason>>

Done == {u \in Pages : log[u] # <<>>}

WFinish ==
    /\ reason = "none"
    /\ \/ reason' = "stopped" /\ asked
       \/ reason' = "url_limit" /\ Limit > 0 /\ Cardinality(Done) >= Limit
       \/ reason' = "completed" /\ known = Done
    /\ UNCHANGED <<known, log, asked>>

WNext ==
    \/ reason = "none" /\ (WBegin \/ WCancel \/ \E u \in Pages : Visit(u) \/ \E v \in Pages : Discover(u, v))
    \/ WFinish

WSpec == WInit /\ [][WNext]_wvars

=============================================================================
