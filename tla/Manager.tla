------------------------------ MODULE Manager ------------------------------
(***************************************************************************)
(* The session manager (internal/crawler/manager.go), the HTTP requests    *)
(* that drive it (internal/dashboard/server.go), the session table they    *)
(* share, and the process around them (cmd/crawler/main.go).               *)
(*                                                                         *)
(* Every crawl is a goroutine: it runs Crawler.Start (module Crawler,      *)
(* reduced here to what the manager can see of it: it fills the index and  *)
(* its two stores, leaves or clears queue rows and returns with a stop     *)
(* reason), then finishSession, removes its entry from m.crawls and closes *)
(* done.  Requests run concurrently with all of that and with each other.  *)
(*                                                                         *)
(* An atomic step is one critical section of m.mu or one SQL statement.    *)
(* ResumeCrawlByID holds mu across several statements, so it is several    *)
(* steps; StartCrawl also holds it, but its one insert concerns a row that *)
(* nobody else knows yet, so it is one step.                               *)
(***************************************************************************)
EXTENDS Naturals, FiniteSets

CONSTANTS
    MaxSession,     \* bound on session ids
    MaxRun,         \* bound on the number of crawl goroutines ever launched
    MaxRestart,     \* bound on shutdowns and restarts of the process
    PageRuns,       \* the crawls that find a page to index
    TickRuns,       \* the crawls whose session updater gets to tick
    Handlers,       \* HTTP handler goroutines
    Free,           \* the value of mu when nobody holds it
    EarlyResume,    \* may a session be resumed before its old crawl is gone?
    SlowStop,       \* may a crawl outlast the 5 seconds a handler waits?
    DBMayFail       \* may an SQL statement fail? (errors are logged or ignored)

ASSUME ManagerAssumption ==
    /\ MaxSession \in Nat /\ MaxRun \in Nat /\ MaxRestart \in Nat
    /\ PageRuns \subseteq 1..MaxRun /\ TickRuns \subseteq 1..MaxRun
    /\ Free \notin Handlers
    /\ {EarlyResume, SlowStop, DBMayFail} \subseteq BOOLEAN

Sessions == 1..MaxSession
Runs == 1..MaxRun      \* activeCrawl values, numbered in the order of launch
NoRun == 0

VARIABLES
    (* the tables crawl_sessions and queue *)
    status,      \* status[id], "none" when there is no such row
    saved,       \* saved_queue_count, 0 or 1 for "some"
    counters,    \* the run whose metrics the row's counters show
    queue,       \* queue rows of the session, 0 or 1 for "some"
    lastRow,     \* AUTOINCREMENT sequence of crawl_sessions
    (* the Manager *)
    crawls,      \* m.crawls: session id -> activeCrawl
    nextID,      \* m.nextID
    mu,          \* the holder of m.mu between two steps
    down,        \* parentCtx is cancelled
    (* the crawl goroutines *)
    lastRun,     \* how many were launched
    rpc,         \* where run r is
    rsid,        \* its session id
    rcancel,     \* its context is cancelled
    reason,      \* metrics.StopReason
    rseen,       \* the activeCrawl finishSession found
    rstatus,     \* the status finishSession computed
    upd,         \* its session updater is alive
    rdoc,        \* how far its document got: index, postings table, p.data
    (* the requests *)
    hpc,         \* where handler h is
    hid,         \* the session it is about, 0 for all
    hids,        \* the ids it still has to treat
    hrun,        \* the run whose done channel it waits for
    (* shared data, by the run that produced it *)
    idx, postings, pdata,
    (* bound *)
    restarts

dbVars == <<status, saved, counters, queue, lastRow>>
memVars == <<crawls, nextID, mu, down>>
runVars == <<lastRun, rpc, rsid, rcancel, reason, rseen, rstatus, upd, rdoc>>
reqVars == <<hpc, hid, hids, hrun>>
docVars == <<idx, postings, pdata>>
vars == <<dbVars, memVars, runVars, reqVars, docVars, restarts>>

-----------------------------------------------------------------------------
(* Helpers *)

\* A statement that would change old to new, errors being ignored.
Tx(new, old) == IF DBMayFail THEN {new, old} ELSE {new}

\* UPDATE ... WHERE id = i: nothing happens when there is no such row.
UpdateRow(f, i, v) == IF status[i] = "none" THEN f ELSE [f EXCEPT ![i] = v]

UpdateSessionStatus(i, s) == status' \in Tx(UpdateRow(status, i, s), status)

ActiveSessionIDs == {i \in Sessions : crawls[i] # NoRun}

\* cancelFn of the activeCrawls registered under the given ids.
Cancelled(ids) == [r \in Runs |-> rcancel[r] \/ \E i \in ids : crawls[i] = r]

\* Where a run is between its launch and the removal of its map entry.
BeforeWrite == {"crawl", "ending", "look", "snap", "write"}
Live == BeforeWrite \cup {"count", "delete"}

\* A goroutine for session i: its activeCrawl is registered, its updater
\* started; its context is a child of parentCtx.
Launch(i) ==
    /\ lastRun' = lastRun + 1
    /\ crawls' = [crawls EXCEPT ![i] = lastRun']
    /\ rpc' = [rpc EXCEPT ![lastRun'] = "crawl"]
    /\ rsid' = [rsid EXCEPT ![lastRun'] = i]
    /\ rcancel' = [rcancel EXCEPT ![lastRun'] = down]
    /\ upd' = [upd EXCEPT ![lastRun'] = TRUE]
    /\ UNCHANGED <<reason, rseen, rstatus, rdoc>>

-----------------------------------------------------------------------------
Init ==
    /\ status = [i \in Sessions |-> "none"]
    /\ saved = [i \in Sessions |-> 0]
    /\ counters = [i \in Sessions |-> NoRun]
    /\ queue = [i \in Sessions |-> 0]
    /\ lastRow = 0
    /\ crawls = [i \in Sessions |-> NoRun]
    /\ nextID = 0 /\ mu = Free /\ down = FALSE
    /\ lastRun = 0
    /\ rpc = [r \in Runs |-> "unused"]
    /\ rsid = [r \in Runs |-> 0]
    /\ rcancel = [r \in Runs |-> FALSE]
    /\ reason = [r \in Runs |-> "none"]
    /\ rseen = [r \in Runs |-> NoRun]
    /\ rstatus = [r \in Runs |-> "none"]
    /\ upd = [r \in Runs |-> FALSE]
    /\ rdoc = [r \in Runs |-> "none"]
    /\ hpc = [h \in Handlers |-> "idle"]
    /\ hid = [h \in Handlers |-> 0]
    /\ hids = [h \in Handlers |-> {}]
    /\ hrun = [h \in Handlers |-> NoRun]
    /\ idx = {} /\ postings = {} /\ pdata = {}
    /\ restarts = 0

-----------------------------------------------------------------------------
(* Starting a crawl *)

\* StartCrawl with a row in the table: p.data is removed, whoever wrote it.
StartCrawl ==
    /\ mu = Free
    /\ lastRow < MaxSession /\ lastRun < MaxRun
    /\ lastRow' = lastRow + 1
    /\ status' = [status EXCEPT ![lastRow'] = "running"]
    /\ Launch(lastRow')
    /\ pdata' = {}
    /\ UNCHANGED <<saved, counters, queue, nextID, mu, down, reqVars, idx, postings, restarts>>

\* StartCrawl when the insert failed: the id comes from the local counter.
StartCrawlLocal ==
    /\ DBMayFail
    /\ mu = Free
    /\ nextID < MaxSession /\ lastRun < MaxRun
    /\ nextID' = nextID + 1
    /\ Launch(nextID')
    /\ pdata' = {}
    /\ UNCHANGED <<dbVars, mu, down, reqVars, idx, postings, restarts>>

-----------------------------------------------------------------------------
(* The goroutine of a crawl *)

\* The indexer adds a document; it stores its postings in the table, then in
\* the file, at the latest when the results channel is closed.
CrawlIndex(r) ==
    /\ r \in PageRuns
    /\ rpc[r] \in {"crawl", "ending"}
    /\ rdoc[r] = "none"
    /\ idx' = idx \cup {r}
    /\ rdoc' = [rdoc EXCEPT ![r] = "indexed"]
    /\ UNCHANGED <<dbVars, memVars, lastRun, rpc, rsid, rcancel, reason, rseen, rstatus, upd,
                   reqVars, postings, pdata, restarts>>

CrawlSavePostings(r) ==
    /\ rdoc[r] = "indexed"
    /\ rpc[r] \in {"crawl", "ending"}
    /\ postings' \in Tx(postings \cup {r}, postings)
    /\ rdoc' = [rdoc EXCEPT ![r] = "saved"]
    /\ UNCHANGED <<dbVars, memVars, lastRun, rpc, rsid, rcancel, reason, rseen, rstatus, upd,
                   reqVars, idx, pdata, restarts>>

CrawlAppendPData(r) ==
    /\ rdoc[r] = "saved"
    /\ rpc[r] \in {"crawl", "ending"}
    /\ pdata' \in Tx(pdata \cup {r}, pdata)
    /\ rdoc' = [rdoc EXCEPT ![r] = "flushed"]
    /\ UNCHANGED <<dbVars, memVars, lastRun, rpc, rsid, rcancel, reason, rseen, rstatus, upd,
                   reqVars, idx, postings, restarts>>

\* The coordinator returns: after cancellation it saves what it has not
\* crawled, otherwise it clears the queue rows of the session.
CrawlEnd(r) ==
    /\ rpc[r] = "crawl"
    /\ \E n \in IF rcancel[r] THEN {0, 1} ELSE {0} :
         queue' \in Tx([queue EXCEPT ![rsid[r]] = n], queue)
    /\ rpc' = [rpc EXCEPT ![r] = "ending"]
    /\ UNCHANGED <<status, saved, counters, lastRow, memVars, lastRun, rsid, rcancel, reason,
                   rseen, rstatus, upd, rdoc, reqVars, docVars, restarts>>

\* Mutant: Start does not wait for the indexer.
CrawlReturnEarly(r) ==
    /\ rpc[r] = "ending"
    /\ reason' = [reason EXCEPT ![r] = IF rcancel[r] THEN "stopped" ELSE "completed"]
    /\ rpc' = [rpc EXCEPT ![r] = "look"]
    /\ UNCHANGED <<dbVars, memVars, lastRun, rsid, rcancel, rseen, rstatus, upd, rdoc,
                   reqVars, docVars, restarts>>

\* Start returns once the indexer is done; it looks at the context again.
CrawlReturn(r) ==
    /\ rpc[r] = "ending"
    /\ rdoc[r] \in {"none", "flushed"}
    /\ reason' = [reason EXCEPT ![r] = IF rcancel[r] THEN "stopped" ELSE "completed"]
    /\ rpc' = [rpc EXCEPT ![r] = "look"]
    /\ UNCHANGED <<dbVars, memVars, lastRun, rsid, rcancel, rseen, rstatus, upd, rdoc,
                   reqVars, docVars, restarts>>

\* Mutant: finishSession does not test whether it found anything.
FinishLookBlind(r) ==
    /\ rpc[r] = "look"
    /\ mu = Free
    /\ rseen' = [rseen EXCEPT ![r] = crawls[rsid[r]]]
    /\ rpc' = [rpc EXCEPT ![r] = "snap"]
    /\ UNCHANGED <<dbVars, memVars, lastRun, rsid, rcancel, reason, rstatus, upd, rdoc,
                   reqVars, docVars, restarts>>

\* Mutant: finishSession takes its entry out of the map at once.
FinishLookTake(r) ==
    /\ rpc[r] = "look"
    /\ mu = Free
    /\ crawls' = [crawls EXCEPT ![rsid[r]] = NoRun]
    /\ rseen' = [rseen EXCEPT ![r] = crawls[rsid[r]]]
    /\ rpc' = [rpc EXCEPT ![r] = IF crawls[rsid[r]] = NoRun THEN "delete" ELSE "snap"]
    /\ UNCHANGED <<dbVars, nextID, mu, down, lastRun, rsid, rcancel, reason, rstatus, upd, rdoc,
                   reqVars, docVars, restarts>>

\* finishSession looks its session up in m.crawls, under the lock.
FinishLook(r) ==
    /\ rpc[r] = "look"
    /\ mu = Free
    /\ rseen' = [rseen EXCEPT ![r] = crawls[rsid[r]]]
    /\ rpc' = [rpc EXCEPT ![r] = IF crawls[rsid[r]] = NoRun THEN "delete" ELSE "snap"]
    /\ UNCHANGED <<dbVars, memVars, lastRun, rsid, rcancel, reason, rstatus, upd, rdoc,
                   reqVars, docVars, restarts>>

\* The status follows from the stop reason in the metrics of what it found.
FinishSnap(r) ==
    /\ rpc[r] = "snap"
    /\ rstatus' = [rstatus EXCEPT ![r] = IF reason[rseen[r]] = "stopped" THEN "stopped"
                                                                        ELSE "completed"]
    /\ rpc' = [rpc EXCEPT ![r] = "write"]
    /\ UNCHANGED <<dbVars, memVars, lastRun, rsid, rcancel, reason, rseen, upd, rdoc,
                   reqVars, docVars, restarts>>

\* Mutant: the session is only marked when it was stopped.
FinishWriteIfStopped(r) ==
    /\ rpc[r] = "write"
    /\ IF rstatus[r] = "stopped" THEN UpdateSessionStatus(rsid[r], rstatus[r]) ELSE UNCHANGED status
    /\ counters' \in Tx(UpdateRow(counters, rsid[r], rseen[r]), counters)
    /\ rpc' = [rpc EXCEPT ![r] = IF rstatus[r] = "stopped" THEN "count" ELSE "delete"]
    /\ UNCHANGED <<saved, queue, lastRow, memVars, lastRun, rsid, rcancel, reason, rseen, rstatus,
                   upd, rdoc, reqVars, docVars, restarts>>

\* FinishCrawlSession writes status and counters.
FinishWrite(r) ==
    /\ rpc[r] = "write"
    /\ \/ /\ status' = UpdateRow(status, rsid[r], rstatus[r])
          /\ counters' = UpdateRow(counters, rsid[r], rseen[r])
       \/ DBMayFail /\ UNCHANGED <<status, counters>>
    /\ rpc' = [rpc EXCEPT ![r] = IF rstatus[r] = "stopped" THEN "count" ELSE "delete"]
    /\ UNCHANGED <<saved, queue, lastRow, memVars, lastRun, rsid, rcancel, reason, rseen, rstatus,
                   upd, rdoc, reqVars, docVars, restarts>>

\* Mutant: the number of saved tasks is not recorded.
FinishCountNot(r) ==
    /\ rpc[r] = "count"
    /\ rpc' = [rpc EXCEPT ![r] = "delete"]
    /\ UNCHANGED <<dbVars, memVars, lastRun, rsid, rcancel, reason, rseen,
                   rstatus, upd, rdoc, reqVars, docVars, restarts>>

\* Of a stopped session the number of queue rows is recorded, if there are any.
FinishCount(r) ==
    /\ rpc[r] = "count"
    /\ saved' \in Tx(IF queue[rsid[r]] > 0 THEN UpdateRow(saved, rsid[r], queue[rsid[r]]) ELSE saved, saved)
    /\ rpc' = [rpc EXCEPT ![r] = "delete"]
    /\ UNCHANGED <<status, counters, queue, lastRow, memVars, lastRun, rsid, rcancel, reason, rseen,
                   rstatus, upd, rdoc, reqVars, docVars, restarts>>

\* Mutant: the entry stays in the map.
RunDeleteNot(r) ==
    /\ rpc[r] = "delete"
    /\ mu = Free
    /\ rpc' = [rpc EXCEPT ![r] = "close"]
    /\ rseen' = [rseen EXCEPT ![r] = NoRun]
    /\ rstatus' = [rstatus EXCEPT ![r] = "none"]
    /\ UNCHANGED <<dbVars, memVars, lastRun, rsid, rcancel, reason,
                   upd, rdoc, reqVars, docVars, restarts>>

\* delete(m.crawls, sessionID): whatever is registered under the id.
RunDelete(r) ==
    /\ rpc[r] = "delete"
    /\ mu = Free
    /\ crawls' = [crawls EXCEPT ![rsid[r]] = NoRun]
    /\ rpc' = [rpc EXCEPT ![r] = "close"]
    /\ rseen' = [rseen EXCEPT ![r] = NoRun]
    /\ rstatus' = [rstatus EXCEPT ![r] = "none"]
    /\ UNCHANGED <<dbVars, nextID, mu, down, lastRun, rsid, rcancel, reason,
                   upd, rdoc, reqVars, docVars, restarts>>

RunClose(r) ==
    /\ rpc[r] = "close"
    /\ rpc' = [rpc EXCEPT ![r] = "closed"]
    /\ UNCHANGED <<dbVars, memVars, lastRun, rsid, rcancel, reason, rseen, rstatus, upd, rdoc,
                   reqVars, docVars, restarts>>

\* The session updater writes the counters until the context is cancelled.
UpdaterTick(r) ==
    /\ r \in TickRuns /\ upd[r]
    /\ counters' \in Tx(UpdateRow(counters, rsid[r], r), counters)
    /\ UNCHANGED <<status, saved, queue, lastRow, memVars, runVars, reqVars, docVars, restarts>>

UpdaterExit(r) ==
    /\ upd[r] /\ rcancel[r]
    /\ upd' = [upd EXCEPT ![r] = FALSE]
    /\ UNCHANGED <<dbVars, memVars, lastRun, rpc, rsid, rcancel, reason, rseen, rstatus, rdoc,
                   reqVars, docVars, restarts>>

-----------------------------------------------------------------------------
(* Stopping *)

\* POST /api/crawls/{id}/stop: StopCrawlByID and nothing else.
StopCrawlByID(i) ==
    /\ mu = Free
    /\ crawls[i] # NoRun
    /\ rcancel' = Cancelled({i})
    /\ UNCHANGED <<dbVars, memVars, lastRun, rpc, rsid, reason, rseen, rstatus, upd, rdoc,
                   reqVars, docVars, restarts>>

\* POST /api/stop: StopCrawl, if any crawl is registered.
StopCrawl ==
    /\ mu = Free
    /\ ActiveSessionIDs # {}
    /\ rcancel' = Cancelled(ActiveSessionIDs)
    /\ UNCHANGED <<dbVars, memVars, lastRun, rpc, rsid, reason, rseen, rstatus, upd, rdoc,
                   reqVars, docVars, restarts>>

\* The form action stop_crawl for a session the status page may have shown:
\* cancel it, wait for its done channel, set its status to stopped.
FormStopCrawl(h, i) ==
    /\ hpc[h] = "idle" /\ mu = Free
    /\ i <= lastRow \/ i <= nextID
    /\ rcancel' = Cancelled({i})
    /\ hpc' = [hpc EXCEPT ![h] = "done"]
    /\ hid' = [hid EXCEPT ![h] = i]
    /\ hids' = [hids EXCEPT ![h] = {i}]
    /\ UNCHANGED <<dbVars, memVars, lastRun, rpc, rsid, reason, rseen, rstatus, upd, rdoc,
                   hrun, docVars, restarts>>

\* The form action stop: cancel all, wait for all, mark who is still there.
FormStop(h) ==
    /\ hpc[h] = "idle" /\ mu = Free
    /\ rcancel' = Cancelled(ActiveSessionIDs)
    /\ hpc' = [hpc EXCEPT ![h] = "list"]
    /\ hid' = [hid EXCEPT ![h] = 0]
    /\ UNCHANGED <<dbVars, memVars, lastRun, rpc, rsid, reason, rseen, rstatus, upd, rdoc,
                   hids, hrun, docVars, restarts>>

\* ActiveSessionIDs, before the waits and again after them.
FormList(h) ==
    /\ hpc[h] \in {"list", "relist"} /\ mu = Free
    /\ hids' = [hids EXCEPT ![h] = ActiveSessionIDs]
    /\ hpc' = [hpc EXCEPT ![h] = CASE hpc[h] = "relist"       -> "mark"
                                   [] ActiveSessionIDs = {}   -> "relist"
                                   [] OTHER                   -> "done"]
    /\ UNCHANGED <<dbVars, memVars, runVars, hid, hrun, docVars, restarts>>

\* DoneByID: no channel when the session is not registered.
FormDone(h) ==
    /\ hpc[h] = "done" /\ mu = Free
    /\ \E i \in hids[h] :
         /\ hrun' = [hrun EXCEPT ![h] = crawls[i]]
         /\ hids' = [hids EXCEPT ![h] = @ \ {i}]
    /\ hpc' = [hpc EXCEPT ![h] = "wait"]
    /\ UNCHANGED <<dbVars, memVars, runVars, hid, docVars, restarts>>

\* Mutant: the wait has no timeout.
FormWaitForever(h) ==
    /\ hpc[h] = "wait"
    /\ hrun[h] # NoRun => rpc[hrun[h]] = "closed"
    /\ hrun' = [hrun EXCEPT ![h] = NoRun]
    /\ hids' = [hids EXCEPT ![h] = IF hid[h] = 0 THEN @ ELSE {hid[h]}]
    /\ hpc' = [hpc EXCEPT ![h] = CASE hid[h] # 0      -> "mark"
                                   [] hids[h] = {}    -> "relist"
                                   [] OTHER           -> "done"]
    /\ UNCHANGED <<dbVars, memVars, runVars, hid, docVars, restarts>>

\* select { case <-done: case <-time.After(5s): }
FormWait(h) ==
    /\ hpc[h] = "wait"
    /\ hrun[h] # NoRun => rpc[hrun[h]] = "closed" \/ SlowStop
    /\ hrun' = [hrun EXCEPT ![h] = NoRun]
    /\ hids' = [hids EXCEPT ![h] = IF hid[h] = 0 THEN @ ELSE {hid[h]}]
    /\ hpc' = [hpc EXCEPT ![h] = CASE hid[h] # 0      -> "mark"
                                   [] hids[h] = {}    -> "relist"
                                   [] OTHER           -> "done"]
    /\ UNCHANGED <<dbVars, memVars, runVars, hid, docVars, restarts>>

\* UpdateSessionStatus(id, "stopped"), whatever the status is by now.
FormMark(h) ==
    /\ hpc[h] = "mark"
    /\ \E i \in hids[h] :
         /\ UpdateSessionStatus(i, "stopped")
         /\ hids' = [hids EXCEPT ![h] = @ \ {i}]
    /\ UNCHANGED <<saved, counters, queue, lastRow, memVars, runVars, hpc, hid, hrun, docVars, restarts>>

FormReturn(h) ==
    /\ hpc[h] = "mark"
    /\ hids[h] = {}
    /\ hpc' = [hpc EXCEPT ![h] = "idle"]
    /\ hid' = [hid EXCEPT ![h] = 0]
    /\ UNCHANGED <<dbVars, memVars, runVars, hids, hrun, docVars, restarts>>

-----------------------------------------------------------------------------
(* Resuming: ResumeCrawlByID, from the form or from the API *)

\* Take the lock, check the status, forget an old crawl of the session.
Resume(h, i) ==
    /\ hpc[h] = "idle" /\ mu = Free
    /\ lastRun < MaxRun
    /\ status[i] = "stopped"
    /\ EarlyResume \/ crawls[i] = NoRun
    /\ crawls' = [crawls EXCEPT ![i] = NoRun]
    /\ mu' = h
    /\ hid' = [hid EXCEPT ![h] = i]
    /\ hpc' = [hpc EXCEPT ![h] = "load"]
    /\ UNCHANGED <<dbVars, nextID, down, runVars, hids, hrun, docVars, restarts>>

\* Mutant: the error path does not unlock.
ResumeLoadLocked(h) ==
    /\ hpc[h] = "load"
    /\ \/ hpc' = [hpc EXCEPT ![h] = "running"] /\ UNCHANGED hid
       \/ DBMayFail /\ hpc' = [hpc EXCEPT ![h] = "idle"] /\ hid' = [hid EXCEPT ![h] = 0]
    /\ UNCHANGED <<dbVars, memVars, runVars, hids, hrun, docVars, restarts>>

\* Load visited URLs and queue; an error ends the request.
ResumeLoad(h) ==
    /\ hpc[h] = "load"
    /\ \/ /\ hpc' = [hpc EXCEPT ![h] = "running"]
          /\ UNCHANGED <<mu, hid>>
       \/ /\ DBMayFail
          /\ hpc' = [hpc EXCEPT ![h] = "idle"]
          /\ mu' = Free
          /\ hid' = [hid EXCEPT ![h] = 0]
    /\ UNCHANGED <<dbVars, crawls, nextID, down, runVars, hids, hrun, docVars, restarts>>

\* Mark the session as running again.
ResumeMark(h) ==
    /\ hpc[h] = "running"
    /\ UpdateSessionStatus(hid[h], "running")
    /\ hpc' = [hpc EXCEPT ![h] = "launch"]
    /\ UNCHANGED <<saved, counters, queue, lastRow, memVars, runVars, hid, hids, hrun, docVars, restarts>>

\* Mutant: the lock is not released.
ResumeLaunchLocked(h) ==
    /\ hpc[h] = "launch"
    /\ saved' \in Tx(UpdateRow(saved, hid[h], 0), saved)
    /\ Launch(hid[h])
    /\ hpc' = [hpc EXCEPT ![h] = "idle"]
    /\ hid' = [hid EXCEPT ![h] = 0]
    /\ UNCHANGED <<status, counters, queue, lastRow, nextID, mu, down, hids, hrun, docVars, restarts>>

\* Reset the saved count, launch the goroutine, release the lock.
ResumeLaunch(h) ==
    /\ hpc[h] = "launch"
    /\ saved' \in Tx(UpdateRow(saved, hid[h], 0), saved)
    /\ Launch(hid[h])
    /\ mu' = Free
    /\ hpc' = [hpc EXCEPT ![h] = "idle"]
    /\ hid' = [hid EXCEPT ![h] = 0]
    /\ UNCHANGED <<status, counters, queue, lastRow, nextID, down, hids, hrun, docVars, restarts>>

-----------------------------------------------------------------------------
(* Clearing: DeleteCompletedCrawlSessions, statement by statement *)

Finished == {i \in Sessions : status[i] \notin {"none", "running"}}

ClearResumeData(h) ==
    /\ hpc[h] = "idle"
    /\ queue' \in Tx([i \in Sessions |-> IF i \in Finished THEN 0 ELSE queue[i]], queue)
    /\ hpc' = [hpc EXCEPT ![h] = "clear"]
    /\ UNCHANGED <<status, saved, counters, lastRow, memVars, runVars, hid, hids, hrun, docVars, restarts>>

ClearSessions(h) ==
    /\ hpc[h] = "clear"
    /\ \/ /\ status' = [i \in Sessions |-> IF i \in Finished THEN "none" ELSE status[i]]
          /\ saved' = [i \in Sessions |-> IF i \in Finished THEN 0 ELSE saved[i]]
          /\ counters' = [i \in Sessions |-> IF i \in Finished THEN NoRun ELSE counters[i]]
       \/ DBMayFail /\ UNCHANGED <<status, saved, counters>>
    /\ hpc' = [hpc EXCEPT ![h] = "idle"]
    /\ UNCHANGED <<queue, lastRow, memVars, runVars, hid, hids, hrun, docVars, restarts>>

-----------------------------------------------------------------------------
(* The process *)

\* The first signal cancels parentCtx and with it every context derived of it.
Shutdown ==
    /\ ~down /\ restarts < MaxRestart
    /\ down' = TRUE
    /\ rcancel' = [r \in Runs |-> rcancel[r] \/ r <= lastRun]
    /\ UNCHANGED <<dbVars, crawls, nextID, mu, lastRun, rpc, rsid, reason, rseen, rstatus, upd,
                   rdoc, reqVars, docVars, restarts>>

\* RestoreIndex: p.data if it has postings, else the postings table.
RestoreIndex == IF pdata # {} THEN pdata ELSE postings

\* The process ends (the second signal, or a crash) and a new one starts.
Restart ==
    /\ restarts < MaxRestart
    /\ restarts' = restarts + 1
    /\ crawls' = [i \in Sessions |-> NoRun]
    /\ nextID' = 0 /\ mu' = Free /\ down' = FALSE
    /\ rpc' = [r \in Runs |-> IF r <= lastRun THEN "closed" ELSE "unused"]
    /\ upd' = [r \in Runs |-> FALSE]
    /\ hpc' = [h \in Handlers |-> "idle"]
    /\ hid' = [h \in Handlers |-> 0]
    /\ hids' = [h \in Handlers |-> {}]
    /\ hrun' = [h \in Handlers |-> NoRun]
    /\ idx' = RestoreIndex
    /\ UNCHANGED <<dbVars, lastRun, rsid, rcancel, reason, rseen, rstatus, rdoc, postings, pdata>>

-----------------------------------------------------------------------------
(* Specification *)

CrawlStep(r) ==
    \/ CrawlIndex(r) \/ CrawlSavePostings(r) \/ CrawlAppendPData(r)
    \/ CrawlEnd(r) \/ CrawlReturn(r)

FinishStep(r) ==
    \/ FinishLook(r) \/ FinishSnap(r) \/ FinishWrite(r) \/ FinishCount(r)
    \/ RunDelete(r) \/ RunClose(r)

UpdaterStep(r) == UpdaterTick(r) \/ UpdaterExit(r)

\* A request: what a client asks for, then what the handler still has to do.
Request(h) ==
    \/ \E i \in Sessions : FormStopCrawl(h, i) \/ Resume(h, i)
    \/ FormStop(h)
    \/ ClearResumeData(h)

HandlerStep(h) ==
    \/ FormList(h) \/ FormDone(h) \/ FormWait(h) \/ FormMark(h) \/ FormReturn(h)
    \/ ResumeLoad(h) \/ ResumeMark(h) \/ ResumeLaunch(h)
    \/ ClearSessions(h)

Next ==
    \/ StartCrawl \/ StartCrawlLocal
    \/ \E i \in Sessions : StopCrawlByID(i)
    \/ StopCrawl
    \/ Shutdown \/ Restart
    \/ \E r \in Runs : CrawlStep(r) \/ FinishStep(r) \/ UpdaterStep(r)
    \/ \E h \in Handlers : Request(h) \/ HandlerStep(h)

Spec == Init /\ [][Next]_vars

\* Goroutines are scheduled; a mutex is not starved for ever (sync.Mutex hands
\* over to a waiter after 1ms).  Nobody has to send a request, and a crawl that
\* nobody stops need not end.
Fairness ==
    /\ \A r \in Runs : WF_vars(rcancel[r] /\ CrawlStep(r)) /\ SF_vars(FinishStep(r))
    /\ \A h \in Handlers : SF_vars(HandlerStep(h))

FairSpec == Spec /\ Fairness

-----------------------------------------------------------------------------
(* Properties *)

Statuses == {"none", "running", "stopped", "completed"}
RunPCs == {"unused", "close", "closed"} \cup Live
HandlerPCs == {"idle", "list", "done", "wait", "relist", "mark", "load", "running", "launch", "clear"}

DbTypeOK ==
    /\ status \in [Sessions -> Statuses]
    /\ saved \in [Sessions -> {0, 1}]
    /\ counters \in [Sessions -> Runs \cup {NoRun}]
    /\ queue \in [Sessions -> {0, 1}]
    /\ lastRow \in 0..MaxSession

MemTypeOK ==
    /\ crawls \in [Sessions -> Runs \cup {NoRun}]
    /\ nextID \in 0..MaxSession
    /\ mu \in Handlers \cup {Free}
    /\ down \in BOOLEAN

RunTypeOK ==
    /\ lastRun \in 0..MaxRun
    /\ rpc \in [Runs -> RunPCs]
    /\ rsid \in [Runs -> Sessions \cup {0}]
    /\ rcancel \in [Runs -> BOOLEAN]
    /\ reason \in [Runs -> {"none", "stopped", "completed"}]
    /\ rseen \in [Runs -> Runs \cup {NoRun}]
    /\ rstatus \in [Runs -> {"none", "stopped", "completed"}]
    /\ upd \in [Runs -> BOOLEAN]
    /\ rdoc \in [Runs -> {"none", "indexed", "saved", "flushed"}]

ReqTypeOK ==
    /\ hpc \in [Handlers -> HandlerPCs]
    /\ hid \in [Handlers -> Sessions \cup {0}]
    /\ hids \in [Handlers -> SUBSET Sessions]
    /\ hrun \in [Handlers -> Runs \cup {NoRun}]

DocTypeOK ==
    /\ idx \subseteq Runs /\ postings \subseteq Runs /\ pdata \subseteq Runs
    /\ restarts \in 0..MaxRestart

\* The variables have their types; in particular finishSession never
\* dereferences an activeCrawl it did not find.
TypeOK ==
    /\ DbTypeOK /\ MemTypeOK /\ RunTypeOK /\ ReqTypeOK /\ DocTypeOK
    /\ \A r \in Runs : rpc[r] = "snap" => rseen[r] # NoRun

\* IsRunning and RunningCount never count a crawl that is gone: what is
\* registered in m.crawls is a goroutine that has yet to remove its entry,
\* under the id it will remove.  Holds however requests, timeouts, failing
\* statements and restarts interleave.
MapIsLive ==
    \A i \in Sessions : crawls[i] # NoRun =>
        /\ rsid[crawls[i]] = i
        /\ rpc[crawls[i]] \in Live

\* The lock is held between steps exactly by the one request that is inside
\* ResumeCrawlByID, on every path out of it.
LockDiscipline ==
    \A h \in Handlers : mu = h <=> hpc[h] \in {"load", "running", "launch"}

\* A crawl that runs can be found: it is registered under its session, so
\* IsRunning sees it, StopCrawl and StopCrawlByID reach it, and finishSession
\* finds its own metrics.
LiveIsRegistered ==
    \A r \in Runs : rpc[r] \in Live => crawls[rsid[r]] = r

\* A session whose row says running has a crawl that will write its end, or a
\* resume under way that will launch one: it is no zombie.
RunningIsLive ==
    \A i \in Sessions : status[i] = "running" =>
        \/ \E r \in Runs : rsid[r] = i /\ rpc[r] \in BeforeWrite
        \/ \E h \in Handlers : hid[h] = i /\ hpc[h] = "launch"

\* The saved_queue_count a stopped session shows is what a resume will load,
\* unless a clear is deleting the session meanwhile.
SavedCountTruthful ==
    (\A h \in Handlers : hpc[h] # "clear") =>
        \A h \in Handlers : hpc[h] = "load" /\ status[hid[h]] = "stopped" =>
            queue[hid[h]] = saved[hid[h]]

\* When Start has returned, what the crawl put into the index is in the postings
\* table, so that a search hit can be restored; done is not closed before.
StoredWhenReturned ==
    \A r \in idx : rpc[r] \notin {"crawl", "ending"} => r \in postings

\* A restart brings every document back that the index held and that was stored.
RestoreComplete ==
    [][restarts' # restarts => {r \in idx : rdoc[r] = "flushed"} \subseteq idx']_vars

\* A cancelled crawl comes to its end: its done channel is closed.
StopWorks == \A r \in Runs : rcancel[r] ~> rpc[r] = "closed"

\* A request is answered.
RequestsReturn == \A h \in Handlers : hpc[h] # "idle" ~> hpc[h] = "idle"

=============================================================================
