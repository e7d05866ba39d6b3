--------------------------- MODULE ManagerProofs ---------------------------
(***************************************************************************)
(* What holds of the session manager for any number of sessions, crawls,   *)
(* handlers and restarts: first who runs and who is registered, then what  *)
(* the session table and the stores of the documents say.                  *)
(***************************************************************************)
EXTENDS Manager, TLAPS

\* Crawls are launched in order, each for a session.
Launched ==
    \A r \in Runs : /\ r > lastRun <=> rpc[r] = "unused"
                    /\ rpc[r] # "unused" => rsid[r] \in Sessions

\* Inside ResumeCrawlByID the session is known, not registered, and there is a
\* crawl left to launch for it.
ResumeReady ==
    \A h \in Handlers : hpc[h] \in {"load", "running", "launch"} =>
        hid[h] \in Sessions /\ lastRun < MaxRun /\ crawls[hid[h]] = NoRun

\* The inductive invariant of the manager.
ManagerInv == TypeOK /\ MapIsLive /\ LockDiscipline /\ Launched /\ ResumeReady

USE DEF Sessions, Runs, NoRun

\* The invariant holds when the server starts.
LEMMA InvInit == Init => ManagerInv
<1> SUFFICES ASSUME Init PROVE ManagerInv
  OBVIOUS
<1>1. DbTypeOK
  BY ManagerAssumption DEF Init, DbTypeOK, Statuses
<1>2. down \in BOOLEAN
  BY DEF Init
<1>3. MemTypeOK
  BY <1>2, ManagerAssumption DEF Init, MemTypeOK
<1>4. DocTypeOK
  BY ManagerAssumption DEF Init, DocTypeOK
<1>5. RunTypeOK /\ ReqTypeOK
  BY ManagerAssumption DEF Init, RunTypeOK, ReqTypeOK, RunPCs, HandlerPCs
<1>6. \A r \in Runs : rpc[r] = "unused"
  BY DEF Init
<1>7. LockDiscipline
  BY ManagerAssumption DEF Init, LockDiscipline
<1>8. MapIsLive /\ Launched /\ ResumeReady
  BY DEF Init, MapIsLive, Launched, ResumeReady
<1> QED BY <1>1, <1>3, <1>4, <1>5, <1>6, <1>7, <1>8 DEF ManagerInv, TypeOK

\* An UPDATE of one row keeps the type of the column.
LEMMA UpdateRowType ==
    ASSUME NEW S, NEW f \in [Sessions -> S], NEW i, NEW v \in S
    PROVE  UpdateRow(f, i, v) \in [Sessions -> S]
BY DEF UpdateRow

\* A statement that may fail yields one of the two tables.
LEMMA TxType ==
    ASSUME NEW S, NEW new \in S, NEW old \in S, NEW x \in Tx(new, old)
    PROVE  x \in S
BY DEF Tx

\* Launching a crawl for session i keeps the types of the goroutines.
LEMMA LaunchType ==
    ASSUME ManagerInv, NEW i \in Sessions, lastRun < MaxRun, Launch(i)
    PROVE  /\ RunTypeOK'
           /\ crawls' \in [Sessions -> Runs \cup {NoRun}]
           /\ \A r \in Runs : rpc'[r] = "snap" => rseen'[r] # NoRun
<1>1. lastRun' \in Runs
  BY ManagerAssumption DEF ManagerInv, TypeOK, RunTypeOK, Launch
<1>2. TypeOK
  BY DEF ManagerInv
<1>3. RunTypeOK'
  BY <1>1, <1>2, ManagerAssumption DEF TypeOK, RunTypeOK, MemTypeOK, Launch, RunPCs, Live, BeforeWrite
<1>4. crawls' \in [Sessions -> Runs \cup {NoRun}]
  BY <1>1, <1>2 DEF TypeOK, MemTypeOK, Launch
<1>5. \A r \in Runs : rpc'[r] = "snap" => rseen'[r] # NoRun
  BY <1>1, <1>2 DEF TypeOK, RunTypeOK, Launch
<1> QED BY <1>3, <1>4, <1>5

\* ... and what is registered stays live, in particular the new crawl.
LEMMA LaunchMap ==
    ASSUME ManagerInv, NEW i \in Sessions, lastRun < MaxRun, Launch(i)
    PROVE  MapIsLive' /\ Launched'
<1>1. lastRun' \in Runs /\ lastRun' = lastRun + 1 /\ lastRun \in Nat
  BY ManagerAssumption DEF ManagerInv, TypeOK, RunTypeOK, Launch
<1>2. rpc[lastRun'] = "unused"
  BY <1>1 DEF ManagerInv, Launched
<1>3. MapIsLive'
  BY <1>1, <1>2 DEF ManagerInv, MapIsLive, TypeOK, MemTypeOK, RunTypeOK, Launch, Live, BeforeWrite
<1>4. Launched'
  BY <1>1 DEF ManagerInv, Launched, TypeOK, MemTypeOK, RunTypeOK, Launch
<1> QED BY <1>3, <1>4

\* The steps of a crawl keep the types, ...
LEMMA TypeCrawl ==
    ASSUME ManagerInv, NEW r \in Runs, CrawlStep(r)
    PROVE  TypeOK'
<1> USE ManagerAssumption DEF ManagerInv, TypeOK, DbTypeOK, MemTypeOK, RunTypeOK, ReqTypeOK, DocTypeOK, Statuses, RunPCs,
       HandlerPCs, Live, BeforeWrite, Launched,
       dbVars, memVars, runVars, reqVars, docVars
<1>1. CASE CrawlIndex(r)
  BY <1>1 DEF CrawlIndex
<1>2. CASE CrawlSavePostings(r)
  BY <1>2 DEF CrawlSavePostings, Tx
<1>3. CASE CrawlAppendPData(r)
  BY <1>3 DEF CrawlAppendPData, Tx
<1>4. CASE CrawlEnd(r)
  BY <1>4 DEF CrawlEnd, Tx
<1>5. CASE CrawlReturn(r)
  BY <1>5 DEF CrawlReturn
<1> QED BY <1>1, <1>2, <1>3, <1>4, <1>5 DEF CrawlStep

\* ... so does what its goroutine does afterwards, ...
LEMMA TypeFinish ==
    ASSUME ManagerInv, NEW r \in Runs, FinishStep(r)
    PROVE  TypeOK'
<1> USE ManagerAssumption DEF ManagerInv, TypeOK, DbTypeOK, MemTypeOK, RunTypeOK, ReqTypeOK, DocTypeOK, Statuses, RunPCs,
       HandlerPCs, Live, BeforeWrite, Launched,
       dbVars, memVars, runVars, reqVars, docVars
<1>1. CASE FinishLook(r)
  BY <1>1 DEF FinishLook
<1>2. CASE FinishSnap(r)
  BY <1>2 DEF FinishSnap
<1>3. CASE FinishWrite(r)
  <2>1. status' = UpdateRow(status, rsid[r], rstatus[r]) \/ status' = status
    BY <1>3 DEF FinishWrite
  <2>2. counters' = UpdateRow(counters, rsid[r], rseen[r]) \/ counters' = counters
    BY <1>3 DEF FinishWrite
  <2>3. rsid[r] \in Sessions
    BY <1>3 DEF FinishWrite
  <2>4. rstatus[r] \in Statuses
    OBVIOUS
  <2>5. rseen[r] \in Runs \cup {NoRun}
    OBVIOUS
  <2>6. status' \in [Sessions -> Statuses]
    BY <2>1, <2>3, <2>4 DEF UpdateRow
  <2>7. counters' \in [Sessions -> Runs \cup {NoRun}]
    BY <2>2, <2>3, <2>5 DEF UpdateRow
  <2> QED BY <1>3, <2>6, <2>7 DEF FinishWrite
<1>4. CASE FinishCount(r)
  BY <1>4 DEF FinishCount, Tx, UpdateRow
<1>5. CASE RunDelete(r)
  BY <1>5 DEF RunDelete
<1>6. CASE RunClose(r)
  BY <1>6 DEF RunClose
<1> QED BY <1>1, <1>2, <1>3, <1>4, <1>5, <1>6 DEF FinishStep

\* ... its session updater, ...
LEMMA TypeUpdater ==
    ASSUME ManagerInv, NEW r \in Runs, UpdaterStep(r)
    PROVE  TypeOK'
<1> USE ManagerAssumption DEF ManagerInv, TypeOK, DbTypeOK, MemTypeOK, RunTypeOK, ReqTypeOK, DocTypeOK, Statuses, RunPCs,
       HandlerPCs, Live, BeforeWrite,
       dbVars, memVars, runVars, reqVars, docVars
<1>1. CASE UpdaterTick(r)
  BY <1>1 DEF UpdaterTick, Tx, UpdateRow
<1>2. CASE UpdaterExit(r)
  BY <1>2 DEF UpdaterExit
<1> QED BY <1>1, <1>2 DEF UpdaterStep

\* ... the handlers, ...
LEMMA TypeHandler ==
    ASSUME ManagerInv, NEW h \in Handlers, HandlerStep(h)
    PROVE  TypeOK'
<1> USE ManagerAssumption DEF ManagerInv, TypeOK, DbTypeOK, MemTypeOK, RunTypeOK, ReqTypeOK, DocTypeOK, Statuses, RunPCs,
       HandlerPCs, Live, BeforeWrite,
       dbVars, memVars, runVars, reqVars, docVars
<1>1. CASE FormList(h)
  BY <1>1 DEF FormList, ActiveSessionIDs
<1>2. CASE FormDone(h)
  BY <1>2 DEF FormDone
<1>3. CASE FormWait(h)
  BY <1>3 DEF FormWait
<1>4. CASE FormMark(h)
  BY <1>4 DEF FormMark, UpdateSessionStatus, Tx, UpdateRow
<1>5. CASE FormReturn(h)
  BY <1>5 DEF FormReturn
<1>6. CASE ResumeLoad(h)
  BY <1>6 DEF ResumeLoad
<1>7. CASE ResumeMark(h)
  BY <1>7 DEF ResumeMark, UpdateSessionStatus, Tx, UpdateRow
<1>8. CASE ResumeLaunch(h)
  <2>1. hid[h] \in Sessions /\ lastRun < MaxRun
    BY <1>8 DEF ResumeLaunch, ResumeReady
  <2>2. saved' \in [Sessions -> {0, 1}]
    BY <1>8, UpdateRowType, TxType DEF ResumeLaunch
  <2>3. Launch(hid[h])
    BY <1>8 DEF ResumeLaunch
  <2>4. /\ RunTypeOK' /\ crawls' \in [Sessions -> Runs \cup {NoRun}]
        /\ \A q \in Runs : rpc'[q] = "snap" => rseen'[q] # NoRun
    BY <2>1, <2>3, LaunchType
  <2>5. DbTypeOK' /\ MemTypeOK'
    BY <1>8, <2>2, <2>4 DEF ResumeLaunch
  <2>6. ReqTypeOK' /\ DocTypeOK'
    BY <1>8 DEF ResumeLaunch
  <2> QED BY <2>4, <2>5, <2>6
<1>9. CASE ClearSessions(h)
  BY <1>9 DEF ClearSessions, Finished
<1> QED BY <1>1, <1>2, <1>3, <1>4, <1>5, <1>6, <1>7, <1>8, <1>9 DEF HandlerStep

\* ... the requests they accept, ...
LEMMA TypeRequest ==
    ASSUME ManagerInv, NEW h \in Handlers, Request(h)
    PROVE  TypeOK'
<1> USE ManagerAssumption DEF ManagerInv, TypeOK, DbTypeOK, MemTypeOK, RunTypeOK, ReqTypeOK, DocTypeOK, Statuses, RunPCs,
       HandlerPCs, Live, BeforeWrite,
       dbVars, memVars, runVars, reqVars, docVars
<1>1. ASSUME NEW i \in Sessions, FormStopCrawl(h, i) PROVE TypeOK'
  BY <1>1 DEF FormStopCrawl, Cancelled
<1>2. ASSUME NEW i \in Sessions, Resume(h, i) PROVE TypeOK'
  BY <1>2 DEF Resume
<1>3. CASE FormStop(h)
  BY <1>3 DEF FormStop, Cancelled
<1>4. CASE ClearResumeData(h)
  BY <1>4 DEF ClearResumeData, Finished, Tx
<1> QED BY <1>1, <1>2, <1>3, <1>4 DEF Request

\* The remaining steps: a crawl is started, or stopped without waiting, or the
\* process ends.
Other ==
    \/ StartCrawl \/ StartCrawlLocal
    \/ \E i \in Sessions : StopCrawlByID(i)
    \/ StopCrawl
    \/ Shutdown \/ Restart

\* ... and the steps that are nobody's.
LEMMA TypeOther ==
    ASSUME ManagerInv, Other
    PROVE  TypeOK'
<1> USE ManagerAssumption DEF ManagerInv, TypeOK, DbTypeOK, MemTypeOK, RunTypeOK, ReqTypeOK, DocTypeOK, Statuses, RunPCs,
       HandlerPCs, Live, BeforeWrite,
       dbVars, memVars, runVars, reqVars, docVars
<1>1. CASE StartCrawl
  <2>1. lastRow + 1 \in Sessions /\ lastRun < MaxRun
    BY <1>1 DEF StartCrawl
  <2>2. Launch(lastRow + 1)
    BY <1>1 DEF StartCrawl
  <2>3. /\ RunTypeOK' /\ crawls' \in [Sessions -> Runs \cup {NoRun}]
        /\ \A q \in Runs : rpc'[q] = "snap" => rseen'[q] # NoRun
    BY <2>1, <2>2, LaunchType
  <2>4. DbTypeOK' /\ MemTypeOK'
    BY <1>1, <2>1, <2>3 DEF StartCrawl
  <2>5. ReqTypeOK' /\ DocTypeOK'
    BY <1>1 DEF StartCrawl
  <2> QED BY <2>3, <2>4, <2>5
<1>2. CASE StartCrawlLocal
  <2>1. nextID + 1 \in Sessions /\ lastRun < MaxRun
    BY <1>2 DEF StartCrawlLocal
  <2>2. Launch(nextID + 1)
    BY <1>2 DEF StartCrawlLocal
  <2>3. /\ RunTypeOK' /\ crawls' \in [Sessions -> Runs \cup {NoRun}]
        /\ \A q \in Runs : rpc'[q] = "snap" => rseen'[q] # NoRun
    BY <2>1, <2>2, LaunchType
  <2>4. DbTypeOK' /\ MemTypeOK'
    BY <1>2, <2>1, <2>3 DEF StartCrawlLocal
  <2>5. ReqTypeOK' /\ DocTypeOK'
    BY <1>2 DEF StartCrawlLocal
  <2> QED BY <2>3, <2>4, <2>5
<1>3. ASSUME NEW i \in Sessions, StopCrawlByID(i) PROVE TypeOK'
  BY <1>3 DEF StopCrawlByID, Cancelled
<1>4. CASE StopCrawl
  BY <1>4 DEF StopCrawl, Cancelled
<1>5. CASE Shutdown
  BY <1>5 DEF Shutdown
<1>6. CASE Restart
  <2>1. DbTypeOK' /\ DocTypeOK'
    BY <1>6 DEF Restart, RestoreIndex
  <2>2. down' \in BOOLEAN
    BY <1>6 DEF Restart
  <2>3. MemTypeOK'
    BY <1>6, <2>2 DEF Restart
  <2>4. RunTypeOK' /\ ReqTypeOK'
    BY <1>6 DEF Restart
  <2>5. \A r \in Runs : rpc'[r] # "snap"
    BY <1>6 DEF Restart
  <2> QED BY <2>1, <2>3, <2>4, <2>5
<1> QED BY <1>1, <1>2, <1>3, <1>4, <1>5, <1>6 DEF Other

\* Steps that leave the map, the lock and the requests alone, and move runs only
\* within the part of their life before the removal of their entry, or after it.
LEMMA MapFrame ==
    ASSUME ManagerInv, TypeOK', UNCHANGED <<crawls, mu, hpc, hid, lastRun, rsid>>,
           \A r \in Runs : \/ rpc'[r] = rpc[r]
                           \/ rpc[r] \in Live /\ rpc'[r] \in Live
                           \/ rpc[r] = "close" /\ rpc'[r] = "closed"
    PROVE  MapIsLive' /\ LockDiscipline' /\ Launched' /\ ResumeReady'
<1>1. MapIsLive'
  BY DEF ManagerInv, MapIsLive, TypeOK, MemTypeOK, RunTypeOK, Live, BeforeWrite
<1>2. Launched'
  BY DEF ManagerInv, Launched, TypeOK, RunTypeOK, Live, BeforeWrite
<1>3. LockDiscipline' /\ ResumeReady'
  BY DEF ManagerInv, LockDiscipline, ResumeReady
<1> QED BY <1>1, <1>2, <1>3

\* The goroutines of the crawls keep the rest of the invariant, ...
LEMMA MapRun ==
    ASSUME ManagerInv, TypeOK', NEW r \in Runs, CrawlStep(r) \/ FinishStep(r) \/ UpdaterStep(r)
    PROVE  MapIsLive' /\ LockDiscipline' /\ Launched' /\ ResumeReady'
<1>1. rpc \in [Runs -> RunPCs]
  BY DEF ManagerInv, TypeOK, RunTypeOK
<1>2. CASE RunDelete(r)
  <2>1. rsid[r] \in Sessions
    BY <1>2 DEF RunDelete, ManagerInv, Launched
  <2>2. MapIsLive'
    BY <1>1, <1>2, <2>1 DEF RunDelete, ManagerInv, MapIsLive, TypeOK, MemTypeOK
  <2>3. Launched'
    BY <1>1, <1>2 DEF RunDelete, ManagerInv, Launched
  <2>4. LockDiscipline'
    BY <1>2 DEF RunDelete, ManagerInv, LockDiscipline, reqVars
  <2>5. ResumeReady'
    BY <1>2 DEF RunDelete, ManagerInv, ResumeReady, TypeOK, MemTypeOK, reqVars
  <2> QED BY <2>2, <2>3, <2>4, <2>5
<1>3. CASE CrawlStep(r)
  BY <1>1, <1>3, MapFrame DEF CrawlStep, CrawlIndex, CrawlSavePostings, CrawlAppendPData, CrawlEnd,
     CrawlReturn, memVars, reqVars, Live, BeforeWrite
<1>4. CASE FinishStep(r) /\ ~RunDelete(r)
  BY <1>1, <1>4, MapFrame DEF FinishStep, FinishLook, FinishSnap, FinishWrite, FinishCount, RunClose,
     memVars, reqVars, Live, BeforeWrite
<1>5. CASE UpdaterStep(r)
  BY <1>1, <1>5, MapFrame DEF UpdaterStep, UpdaterTick, UpdaterExit, memVars, runVars, reqVars
<1> QED BY <1>2, <1>3, <1>4, <1>5

\* ... so do the requests and their handlers, ...
LEMMA MapHandler ==
    ASSUME ManagerInv, TypeOK', NEW h \in Handlers, Request(h) \/ HandlerStep(h)
    PROVE  MapIsLive' /\ LockDiscipline' /\ Launched' /\ ResumeReady'
<1> USE ManagerAssumption DEF ManagerInv, TypeOK, MemTypeOK, RunTypeOK, ReqTypeOK,
        memVars, runVars
<1>1. CASE \/ \E i \in Sessions : FormStopCrawl(h, i)
           \/ FormStop(h) \/ ClearResumeData(h) \/ ClearSessions(h)
           \/ FormList(h) \/ FormDone(h) \/ FormWait(h) \/ FormMark(h) \/ FormReturn(h)
  <2>1. UNCHANGED <<crawls, mu, lastRun, rpc, rsid>>
    BY <1>1 DEF FormStopCrawl, FormStop, ClearResumeData, ClearSessions, FormList, FormDone, FormWait,
       FormMark, FormReturn
  <2> DEFINE Elsewhere == /\ \A g \in Handlers \ {h} : hpc'[g] = hpc[g] /\ hid'[g] = hid[g]
                          /\ hpc[h] \notin {"load", "running", "launch"}
                          /\ hpc'[h] \notin {"load", "running", "launch"}
  <2>2. Elsewhere
    <3>0. ASSUME NEW i \in Sessions, FormStopCrawl(h, i) PROVE Elsewhere
      BY <3>0 DEF FormStopCrawl
    <3>1. CASE FormStop(h)
      BY <3>1 DEF FormStop
    <3>2. CASE ClearResumeData(h)
      BY <3>2 DEF ClearResumeData
    <3>3. CASE ClearSessions(h)
      BY <3>3 DEF ClearSessions
    <3>4. CASE FormList(h)
      BY <3>4 DEF FormList
    <3>5. CASE FormDone(h)
      BY <3>5 DEF FormDone
    <3>6. CASE FormWait(h)
      BY <3>6 DEF FormWait
    <3>7. CASE FormMark(h)
      BY <3>7 DEF FormMark
    <3>8. CASE FormReturn(h)
      BY <3>8 DEF FormReturn
    <3> QED BY <1>1, <3>0, <3>1, <3>2, <3>3, <3>4, <3>5, <3>6, <3>7, <3>8
  <2>3. MapIsLive' /\ Launched'
    BY <2>1 DEF MapIsLive, Launched
  <2>4. LockDiscipline' /\ ResumeReady'
    BY <2>1, <2>2 DEF LockDiscipline, ResumeReady
  <2> QED BY <2>3, <2>4
<1>2. ASSUME NEW i \in Sessions, Resume(h, i) PROVE MapIsLive' /\ LockDiscipline' /\ Launched' /\ ResumeReady'
  <2>1. MapIsLive' /\ Launched'
    BY <1>2 DEF Resume, MapIsLive, Launched
  <2>2. LockDiscipline'
    BY <1>2 DEF Resume, LockDiscipline
  <2>3. ResumeReady'
    BY <1>2 DEF Resume, ResumeReady, LockDiscipline
  <2> QED BY <2>1, <2>2, <2>3
<1>3. CASE ResumeLoad(h) \/ ResumeMark(h)
  <2>1. MapIsLive' /\ Launched'
    BY <1>3 DEF ResumeLoad, ResumeMark, MapIsLive, Launched
  <2>2. LockDiscipline'
    BY <1>3 DEF ResumeLoad, ResumeMark, LockDiscipline
  <2>3. ResumeReady'
    BY <1>3 DEF ResumeLoad, ResumeMark, ResumeReady
  <2> QED BY <2>1, <2>2, <2>3
<1>4. CASE ResumeLaunch(h)
  <2>1. hid[h] \in Sessions /\ lastRun < MaxRun /\ Launch(hid[h])
    BY <1>4 DEF ResumeLaunch, ResumeReady
  <2>2. MapIsLive' /\ Launched'
    BY <2>1, LaunchMap
  <2>3. \A g \in Handlers : hpc'[g] \notin {"load", "running", "launch"}
    BY <1>4 DEF ResumeLaunch, LockDiscipline
  <2>4. LockDiscipline' /\ ResumeReady'
    BY <1>4, <2>3 DEF ResumeLaunch, LockDiscipline, ResumeReady
  <2> QED BY <2>2, <2>4
<1> QED BY <1>1, <1>2, <1>3, <1>4 DEF Request, HandlerStep

\* ... and the other steps: starting a crawl needs the lock, so no request is
\* inside ResumeCrawlByID then.
LEMMA MapOther ==
    ASSUME ManagerInv, TypeOK', Other
    PROVE  MapIsLive' /\ LockDiscipline' /\ Launched' /\ ResumeReady'
<1> USE ManagerAssumption DEF ManagerInv, TypeOK, MemTypeOK, RunTypeOK, ReqTypeOK, DbTypeOK
<1>1. CASE StartCrawl \/ StartCrawlLocal
  <2>1. \E i \in Sessions : lastRun < MaxRun /\ Launch(i)
    BY <1>1 DEF StartCrawl, StartCrawlLocal
  <2>2. MapIsLive' /\ Launched'
    BY <2>1, LaunchMap
  <2>3. mu = Free /\ UNCHANGED <<mu, hpc, hid>>
    BY <1>1 DEF StartCrawl, StartCrawlLocal, reqVars
  <2>4. LockDiscipline' /\ ResumeReady'
    BY <2>3 DEF LockDiscipline, ResumeReady
  <2> QED BY <2>2, <2>4
<1>2. CASE (\E i \in Sessions : StopCrawlByID(i)) \/ StopCrawl \/ Shutdown
  BY <1>2, MapFrame DEF StopCrawlByID, StopCrawl, Shutdown, memVars, reqVars
<1>3. CASE Restart
  <2>1. MapIsLive'
    BY <1>3 DEF Restart, MapIsLive
  <2>2. Launched'
    BY <1>3 DEF Restart, Launched
  <2>3. LockDiscipline' /\ ResumeReady'
    BY <1>3 DEF Restart, LockDiscipline, ResumeReady
  <2> QED BY <2>1, <2>2, <2>3
<1> QED BY <1>1, <1>2, <1>3 DEF Other

\* Together: the invariant is inductive.
LEMMA ManagerStep == ManagerInv /\ [Next]_vars => ManagerInv'
<1> SUFFICES ASSUME ManagerInv, [Next]_vars PROVE ManagerInv'
  OBVIOUS
<1>1. ASSUME NEW r \in Runs, CrawlStep(r) \/ FinishStep(r) \/ UpdaterStep(r) PROVE ManagerInv'
  BY <1>1, TypeCrawl, TypeFinish, TypeUpdater, MapRun DEF ManagerInv
<1>2. ASSUME NEW h \in Handlers, Request(h) \/ HandlerStep(h) PROVE ManagerInv'
  BY <1>2, TypeRequest, TypeHandler, MapHandler DEF ManagerInv
<1>3. CASE Other
  BY <1>3, TypeOther, MapOther DEF ManagerInv
<1>4. CASE UNCHANGED vars
  BY <1>4 DEF vars, dbVars, memVars, runVars, reqVars, docVars, ManagerInv, TypeOK, DbTypeOK, MemTypeOK,
     RunTypeOK, ReqTypeOK, DocTypeOK, MapIsLive, LockDiscipline, Launched, ResumeReady
<1> QED BY <1>1, <1>2, <1>3, <1>4 DEF Next, Other

\* Every variable keeps its type, and finishSession never dereferences an
\* activeCrawl it did not find.
THEOREM ManagerTypeCorrect == Spec => []TypeOK
<1>1. ManagerInv => TypeOK
  BY DEF ManagerInv
<1> QED BY <1>1, InvInit, ManagerStep, PTL DEF Spec

\* Whatever is registered in m.crawls is a goroutine that has yet to remove it.
THEOREM RegisteredIsLive == Spec => []MapIsLive
<1>1. ManagerInv => MapIsLive
  BY DEF ManagerInv
<1> QED BY <1>1, InvInit, ManagerStep, PTL DEF Spec

\* m.mu is held exactly by the request that is inside ResumeCrawlByID.
THEOREM LockIsDisciplined == Spec => []LockDiscipline
<1>1. ManagerInv => LockDiscipline
  BY DEF ManagerInv
<1> QED BY <1>1, InvInit, ManagerStep, PTL DEF Spec

-----------------------------------------------------------------------------
(* Without early resumes and failing statements every crawl can be found. *)

Patient == ~EarlyResume /\ ~DBMayFail

\* Ids come from the table alone.
KnownIds ==
    /\ \A r \in Runs : rsid[r] <= lastRow
    /\ \A i \in Sessions : status[i] # "none" => i <= lastRow
    /\ \A h \in Handlers : hpc[h] \in {"load", "running", "launch"} => hid[h] <= lastRow

PatientInv == Patient => LiveIsRegistered /\ KnownIds

\* Nothing is live when the server starts.
LEMMA PatientInit == Init => PatientInv
BY DEF Init, PatientInv, LiveIsRegistered, KnownIds, Live, BeforeWrite

\* Without failures a statement has its effect.
LEMMA TxPatient == ASSUME Patient, NEW new, NEW old PROVE Tx(new, old) = {new}
BY ManagerAssumption DEF Patient, Tx

\* The columns keep their domain of known ids under an UPDATE.
LEMMA UpdateKnown ==
    ASSUME ManagerInv, NEW j \in Sessions, NEW v, NEW i \in Sessions,
           UpdateRow(status, j, v)[i] # "none"
    PROVE  status[i] # "none"
BY DEF UpdateRow, ManagerInv, TypeOK, DbTypeOK

\* Steps that launch nothing and remove nothing keep crawls registered.
LEMMA RegisteredFrame ==
    ASSUME LiveIsRegistered, UNCHANGED <<crawls, rsid>>,
           \A r \in Runs : rpc'[r] \in Live => rpc[r] \in Live
    PROVE  LiveIsRegistered'
BY DEF LiveIsRegistered

\* Launching a crawl for a session without one keeps them registered.
LEMMA RegisteredLaunch ==
    ASSUME ManagerInv, NEW i \in Sessions, lastRun < MaxRun, Launch(i), LiveIsRegistered,
           \A r \in Runs : rpc[r] \in Live => rsid[r] # i
    PROVE  LiveIsRegistered'
<1>1. lastRun' \in Runs
  BY ManagerAssumption DEF ManagerInv, TypeOK, RunTypeOK, Launch
<1>2. SUFFICES ASSUME NEW r \in Runs, rpc'[r] \in Live PROVE crawls'[rsid'[r]] = r
  BY DEF LiveIsRegistered
<1>3. CASE r = lastRun'
  BY <1>1, <1>3 DEF Launch, ManagerInv, TypeOK, RunTypeOK, MemTypeOK
<1>4. CASE r # lastRun'
  <2>1. rpc[r] \in Live /\ rsid'[r] = rsid[r]
    BY <1>1, <1>2, <1>4 DEF Launch, ManagerInv, TypeOK, RunTypeOK
  <2>2. crawls[rsid[r]] = r /\ rsid[r] # i
    BY <2>1 DEF LiveIsRegistered
  <2>3. rsid[r] \in Sessions
    BY <2>1 DEF ManagerInv, Launched, Live, BeforeWrite
  <2> QED BY <2>1, <2>2, <2>3 DEF Launch, ManagerInv, TypeOK, MemTypeOK
<1> QED BY <1>3, <1>4

\* The goroutines of the crawls keep the patient invariant, ...
LEMMA PatientRun ==
    ASSUME ManagerInv, Patient, LiveIsRegistered, KnownIds,
           NEW r \in Runs, CrawlStep(r) \/ FinishStep(r) \/ UpdaterStep(r)
    PROVE  LiveIsRegistered' /\ KnownIds'
<1>1. rpc \in [Runs -> RunPCs] /\ status \in [Sessions -> Statuses]
  BY DEF ManagerInv, TypeOK, RunTypeOK, DbTypeOK
<1>2. UNCHANGED <<rsid, lastRow, hpc, hid>>
  BY DEF CrawlStep, FinishStep, UpdaterStep, CrawlIndex, CrawlSavePostings, CrawlAppendPData, CrawlEnd,
     CrawlReturn, FinishLook, FinishSnap, FinishWrite, FinishCount, RunDelete, RunClose, UpdaterTick,
     UpdaterExit, dbVars, runVars, reqVars
<1>3. \A i \in Sessions : status'[i] # "none" => status[i] # "none"
  <2>1. CASE FinishWrite(r)
    <3>1. rsid[r] \in Sessions
      BY <2>1 DEF FinishWrite, ManagerInv, Launched
    <3>2. status' = UpdateRow(status, rsid[r], rstatus[r]) \/ status' = status
      BY <2>1 DEF FinishWrite
    <3> QED BY <3>1, <3>2, UpdateKnown
  <2>2. CASE ~FinishWrite(r)
    BY <2>2 DEF CrawlStep, FinishStep, UpdaterStep, CrawlIndex, CrawlSavePostings, CrawlAppendPData,
       CrawlEnd, CrawlReturn, FinishLook, FinishSnap, FinishCount, RunDelete, RunClose, UpdaterTick,
       UpdaterExit, dbVars
  <2> QED BY <2>1, <2>2
<1>4. KnownIds'
  BY <1>2, <1>3 DEF KnownIds
<1>5. CASE RunDelete(r)
  <2>1. \A q \in Runs : rpc'[q] \in Live => rpc[q] \in Live /\ q # r
    BY <1>1, <1>5 DEF RunDelete, Live, BeforeWrite
  <2>2. \A q \in Runs : rpc[q] \in Live /\ q # r => rsid[q] # rsid[r]
    BY <1>5 DEF RunDelete, LiveIsRegistered, Live
  <2>3. \A q \in Runs : rpc[q] \in Live => rsid[q] \in Sessions
    BY DEF ManagerInv, Launched, Live, BeforeWrite
  <2>4. LiveIsRegistered'
    BY <1>2, <1>5, <2>1, <2>2, <2>3 DEF RunDelete, LiveIsRegistered, ManagerInv, TypeOK, MemTypeOK
  <2> QED BY <1>4, <2>4
<1>6. CASE ~RunDelete(r)
  <2>1. UNCHANGED crawls
    BY <1>6 DEF CrawlStep, FinishStep, UpdaterStep, CrawlIndex, CrawlSavePostings, CrawlAppendPData,
       CrawlEnd, CrawlReturn, FinishLook, FinishSnap, FinishWrite, FinishCount, RunClose, UpdaterTick,
       UpdaterExit, memVars
  <2>2. \A q \in Runs : rpc'[q] \in Live => rpc[q] \in Live
    BY <1>1, <1>6 DEF CrawlStep, FinishStep, UpdaterStep, CrawlIndex, CrawlSavePostings, CrawlAppendPData,
       CrawlEnd, CrawlReturn, FinishLook, FinishSnap, FinishWrite, FinishCount, RunClose, UpdaterTick,
       UpdaterExit, runVars, Live, BeforeWrite
  <2> QED BY <1>2, <1>4, <2>1, <2>2, RegisteredFrame
<1> QED BY <1>5, <1>6

\* ... so do the requests and their handlers, ...
LEMMA PatientHandler ==
    ASSUME ManagerInv, Patient, LiveIsRegistered, KnownIds,
           NEW h \in Handlers, Request(h) \/ HandlerStep(h)
    PROVE  LiveIsRegistered' /\ KnownIds'
<1> USE DEF ManagerInv, TypeOK, DbTypeOK, MemTypeOK, RunTypeOK, ReqTypeOK
<1>1. CASE ResumeLaunch(h)
  <2>1. hid[h] \in Sessions /\ lastRun < MaxRun /\ crawls[hid[h]] = NoRun /\ Launch(hid[h])
    BY <1>1 DEF ResumeLaunch, ResumeReady
  <2>2. \A r \in Runs : rpc[r] \in Live => rsid[r] # hid[h]
    BY <2>1 DEF LiveIsRegistered
  <2>3. LiveIsRegistered'
    BY <2>1, <2>2, RegisteredLaunch
  <2>4. lastRow' = lastRow /\ status' = status /\ hid[h] <= lastRow
    BY <1>1 DEF ResumeLaunch, KnownIds
  <2>5. \A r \in Runs : rsid'[r] <= lastRow'
    BY <2>1, <2>4 DEF Launch, KnownIds
  <2>6. \A g \in Handlers : hpc'[g] \in {"load", "running", "launch"} => hid'[g] <= lastRow'
    BY <1>1, <2>4 DEF ResumeLaunch, KnownIds
  <2> QED BY <2>3, <2>4, <2>5, <2>6 DEF KnownIds
<1>2. ASSUME NEW i \in Sessions, Resume(h, i) PROVE LiveIsRegistered' /\ KnownIds'
  <2>1. crawls[i] = NoRun
    BY <1>2 DEF Resume, Patient
  <2>2. UNCHANGED <<crawls, rsid, rpc, status, lastRow>>
    BY <1>2, <2>1 DEF Resume, dbVars, runVars
  <2>3. i <= lastRow
    BY <1>2 DEF Resume, KnownIds
  <2>4. KnownIds'
    BY <1>2, <2>2, <2>3 DEF Resume, KnownIds
  <2> QED BY <2>2, <2>4, RegisteredFrame
<1>3. CASE ~ResumeLaunch(h) /\ ~\E i \in Sessions : Resume(h, i)
  <2>1. UNCHANGED <<crawls, rsid, rpc, lastRow>>
    BY <1>3 DEF Request, HandlerStep, FormStopCrawl, FormStop, ClearResumeData, ClearSessions, FormList,
       FormDone, FormWait, FormMark, FormReturn, ResumeLoad, ResumeMark, dbVars, memVars, runVars
  <2>2. LiveIsRegistered'
    BY <2>1, RegisteredFrame
  <2> DEFINE Known == /\ \A g \in Handlers : hpc'[g] \in {"load", "running", "launch"} =>
                          hpc[g] \in {"load", "running", "launch"} /\ hid'[g] = hid[g]
                      /\ \A i \in Sessions : status'[i] # "none" => status[i] # "none"
  <2>3. ASSUME NEW i \in Sessions, FormStopCrawl(h, i) PROVE Known
    BY <2>3 DEF FormStopCrawl, dbVars
  <2>4. ASSUME FormStop(h) PROVE Known
    BY <2>4 DEF FormStop, dbVars
  <2>5. ASSUME ClearResumeData(h) PROVE Known
    BY <2>5 DEF ClearResumeData, dbVars
  <2>6. ASSUME ClearSessions(h) PROVE Known
    BY <2>6 DEF ClearSessions, Finished, dbVars
  <2>7. ASSUME FormList(h) PROVE Known
    BY <2>7 DEF FormList, dbVars
  <2>8. ASSUME FormDone(h) PROVE Known
    BY <2>8 DEF FormDone, dbVars
  <2>9. ASSUME FormWait(h) PROVE Known
    BY <2>9 DEF FormWait, dbVars
  <2>10. ASSUME FormMark(h) PROVE Known
    BY <2>10 DEF FormMark, UpdateSessionStatus, UpdateRow, Tx, dbVars
  <2>11. ASSUME FormReturn(h) PROVE Known
    BY <2>11 DEF FormReturn, dbVars
  <2>12. ASSUME ResumeLoad(h) PROVE Known
    BY <2>12 DEF ResumeLoad, dbVars
  <2>13. ASSUME ResumeMark(h) PROVE Known
    BY <2>13 DEF ResumeMark, UpdateSessionStatus, UpdateRow, Tx, ResumeReady, dbVars
  <2>14. Known
    BY <1>3, <2>3, <2>4, <2>5, <2>6, <2>7, <2>8, <2>9, <2>10, <2>11, <2>12, <2>13 DEF Request, HandlerStep
  <2> QED BY <2>1, <2>2, <2>14 DEF KnownIds
<1> QED BY <1>1, <1>2, <1>3

\* ... and the other steps: a new id is larger than all that are in use.
LEMMA PatientOther ==
    ASSUME ManagerInv, Patient, LiveIsRegistered, KnownIds, Other
    PROVE  LiveIsRegistered' /\ KnownIds'
<1> USE ManagerAssumption DEF ManagerInv, TypeOK, DbTypeOK, MemTypeOK, RunTypeOK
<1>1. CASE StartCrawl
  <2>1. lastRow + 1 \in Sessions /\ lastRow' = lastRow + 1 /\ lastRow \in Nat
    BY <1>1 DEF StartCrawl
  <2>2. lastRun < MaxRun /\ Launch(lastRow + 1)
    BY <1>1 DEF StartCrawl
  <2>3. \A r \in Runs : rsid[r] # lastRow + 1
    BY <2>1 DEF KnownIds
  <2>4. LiveIsRegistered'
    BY <2>1, <2>2, <2>3, RegisteredLaunch
  <2>5. ASSUME NEW r \in Runs PROVE rsid'[r] <= lastRow'
    <3>1. rsid'[r] = lastRow + 1 \/ rsid'[r] = rsid[r]
      BY <2>2 DEF Launch
    <3>2. rsid[r] <= lastRow /\ rsid[r] \in Nat
      BY DEF KnownIds
    <3> QED BY <2>1, <3>1, <3>2
  <2>6. \A i \in Sessions : status'[i] # "none" => i <= lastRow'
    BY <1>1, <2>1 DEF StartCrawl, KnownIds
  <2>7. mu = Free /\ UNCHANGED <<hpc, hid>>
    BY <1>1 DEF StartCrawl, reqVars
  <2>8. \A h \in Handlers : hpc'[h] \in {"load", "running", "launch"} => hid'[h] <= lastRow'
    BY <2>7 DEF LockDiscipline
  <2> QED BY <2>4, <2>5, <2>6, <2>8 DEF KnownIds
<1>2. ~StartCrawlLocal
  BY DEF StartCrawlLocal, Patient
<1>3. CASE (\E i \in Sessions : StopCrawlByID(i)) \/ StopCrawl \/ Shutdown
  <2>1. UNCHANGED <<crawls, rsid, rpc, status, lastRow, hpc, hid>>
    BY <1>3 DEF StopCrawlByID, StopCrawl, Shutdown, dbVars, memVars, reqVars
  <2> QED BY <2>1, RegisteredFrame DEF KnownIds
<1>4. CASE Restart
  <2>1. \A r \in Runs : rpc'[r] \notin Live
    BY <1>4 DEF Restart, Live, BeforeWrite
  <2>2. KnownIds'
    BY <1>4 DEF Restart, KnownIds, dbVars
  <2> QED BY <2>1, <2>2 DEF LiveIsRegistered
<1> QED BY <1>1, <1>2, <1>3, <1>4 DEF Other

\* Together: the patient invariant is inductive.
LEMMA PatientStep == ManagerInv /\ PatientInv /\ [Next]_vars => PatientInv'
<1> SUFFICES ASSUME ManagerInv, Patient, LiveIsRegistered, KnownIds, [Next]_vars
             PROVE  LiveIsRegistered' /\ KnownIds'
  BY DEF PatientInv, Patient
<1>1. CASE UNCHANGED vars
  BY <1>1 DEF vars, dbVars, memVars, runVars, reqVars, LiveIsRegistered, KnownIds
<1> QED BY <1>1, PatientRun, PatientHandler, PatientOther DEF Next, Other

\* Unless a session is resumed before its old crawl is gone or a statement
\* fails, every crawl that runs is registered under its session: StopCrawl and
\* StopCrawlByID reach it and finishSession finds its own metrics.
THEOREM PatientIsRegistered == Spec => [](Patient => LiveIsRegistered)
<1>1. PatientInv => (Patient => LiveIsRegistered)
  BY DEF PatientInv
<1> QED BY <1>1, InvInit, ManagerStep, PatientInit, PatientStep, PTL DEF Spec

-----------------------------------------------------------------------------
(* Invariants of the stores and of the session table *)

\* A document that is saved is in the postings table, and p.data never holds
\* more than the table; the index holds what crawls put there or a restart
\* read from one of the two.
StoreInv ==
    /\ \A r \in Runs : rdoc[r] \in {"saved", "flushed"} => r \in postings
    /\ pdata \subseteq postings
    /\ \A r \in idx : r \in postings \/ (rdoc[r] = "indexed" /\ rpc[r] \in {"crawl", "ending"})

\* Where a run has not yet settled how many tasks its session keeps.
Unsettled == BeforeWrite \cup {"count"}

\* Session i has no crawl that will still write to its row or its queue.
Settled(i) ==
    /\ \A r \in Runs : rsid[r] = i => rpc[r] \notin Unsettled
    /\ \A h \in Handlers : hid[h] = i => hpc[h] \notin {"running", "launch"}

\* The saved count is zero until a crawl ends, and without a row.
CountReset ==
    /\ \A r \in Runs : rpc[r] \in Unsettled => saved[rsid[r]] = 0
    /\ \A i \in Sessions : status[i] = "none" => saved[i] = 0

\* A crawl that leaves tasks behind was cancelled, and finishSession will say
\* so: it looks at the metrics of its own crawl.
Leftover(r) ==
    /\ rpc[r] \in {"snap", "write"} => rseen[r] = r
    /\ rpc[r] \in {"ending", "look", "snap", "write"} /\ queue[rsid[r]] > 0 =>
         /\ rpc[r] = "ending" => rcancel[r]
         /\ rpc[r] # "ending" => reason[r] = "stopped"
         /\ rpc[r] = "write" => rstatus[r] = "stopped"

LeftoverStopped == \A r \in Runs : Leftover(r)

\* The saved count of a settled session is right unless a clear is under way.
NoClear == \A h \in Handlers : hpc[h] # "clear"
CountRightOf(i) ==
    NoClear /\ status[i] \in {"stopped", "completed"} /\ Settled(i) => queue[i] = saved[i]
CountRight == \A i \in Sessions : CountRightOf(i)

RecordInv == RunningIsLive /\ CountReset /\ LeftoverStopped /\ CountRight

-----------------------------------------------------------------------------
(* The documents *)

\* A step that leaves the stores alone and returns no crawl too early.
LEMMA StoreFrame ==
    ASSUME StoreInv, UNCHANGED <<idx, postings, rdoc>>, pdata' = pdata \/ pdata' = {},
           \A r \in Runs : rpc[r] \in {"crawl", "ending"} /\ rdoc[r] = "indexed" => rpc'[r] \in {"crawl", "ending"},
           idx \subseteq Runs
    PROVE  StoreInv'
BY DEF StoreInv

\* A new crawl is a crawl that was not there before.
LEMMA LaunchStore ==
    ASSUME ManagerInv, NEW i, lastRun < MaxRun, Launch(i)
    PROVE  \A r \in Runs : rpc[r] \in {"crawl", "ending"} => rpc'[r] = rpc[r]
BY ManagerAssumption DEF Launch, ManagerInv, Launched, TypeOK, RunTypeOK

\* Every step keeps the stores in step with the index.
LEMMA StoreStep ==
    ASSUME ManagerInv, ~DBMayFail, StoreInv, [Next]_vars
    PROVE  StoreInv'
<1> USE DEF ManagerInv, TypeOK, RunTypeOK, DocTypeOK
<1>1. ASSUME NEW r \in Runs, CrawlStep(r) PROVE StoreInv'
  <2>1. CASE CrawlIndex(r)
    BY <2>1 DEF CrawlIndex, StoreInv
  <2>2. CASE CrawlSavePostings(r)
    <3>1. postings' = postings \cup {r} /\ rdoc' = [rdoc EXCEPT ![r] = "saved"]
          /\ UNCHANGED <<idx, pdata, rpc>>
      BY <2>2 DEF CrawlSavePostings, Tx
    <3> QED BY <3>1 DEF StoreInv
  <2>3. CASE CrawlAppendPData(r)
    <3>1. /\ pdata' = pdata \cup {r} /\ rdoc[r] = "saved" /\ rdoc' = [rdoc EXCEPT ![r] = "flushed"]
          /\ UNCHANGED <<idx, postings, rpc>>
      BY <2>3 DEF CrawlAppendPData, Tx
    <3> QED BY <3>1 DEF StoreInv
  <2>4. CASE CrawlEnd(r)
    BY <2>4, StoreFrame DEF CrawlEnd, docVars
  <2>5. CASE CrawlReturn(r)
    BY <2>5, StoreFrame DEF CrawlReturn, docVars
  <2> QED BY <1>1, <2>1, <2>2, <2>3, <2>4, <2>5 DEF CrawlStep
<1>2. ASSUME NEW r \in Runs, FinishStep(r) \/ UpdaterStep(r) PROVE StoreInv'
  <2>1. UNCHANGED <<idx, postings, pdata, rdoc>>
    BY <1>2 DEF FinishStep, UpdaterStep, FinishLook, FinishSnap, FinishWrite, FinishCount, RunDelete, RunClose,
       UpdaterTick, UpdaterExit, docVars, runVars
  <2>2. \A q \in Runs : rpc[q] \in {"crawl", "ending"} => rpc'[q] = rpc[q]
    BY <1>2 DEF FinishStep, UpdaterStep, FinishLook, FinishSnap, FinishWrite, FinishCount, RunDelete, RunClose,
       UpdaterTick, UpdaterExit, runVars
  <2> QED BY <2>1, <2>2, StoreFrame
<1>3. ASSUME NEW h \in Handlers, Request(h) \/ HandlerStep(h) PROVE StoreInv'
  <2>1. UNCHANGED <<idx, postings, pdata, rdoc>>
    BY <1>3 DEF Request, HandlerStep, FormStopCrawl, Resume, FormStop, ClearResumeData, FormList, FormDone, FormWait,
       FormMark, FormReturn, ResumeLoad, ResumeMark, ResumeLaunch, ClearSessions, Launch, docVars, runVars
  <2>2. CASE ResumeLaunch(h)
    <3>1. lastRun < MaxRun /\ Launch(hid[h])
      BY <2>2 DEF ResumeLaunch, ResumeReady
    <3>2. \A r \in Runs : rpc[r] \in {"crawl", "ending"} => rpc'[r] = rpc[r]
      BY <3>1, LaunchStore
    <3> QED BY <2>1, <3>2, StoreFrame
  <2>3. CASE ~ResumeLaunch(h)
    <3>1. rpc' = rpc
      BY <1>3, <2>3 DEF Request, HandlerStep, FormStopCrawl, Resume, FormStop, ClearResumeData, FormList, FormDone,
         FormWait, FormMark, FormReturn, ResumeLoad, ResumeMark, ClearSessions, runVars
    <3> QED BY <2>1, <3>1, StoreFrame
  <2> QED BY <2>2, <2>3
<1>4. CASE StartCrawl \/ StartCrawlLocal
  <2>1. /\ lastRun < MaxRun /\ \E i : Launch(i)
        /\ UNCHANGED <<idx, postings, rdoc>> /\ pdata' = {}
    BY <1>4 DEF StartCrawl, StartCrawlLocal, Launch
  <2>2. \A r \in Runs : rpc[r] \in {"crawl", "ending"} => rpc'[r] = rpc[r]
    BY <2>1, LaunchStore
  <2> QED BY <2>1, <2>2, StoreFrame
<1>5. CASE (\E i \in Sessions : StopCrawlByID(i)) \/ StopCrawl \/ Shutdown \/ UNCHANGED vars
  <2>1. UNCHANGED <<idx, postings, pdata, rdoc, rpc>>
    BY <1>5 DEF StopCrawlByID, StopCrawl, Shutdown, vars, runVars, docVars
  <2> QED BY <2>1, StoreFrame
<1>6. CASE Restart
  <2>1. UNCHANGED <<postings, pdata, rdoc>> /\ (idx' = pdata \/ idx' = postings)
    BY <1>6 DEF Restart, RestoreIndex
  <2> QED BY <2>1 DEF StoreInv
<1> QED BY <1>1, <1>2, <1>3, <1>4, <1>5, <1>6 DEF Next

\* Unless a write fails, when Start has returned what a crawl indexed is in the
\* postings table, through every stop, resume and restart of the process.
THEOREM IndexedIsStored == Spec => [](~DBMayFail => StoredWhenReturned)
<1> DEFINE J == ~DBMayFail => StoreInv
<1>1. Init => J
  BY DEF Init, StoreInv
<1>2. ManagerInv /\ J /\ [Next]_vars => J'
  BY StoreStep
<1>3. J => (~DBMayFail => StoredWhenReturned)
  BY DEF StoreInv, StoredWhenReturned
<1> HIDE DEF J
<1> QED BY <1>1, <1>2, <1>3, InvInit, ManagerStep, PTL DEF Spec

-----------------------------------------------------------------------------
(* The rows *)

\* What the rest relies on.
RowContext == ManagerInv /\ Patient /\ LiveIsRegistered /\ KnownIds

\* Runs are numbered from 1.
LEMMA RunsCount == \A r \in Runs : r # NoRun
BY ManagerAssumption

\* A session has one crawl at a time.
LEMMA OneCrawl ==
    ASSUME RowContext, NEW r \in Runs, NEW q \in Runs, rpc[r] \in Live, rpc[q] \in Live, rsid[r] = rsid[q]
    PROVE  r = q
BY DEF RowContext, LiveIsRegistered

\* While a session is being resumed no crawl of it is live.
LEMMA ResumeAlone ==
    ASSUME RowContext, NEW h \in Handlers, hpc[h] \in {"load", "running", "launch"}
    PROVE  /\ hid[h] \in Sessions /\ \A r \in Runs : rsid[r] = hid[h] => rpc[r] \notin Live
           /\ \A g \in Handlers : hpc[g] \in {"load", "running", "launch"} => g = h
<1>1. hid[h] \in Sessions /\ crawls[hid[h]] = NoRun
  BY DEF RowContext, ManagerInv, ResumeReady
<1>2. \A r \in Runs : rsid[r] = hid[h] => rpc[r] \notin Live
  BY <1>1, RunsCount DEF RowContext, LiveIsRegistered
<1>3. \A g \in Handlers : hpc[g] \in {"load", "running", "launch"} => g = h
  BY DEF RowContext, ManagerInv, LockDiscipline
<1> QED BY <1>1, <1>2, <1>3

\* The runs and the handlers that stand for the rows are still there.
LEMMA RunningFrame ==
    ASSUME RunningIsLive,
           \A i \in Sessions : status'[i] = "running" => status[i] = "running",
           rsid' = rsid,
           \A r \in Runs : rpc[r] \in BeforeWrite => rpc'[r] \in BeforeWrite,
           \A h \in Handlers : hpc[h] = "launch" => hpc'[h] = "launch" /\ hid'[h] = hid[h]
    PROVE  RunningIsLive'
BY DEF RunningIsLive

\* A launch keeps the crawls that are there and adds one.
LEMMA LaunchRow ==
    ASSUME RowContext, NEW i \in Sessions, lastRun < MaxRun, Launch(i)
    PROVE  /\ lastRun' \in Runs /\ lastRun' = lastRun + 1 /\ rpc[lastRun'] = "unused"
           /\ rpc'[lastRun'] = "crawl" /\ rsid'[lastRun'] = i
           /\ \A r \in Runs : r # lastRun' => rpc'[r] = rpc[r] /\ rsid'[r] = rsid[r]
           /\ UNCHANGED <<reason, rseen, rstatus>>
<1> USE DEF RowContext, ManagerInv, TypeOK, RunTypeOK
<1>1. lastRun \in Nat /\ lastRun + 1 \in Runs /\ lastRun' = lastRun + 1
  BY ManagerAssumption DEF Launch
<1>2. rpc[lastRun + 1] = "unused"
  BY <1>1 DEF Launched
<1>3. rpc' = [rpc EXCEPT ![lastRun + 1] = "crawl"] /\ rsid' = [rsid EXCEPT ![lastRun + 1] = i]
  BY <1>1 DEF Launch
<1>4. UNCHANGED <<reason, rseen, rstatus>>
  BY DEF Launch
<1> QED BY <1>1, <1>2, <1>3, <1>4

\* A new session gets the next row.
LEMMA StartRow ==
    ASSUME RowContext, StartCrawl
    PROVE  /\ lastRow + 1 \in Sessions /\ lastRow' = lastRow + 1 /\ lastRun < MaxRun /\ Launch(lastRow + 1)
           /\ status[lastRow + 1] = "none" /\ \A r \in Runs : rsid[r] # lastRow + 1
           /\ status' = [status EXCEPT ![lastRow + 1] = "running"]
           /\ mu = Free /\ UNCHANGED <<hpc, hid, saved, queue>>
<1> USE DEF RowContext, ManagerInv, TypeOK, DbTypeOK, RunTypeOK
<1>1. lastRow \in Nat /\ lastRow + 1 \in Sessions
  BY ManagerAssumption DEF StartCrawl
<1>2. lastRow' = lastRow + 1 /\ status' = [status EXCEPT ![lastRow'] = "running"] /\ Launch(lastRow')
      /\ mu = Free /\ lastRun < MaxRun /\ UNCHANGED <<hpc, hid, saved, queue>>
  BY DEF StartCrawl, reqVars
<1>3. status[lastRow + 1] = "none"
  BY <1>1 DEF KnownIds
<1>4. \A r \in Runs : rsid[r] # lastRow + 1
  BY <1>1 DEF KnownIds
<1> QED BY <1>1, <1>2, <1>3, <1>4

\* The end of a crawl is written before it is gone, ...
LEMMA RunningRun ==
    ASSUME RowContext, RunningIsLive, NEW r \in Runs, CrawlStep(r) \/ FinishStep(r) \/ UpdaterStep(r)
    PROVE  RunningIsLive'
<1> USE DEF RowContext, ManagerInv, TypeOK, RunTypeOK, DbTypeOK
<1>1. UNCHANGED <<rsid, hid, hpc>>
  BY DEF CrawlStep, FinishStep, UpdaterStep, CrawlIndex, CrawlSavePostings, CrawlAppendPData, CrawlEnd, CrawlReturn,
     FinishLook, FinishSnap, FinishWrite, FinishCount, RunDelete, RunClose, UpdaterTick, UpdaterExit, runVars, reqVars
<1>2. CASE FinishWrite(r)
  <2>1. rpc[r] = "write" /\ rpc' = [rpc EXCEPT ![r] = IF rstatus[r] = "stopped" THEN "count" ELSE "delete"]
        /\ status' = UpdateRow(status, rsid[r], rstatus[r])
    BY <1>2 DEF FinishWrite, Patient
  <2>2. rsid[r] \in Sessions /\ rstatus[r] # "running"
    BY <2>1 DEF Launched
  <2>3. \A i \in Sessions : status'[i] = "running" => status[i] = "running" /\ i # rsid[r]
    BY <2>1, <2>2 DEF UpdateRow
  <2>4. \A q \in Runs : q # r => rpc'[q] = rpc[q]
    BY <2>1
  <2> QED BY <1>1, <2>3, <2>4 DEF RunningIsLive
<1>3. CASE ~FinishWrite(r)
  <2>1. status' = status
    BY <1>3 DEF CrawlStep, FinishStep, UpdaterStep, CrawlIndex, CrawlSavePostings, CrawlAppendPData, CrawlEnd,
       CrawlReturn, FinishLook, FinishSnap, FinishCount, RunDelete, RunClose, UpdaterTick, UpdaterExit, dbVars
  <2>2. FinishLook(r) => crawls[rsid[r]] # NoRun
    BY RunsCount DEF FinishLook, LiveIsRegistered, Live, BeforeWrite
  <2>3. \A q \in Runs : rpc[q] \in BeforeWrite => rpc'[q] \in BeforeWrite
    BY <1>3, <2>2 DEF CrawlStep, FinishStep, UpdaterStep, CrawlIndex, CrawlSavePostings, CrawlAppendPData, CrawlEnd,
       CrawlReturn, FinishLook, FinishSnap, FinishCount, RunDelete, RunClose, UpdaterTick, UpdaterExit, runVars,
       BeforeWrite
  <2> QED BY <1>1, <2>1, <2>3, RunningFrame
<1> QED BY <1>2, <1>3

\* ... a resume that marks the row launches a crawl, ...
LEMMA RunningHandler ==
    ASSUME RowContext, RunningIsLive, NEW h \in Handlers, Request(h) \/ HandlerStep(h)
    PROVE  RunningIsLive'
<1> USE DEF RowContext, ManagerInv, TypeOK, RunTypeOK, DbTypeOK, ReqTypeOK
<1>1. CASE ResumeLaunch(h)
  <2>1. hid[h] \in Sessions /\ lastRun < MaxRun /\ Launch(hid[h])
    BY <1>1 DEF ResumeLaunch, ResumeReady
  <2>2. /\ lastRun' \in Runs /\ rpc[lastRun'] = "unused"
        /\ rpc'[lastRun'] = "crawl" /\ rsid'[lastRun'] = hid[h]
        /\ \A r \in Runs : r # lastRun' => rpc'[r] = rpc[r] /\ rsid'[r] = rsid[r]
    BY <2>1, LaunchRow
  <2>3. status' = status /\ \A g \in Handlers : g # h => hpc'[g] = hpc[g] /\ hid'[g] = hid[g]
    BY <1>1 DEF ResumeLaunch
  <2>4. ASSUME NEW i \in Sessions, status'[i] = "running"
        PROVE  \/ \E r \in Runs : rsid'[r] = i /\ rpc'[r] \in BeforeWrite
               \/ \E g \in Handlers : hid'[g] = i /\ hpc'[g] = "launch"
    <3>1. CASE i = hid[h]
      BY <2>2, <3>1 DEF BeforeWrite
    <3>2. CASE \E r \in Runs : rsid[r] = i /\ rpc[r] \in BeforeWrite
      BY <2>2, <3>2 DEF BeforeWrite
    <3>3. CASE i # hid[h] /\ \E g \in Handlers : hid[g] = i /\ hpc[g] = "launch"
      BY <2>3, <3>3
    <3> QED BY <2>3, <2>4, <3>1, <3>2, <3>3 DEF RunningIsLive
  <2> QED BY <2>4 DEF RunningIsLive
<1>2. CASE ResumeMark(h)
  <2>1. /\ hpc[h] = "running" /\ hpc' = [hpc EXCEPT ![h] = "launch"] /\ UNCHANGED <<rpc, rsid, hid>>
        /\ status' = UpdateRow(status, hid[h], "running")
    BY <1>2, TxPatient DEF ResumeMark, UpdateSessionStatus, runVars
  <2>2. \A i \in Sessions : status'[i] = "running" => status[i] = "running" \/ i = hid[h]
    BY <2>1 DEF UpdateRow
  <2>3. hpc'[h] = "launch" /\ \A g \in Handlers : hpc[g] = "launch" => hpc'[g] = "launch"
    BY <2>1
  <2> QED BY <2>1, <2>2, <2>3 DEF RunningIsLive
<1>3. CASE ~ResumeLaunch(h) /\ ~ResumeMark(h)
  <2>1. UNCHANGED <<rsid, rpc>>
    BY <1>3 DEF Request, HandlerStep, FormStopCrawl, Resume, FormStop, ClearResumeData, FormList, FormDone,
       FormWait, FormMark, FormReturn, ResumeLoad, ClearSessions, runVars
  <2>2. \A i \in Sessions : status'[i] = "running" => status[i] = "running"
    <3>1. CASE FormMark(h)
      <4>1. PICK i \in Sessions : status' = UpdateRow(status, i, "stopped")
        BY <3>1, TxPatient DEF FormMark, UpdateSessionStatus
      <4> QED BY <4>1 DEF UpdateRow
    <3>2. CASE ClearSessions(h)
      BY <3>2 DEF ClearSessions
    <3>3. CASE ~FormMark(h) /\ ~ClearSessions(h)
      BY <1>3, <3>3 DEF Request, HandlerStep, FormStopCrawl, Resume, FormStop, ClearResumeData, FormList, FormDone,
         FormWait, FormReturn, ResumeLoad, dbVars
    <3> QED BY <3>1, <3>2, <3>3
  <2>3. \A g \in Handlers : hpc[g] = "launch" => hpc'[g] = "launch" /\ hid'[g] = hid[g]
    BY <1>3 DEF Request, HandlerStep, FormStopCrawl, Resume, FormStop, ClearResumeData, FormList, FormDone,
       FormWait, FormMark, FormReturn, ResumeLoad, ClearSessions
  <2> QED BY <2>1, <2>2, <2>3, RunningFrame
<1> QED BY <1>1, <1>2, <1>3

\* ... and so does a start.
LEMMA RunningOther ==
    ASSUME RowContext, RunningIsLive, Other \/ UNCHANGED vars, ~Restart
    PROVE  RunningIsLive'
<1> USE DEF RowContext, ManagerInv, TypeOK, RunTypeOK, DbTypeOK
<1>1. CASE StartCrawl
  <2>1. /\ lastRow + 1 \in Sessions /\ lastRun < MaxRun /\ Launch(lastRow + 1)
        /\ status' = [status EXCEPT ![lastRow + 1] = "running"] /\ UNCHANGED <<hpc, hid>>
    BY <1>1, StartRow
  <2>2. /\ lastRun' \in Runs /\ rpc[lastRun'] = "unused"
        /\ rpc'[lastRun'] = "crawl" /\ rsid'[lastRun'] = lastRow + 1
        /\ \A r \in Runs : r # lastRun' => rpc'[r] = rpc[r] /\ rsid'[r] = rsid[r]
    BY <2>1, LaunchRow
  <2>3. \A i \in Sessions : status'[i] = "running" => status[i] = "running" \/ i = lastRow + 1
    BY <2>1
  <2>4. rpc'[lastRun'] \in BeforeWrite /\ rpc[lastRun'] \notin BeforeWrite
    BY <2>2 DEF BeforeWrite
  <2>5. ASSUME NEW i \in Sessions, status'[i] = "running"
        PROVE  \/ \E r \in Runs : rsid'[r] = i /\ rpc'[r] \in BeforeWrite
               \/ \E g \in Handlers : hid'[g] = i /\ hpc'[g] = "launch"
    <3>1. CASE i = lastRow + 1
      BY <2>2, <2>4, <3>1
    <3>2. CASE \E r \in Runs : rsid[r] = i /\ rpc[r] \in BeforeWrite
      BY <2>2, <2>4, <3>2
    <3>3. CASE \E g \in Handlers : hid[g] = i /\ hpc[g] = "launch"
      BY <2>1, <3>3
    <3> QED BY <2>3, <2>5, <3>1, <3>2, <3>3 DEF RunningIsLive
  <2> QED BY <2>5 DEF RunningIsLive
<1>2. ~StartCrawlLocal
  BY DEF StartCrawlLocal, Patient
<1>3. CASE (\E i \in Sessions : StopCrawlByID(i)) \/ StopCrawl \/ Shutdown \/ UNCHANGED vars
  <2>1. UNCHANGED <<rsid, rpc, status, hpc, hid>>
    BY <1>3 DEF StopCrawlByID, StopCrawl, Shutdown, vars, dbVars, runVars, reqVars
  <2> QED BY <2>1 DEF RunningIsLive
<1> QED BY <1>1, <1>2, <1>3 DEF Other

-----------------------------------------------------------------------------
(* The saved count is reset *)

\* A step that resets counts, takes no row away without that and lets no crawl
\* begin without it.
LEMMA ResetFrame ==
    ASSUME RowContext, CountReset,
           \A i \in Sessions : saved'[i] = saved[i] \/ saved'[i] = 0,
           \A i \in Sessions : status'[i] = "none" => status[i] = "none" \/ saved'[i] = 0,
           \A r \in Runs : rpc'[r] \in Unsettled => \/ rpc[r] \in Unsettled /\ rsid'[r] = rsid[r]
                                                    \/ saved'[rsid'[r]] = 0
    PROVE  CountReset'
<1>1. \A r \in Runs : rpc[r] \in Unsettled => rsid[r] \in Sessions
  BY DEF RowContext, ManagerInv, Launched, Unsettled, BeforeWrite
<1> QED BY <1>1 DEF CountReset

\* A crawl counts what it leaves once, at its end, ...
LEMMA ResetRun ==
    ASSUME RowContext, CountReset, NEW r \in Runs, CrawlStep(r) \/ FinishStep(r) \/ UpdaterStep(r)
    PROVE  CountReset'
<1> USE DEF RowContext, ManagerInv, TypeOK, RunTypeOK, DbTypeOK
<1>1. CASE FinishCount(r)
  <2>1. /\ rpc[r] = "count" /\ rpc' = [rpc EXCEPT ![r] = "delete"] /\ UNCHANGED <<rsid, status>>
        /\ saved' = IF queue[rsid[r]] > 0 THEN UpdateRow(saved, rsid[r], queue[rsid[r]]) ELSE saved
    BY <1>1, TxPatient DEF FinishCount
  <2>2. \A i \in Sessions : i # rsid[r] \/ status[i] = "none" => saved'[i] = saved[i]
    BY <2>1 DEF UpdateRow
  <2>3. ASSUME NEW q \in Runs, rpc'[q] \in Unsettled PROVE saved'[rsid'[q]] = 0
    <3>1. q # r /\ rpc[q] \in Unsettled
      BY <2>1, <2>3 DEF Unsettled, BeforeWrite
    <3>2. rsid[q] # rsid[r]
      BY <2>1, <3>1, OneCrawl DEF Unsettled, Live
    <3>3. rsid[q] \in Sessions
      BY <3>1 DEF Launched, Unsettled, BeforeWrite
    <3> QED BY <2>1, <2>2, <3>1, <3>2, <3>3 DEF CountReset
  <2> QED BY <2>1, <2>2, <2>3 DEF CountReset
<1>2. CASE FinishWrite(r)
  <2>1. /\ rpc[r] = "write" /\ rpc' = [rpc EXCEPT ![r] = IF rstatus[r] = "stopped" THEN "count" ELSE "delete"]
        /\ status' = UpdateRow(status, rsid[r], rstatus[r]) /\ UNCHANGED <<rsid, saved>>
    BY <1>2 DEF FinishWrite, Patient
  <2>2. saved[rsid[r]] = 0
    BY <2>1 DEF CountReset, Unsettled, BeforeWrite
  <2>3. \A i \in Sessions : status'[i] = "none" => status[i] = "none" \/ saved'[i] = 0
    BY <2>1, <2>2 DEF UpdateRow
  <2>4. \A q \in Runs : rpc'[q] \in Unsettled => rpc[q] \in Unsettled
    BY <2>1 DEF Unsettled, BeforeWrite
  <2> QED BY <2>1, <2>3, <2>4, ResetFrame
<1>3. CASE ~FinishCount(r) /\ ~FinishWrite(r)
  <2>1. UNCHANGED <<saved, status, rsid>>
    BY <1>3 DEF CrawlStep, FinishStep, UpdaterStep, CrawlIndex, CrawlSavePostings, CrawlAppendPData, CrawlEnd,
       CrawlReturn, FinishLook, FinishSnap, RunDelete, RunClose, UpdaterTick, UpdaterExit, dbVars, runVars
  <2>2. \A q \in Runs : rpc'[q] \in Unsettled => rpc[q] \in Unsettled
    BY <1>3 DEF CrawlStep, FinishStep, UpdaterStep, CrawlIndex, CrawlSavePostings, CrawlAppendPData, CrawlEnd,
       CrawlReturn, FinishLook, FinishSnap, RunDelete, RunClose, UpdaterTick, UpdaterExit, runVars,
       Unsettled, BeforeWrite
  <2> QED BY <2>1, <2>2, ResetFrame
<1> QED BY <1>1, <1>2, <1>3

\* ... a resume resets the count before it launches, ...
LEMMA ResetHandler ==
    ASSUME RowContext, CountReset, NEW h \in Handlers, Request(h) \/ HandlerStep(h)
    PROVE  CountReset'
<1> USE DEF RowContext, ManagerInv, TypeOK, RunTypeOK, DbTypeOK
<1>1. CASE ResumeLaunch(h)
  <2>1. hid[h] \in Sessions /\ lastRun < MaxRun /\ Launch(hid[h])
    BY <1>1 DEF ResumeLaunch, ResumeReady
  <2>2. /\ lastRun' \in Runs /\ rsid'[lastRun'] = hid[h]
        /\ \A r \in Runs : r # lastRun' => rpc'[r] = rpc[r] /\ rsid'[r] = rsid[r]
    BY <2>1, LaunchRow
  <2>3. status' = status /\ saved' = UpdateRow(saved, hid[h], 0)
    BY <1>1, TxPatient DEF ResumeLaunch
  <2>4. saved'[hid[h]] = 0 /\ \A i \in Sessions : saved'[i] = saved[i] \/ saved'[i] = 0
    BY <2>1, <2>3 DEF UpdateRow, CountReset
  <2> QED BY <2>2, <2>3, <2>4, ResetFrame
<1>2. CASE ~ResumeLaunch(h)
  <2>1. UNCHANGED <<rsid, rpc>>
    BY <1>2 DEF Request, HandlerStep, FormStopCrawl, Resume, FormStop, ClearResumeData, FormList, FormDone,
       FormWait, FormMark, FormReturn, ResumeLoad, ResumeMark, ClearSessions, runVars
  <2>2. CASE ClearSessions(h)
    BY <2>1, <2>2, ResetFrame DEF ClearSessions, Patient
  <2>3. CASE FormMark(h) \/ ResumeMark(h)
    <3>1. saved' = saved /\ \E i, s : s # "none" /\ status' = UpdateRow(status, i, s)
      BY <2>3, TxPatient DEF FormMark, ResumeMark, UpdateSessionStatus
    <3>2. \A i \in Sessions : status'[i] = "none" => status[i] = "none"
      BY <3>1 DEF UpdateRow
    <3> QED BY <2>1, <3>1, <3>2, ResetFrame
  <2>4. CASE ~ClearSessions(h) /\ ~FormMark(h) /\ ~ResumeMark(h)
    <3>1. UNCHANGED <<saved, status>>
      BY <1>2, <2>4 DEF Request, HandlerStep, FormStopCrawl, Resume, FormStop, ClearResumeData, FormList, FormDone,
         FormWait, FormReturn, ResumeLoad, dbVars
    <3> QED BY <2>1, <3>1, ResetFrame
  <2> QED BY <2>2, <2>3, <2>4
<1> QED BY <1>1, <1>2

\* ... and a new row begins with zero.
LEMMA ResetOther ==
    ASSUME RowContext, CountReset, Other \/ UNCHANGED vars, ~Restart
    PROVE  CountReset'
<1> USE DEF RowContext, ManagerInv, TypeOK, RunTypeOK, DbTypeOK
<1>1. CASE StartCrawl
  <2>1. /\ lastRow + 1 \in Sessions /\ lastRun < MaxRun /\ Launch(lastRow + 1) /\ saved' = saved
        /\ status' = [status EXCEPT ![lastRow + 1] = "running"] /\ status[lastRow + 1] = "none"
    BY <1>1, StartRow
  <2>2. /\ lastRun' \in Runs /\ rsid'[lastRun'] = lastRow + 1
        /\ \A r \in Runs : r # lastRun' => rpc'[r] = rpc[r] /\ rsid'[r] = rsid[r]
    BY <2>1, LaunchRow
  <2>3. saved[lastRow + 1] = 0 /\ \A i \in Sessions : status'[i] = "none" => status[i] = "none"
    BY <2>1 DEF CountReset
  <2> QED BY <2>1, <2>2, <2>3, ResetFrame
<1>2. ~StartCrawlLocal
  BY DEF StartCrawlLocal, Patient
<1>3. CASE (\E i \in Sessions : StopCrawlByID(i)) \/ StopCrawl \/ Shutdown \/ UNCHANGED vars
  <2>1. UNCHANGED <<rsid, rpc, status, saved>>
    BY <1>3 DEF StopCrawlByID, StopCrawl, Shutdown, vars, dbVars, runVars
  <2> QED BY <2>1, ResetFrame
<1> QED BY <1>1, <1>2, <1>3 DEF Other

-----------------------------------------------------------------------------
(* What a crawl leaves behind *)

\* A step that leaves run r alone but may cancel it.
LEMMA LeftoverFrame ==
    ASSUME NEW CONSTANT r \in Runs, Leftover(r),
           rpc'[r] = rpc[r], rsid'[r] = rsid[r], rseen'[r] = rseen[r], reason'[r] = reason[r],
           rstatus'[r] = rstatus[r], rcancel[r] => rcancel'[r],
           rpc[r] \in {"ending", "look", "snap", "write"} =>
               queue'[rsid[r]] = queue[rsid[r]] \/ queue'[rsid[r]] = 0
    PROVE  Leftover(r)'
<1>1. ~(0 > 0)
  OBVIOUS
<1> QED BY <1>1 DEF Leftover

\* The tasks of a session are left by its one crawl, whose own metrics
\* finishSession looks at.
LEMMA LeftoverRun ==
    ASSUME RowContext, LeftoverStopped, NEW r \in Runs, CrawlStep(r) \/ FinishStep(r) \/ UpdaterStep(r)
    PROVE  LeftoverStopped'
<1> USE DEF RowContext, ManagerInv, TypeOK, RunTypeOK, DbTypeOK
<1>1. rsid' = rsid /\ rcancel' = rcancel
  BY DEF CrawlStep, FinishStep, UpdaterStep, CrawlIndex, CrawlSavePostings, CrawlAppendPData, CrawlEnd,
     CrawlReturn, FinishLook, FinishSnap, FinishWrite, FinishCount, RunDelete, RunClose, UpdaterTick, UpdaterExit, runVars
<1>2. ASSUME NEW CONSTANT q \in Runs, q # r PROVE Leftover(q)'
  <2>1. rpc'[q] = rpc[q] /\ rseen'[q] = rseen[q] /\ reason'[q] = reason[q] /\ rstatus'[q] = rstatus[q]
    BY <1>2 DEF CrawlStep, FinishStep, UpdaterStep, CrawlIndex, CrawlSavePostings, CrawlAppendPData, CrawlEnd,
       CrawlReturn, FinishLook, FinishSnap, FinishWrite, FinishCount, RunDelete, RunClose, UpdaterTick, UpdaterExit, runVars
  <2>2. ASSUME rpc[q] \in {"ending", "look", "snap", "write"} PROVE queue'[rsid[q]] = queue[rsid[q]]
    <3>1. CASE CrawlEnd(r)
      <4>1. rpc[r] = "crawl" /\ \E n : queue' = [queue EXCEPT ![rsid[r]] = n]
        BY <3>1 DEF CrawlEnd, Tx, Patient
      <4>2. rsid[q] # rsid[r] /\ rsid[q] \in Sessions
        BY <1>2, <2>2, <4>1, OneCrawl DEF Live, BeforeWrite, Launched
      <4> QED BY <4>1, <4>2
    <3>2. CASE ~CrawlEnd(r)
      BY <3>2 DEF CrawlStep, FinishStep, UpdaterStep, CrawlIndex, CrawlSavePostings, CrawlAppendPData,
         CrawlReturn, FinishLook, FinishSnap, FinishWrite, FinishCount, RunDelete, RunClose, UpdaterTick, UpdaterExit, dbVars
    <3> QED BY <3>1, <3>2
  <2> QED BY <1>1, <2>1, <2>2, LeftoverFrame DEF LeftoverStopped
<1>3. Leftover(r)'
  <2>1. Leftover(r)
    BY DEF LeftoverStopped
  <2>2. CASE CrawlEnd(r)
    <3>1. /\ rpc'[r] = "ending" /\ rpc[r] = "crawl"
          /\ \E n \in {0, 1} : (n = 1 => rcancel[r]) /\ queue' = [queue EXCEPT ![rsid[r]] = n]
      BY <2>2 DEF CrawlEnd, Tx, Patient
    <3>2. rsid[r] \in Sessions
      BY <3>1 DEF Launched
    <3>3. queue'[rsid[r]] > 0 => rcancel[r]
      BY <3>1, <3>2
    <3> QED BY <1>1, <3>1, <3>3 DEF Leftover
  <2>3. CASE CrawlReturn(r)
    BY <1>1, <2>1, <2>3 DEF CrawlReturn, Leftover, dbVars
  <2>4. CASE FinishLook(r)
    <3>1. crawls[rsid[r]] = r
      BY <2>4 DEF FinishLook, LiveIsRegistered, Live, BeforeWrite
    <3> QED BY <1>1, <2>1, <2>4, <3>1 DEF FinishLook, Leftover, dbVars
  <2>5. CASE FinishSnap(r)
    BY <1>1, <2>1, <2>5 DEF FinishSnap, Leftover, dbVars
  <2>6. CASE FinishWrite(r) \/ FinishCount(r) \/ RunDelete(r) \/ RunClose(r)
    <3>1. rpc'[r] \in {"count", "delete", "close", "closed"}
      BY <2>6 DEF FinishWrite, FinishCount, RunDelete, RunClose
    <3> QED BY <3>1 DEF Leftover
  <2>7. CASE CrawlIndex(r) \/ CrawlSavePostings(r) \/ CrawlAppendPData(r) \/ UpdaterStep(r)
    <3>1. UNCHANGED <<rpc, rseen, reason, rstatus, queue>>
      BY <2>7 DEF CrawlIndex, CrawlSavePostings, CrawlAppendPData, UpdaterStep, UpdaterTick, UpdaterExit, dbVars, runVars
    <3> QED BY <1>1, <2>1, <3>1, LeftoverFrame
  <2> QED BY <2>2, <2>3, <2>4, <2>5, <2>6, <2>7 DEF CrawlStep, FinishStep
<1> QED BY <1>2, <1>3 DEF LeftoverStopped

\* Requests and the process only cancel, clear and launch.
LEMMA LeftoverRest ==
    ASSUME RowContext, LeftoverStopped, ~Restart,
           (\E h \in Handlers : Request(h) \/ HandlerStep(h)) \/ Other \/ UNCHANGED vars
    PROVE  LeftoverStopped'
<1> USE DEF RowContext, ManagerInv, TypeOK, RunTypeOK, DbTypeOK
<1>1. ~StartCrawlLocal
  BY DEF StartCrawlLocal, Patient
<1>2. ASSUME NEW i \in Sessions, lastRun < MaxRun, Launch(i), queue' = queue PROVE LeftoverStopped'
  <2>1. /\ lastRun' \in Runs /\ rpc'[lastRun'] = "crawl" /\ UNCHANGED <<reason, rseen, rstatus>>
        /\ \A r \in Runs : r # lastRun' => rpc'[r] = rpc[r] /\ rsid'[r] = rsid[r]
    BY <1>2, LaunchRow
  <2>2. \A r \in Runs : r # lastRun' => rcancel'[r] = rcancel[r]
    BY <1>2, <2>1 DEF Launch
  <2>3. ASSUME NEW CONSTANT r \in Runs PROVE Leftover(r)'
    <3>1. CASE r = lastRun'
      BY <2>1, <3>1 DEF Leftover
    <3>2. CASE r # lastRun'
      BY <1>2, <2>1, <2>2, <3>2, LeftoverFrame DEF LeftoverStopped
    <3> QED BY <3>1, <3>2
  <2> QED BY <2>3 DEF LeftoverStopped
<1>3. CASE StartCrawl
  BY <1>2, <1>3, StartRow
<1>4. ASSUME NEW h \in Handlers, ResumeLaunch(h) PROVE LeftoverStopped'
  BY <1>2, <1>4 DEF ResumeLaunch, ResumeReady
<1>5. ASSUME UNCHANGED <<rpc, rsid, rseen, reason, rstatus>>, \A r \in Runs : rcancel[r] => rcancel'[r],
             \A i \in Sessions : queue'[i] = queue[i] \/ queue'[i] = 0
      PROVE  LeftoverStopped'
  <2>1. ASSUME NEW CONSTANT r \in Runs PROVE Leftover(r)'
    <3>1. rpc[r] \in {"ending", "look", "snap", "write"} => rsid[r] \in Sessions
      BY DEF Launched
    <3> QED BY <1>5, <3>1, LeftoverFrame DEF LeftoverStopped
  <2> QED BY <2>1 DEF LeftoverStopped
<1>6. ASSUME NEW h \in Handlers, Request(h) \/ HandlerStep(h), ~ResumeLaunch(h) PROVE LeftoverStopped'
  <2>1. UNCHANGED <<rpc, rsid, rseen, reason, rstatus>>
    BY <1>6 DEF Request, HandlerStep, FormStopCrawl, Resume, FormStop, ClearResumeData, FormList, FormDone,
       FormWait, FormMark, FormReturn, ResumeLoad, ResumeMark, ClearSessions, runVars
  <2>2. \A r \in Runs : rcancel[r] => rcancel'[r]
    BY <1>6 DEF Request, HandlerStep, FormStopCrawl, Resume, FormStop, ClearResumeData, FormList, FormDone,
       FormWait, FormMark, FormReturn, ResumeLoad, ResumeMark, ClearSessions, Cancelled, runVars
  <2>3. \A i \in Sessions : queue'[i] = queue[i] \/ queue'[i] = 0
    <3>1. CASE ClearResumeData(h)
      BY <3>1 DEF ClearResumeData, Tx, Patient
    <3>2. CASE ~ClearResumeData(h)
      BY <1>6, <3>2 DEF Request, HandlerStep, FormStopCrawl, Resume, FormStop, FormList, FormDone,
         FormWait, FormMark, FormReturn, ResumeLoad, ResumeMark, ClearSessions, dbVars
    <3> QED BY <3>1, <3>2
  <2> QED BY <1>5, <2>1, <2>2, <2>3
<1>7. CASE (\E i \in Sessions : StopCrawlByID(i)) \/ StopCrawl \/ Shutdown \/ UNCHANGED vars
  <2>1. UNCHANGED <<rpc, rsid, rseen, reason, rstatus, queue>>
    BY <1>7 DEF StopCrawlByID, StopCrawl, Shutdown, vars, dbVars, runVars
  <2>2. \A r \in Runs : rcancel[r] => rcancel'[r]
    BY <1>7 DEF StopCrawlByID, StopCrawl, Shutdown, Cancelled, vars, runVars
  <2> QED BY <1>5, <2>1, <2>2
<1> QED BY <1>1, <1>3, <1>4, <1>6, <1>7 DEF Other

-----------------------------------------------------------------------------
(* The saved count is right *)

\* A step that leaves session i alone.
LEMMA RightFrame ==
    ASSUME NEW CONSTANT i \in Sessions, CountRightOf(i), NoClear' => NoClear,
           status'[i] \in {"stopped", "completed"} => status[i] \in {"stopped", "completed"},
           queue'[i] = queue[i], saved'[i] = saved[i], Settled(i)' => Settled(i)
    PROVE  CountRightOf(i)'
BY DEF CountRightOf

\* The last write of a crawl brings row and queue together.
LEMMA RightRun ==
    ASSUME RowContext, CountReset, LeftoverStopped, CountRight,
           NEW r \in Runs, CrawlStep(r) \/ FinishStep(r) \/ UpdaterStep(r), NEW CONSTANT i \in Sessions
    PROVE  CountRightOf(i)'
<1> USE DEF RowContext, ManagerInv, TypeOK, RunTypeOK, DbTypeOK
<1>1. UNCHANGED <<rsid, hpc, hid>> /\ \A q \in Runs : q # r => rpc'[q] = rpc[q]
  BY DEF CrawlStep, FinishStep, UpdaterStep, CrawlIndex, CrawlSavePostings, CrawlAppendPData, CrawlEnd, CrawlReturn,
     FinishLook, FinishSnap, FinishWrite, FinishCount, RunDelete, RunClose, UpdaterTick, UpdaterExit, runVars, reqVars
<1>2. CountRightOf(i) /\ NoClear' = NoClear
  BY <1>1 DEF CountRight, NoClear
<1>3. rpc[r] \in Unsettled => rsid[r] \in Sessions /\ saved[rsid[r]] = 0
  BY DEF CountReset, Launched, Unsettled, BeforeWrite
<1>4. CASE FinishWrite(r)
  <2>1. /\ rpc[r] = "write" /\ rpc' = [rpc EXCEPT ![r] = IF rstatus[r] = "stopped" THEN "count" ELSE "delete"]
        /\ status' = UpdateRow(status, rsid[r], rstatus[r]) /\ UNCHANGED <<saved, queue>>
    BY <1>4 DEF FinishWrite, Patient
  <2>2. CASE i = rsid[r]
    <3>1. CASE rstatus[r] = "stopped"
      <4>1. rpc'[r] \in Unsettled
        BY <2>1, <3>1 DEF Unsettled
      <4>2. ~Settled(i)'
        BY <1>1, <2>2, <4>1 DEF Settled
      <4> QED BY <4>2 DEF CountRightOf
    <3>2. CASE rstatus[r] # "stopped"
      <4>1. ~(queue[i] > 0)
        BY <2>1, <2>2, <3>2 DEF LeftoverStopped, Leftover
      <4>2. queue[i] = 0 /\ saved[i] = 0
        BY <1>3, <2>1, <2>2, <4>1 DEF Unsettled, BeforeWrite
      <4> QED BY <2>1, <4>2 DEF CountRightOf
    <3> QED BY <3>1, <3>2
  <2>3. CASE i # rsid[r]
    <3>1. status'[i] = status[i]
      BY <2>1, <2>3 DEF UpdateRow
    <3>2. Settled(i)' => Settled(i)
      BY <1>1, <2>3 DEF Settled
    <3> QED BY <1>2, <2>1, <3>1, <3>2, RightFrame
  <2> QED BY <2>2, <2>3
<1>5. CASE FinishCount(r)
  <2>1. /\ rpc[r] = "count" /\ UNCHANGED <<status, queue>>
        /\ saved' = IF queue[rsid[r]] > 0 THEN UpdateRow(saved, rsid[r], queue[rsid[r]]) ELSE saved
    BY <1>5, TxPatient DEF FinishCount
  <2>2. CASE i = rsid[r]
    <3>1. saved[i] = 0
      BY <1>3, <2>1, <2>2 DEF Unsettled
    <3>2. CASE status[i] = "none"
      BY <2>1, <3>2 DEF CountRightOf
    <3>3. CASE status[i] # "none" /\ queue[i] > 0
      <4>1. saved' = [saved EXCEPT ![i] = queue[i]]
        BY <2>1, <2>2, <3>3 DEF UpdateRow
      <4>2. saved'[i] = queue'[i]
        BY <2>1, <4>1
      <4> QED BY <4>2 DEF CountRightOf
    <3>4. CASE ~(queue[i] > 0)
      <4>1. queue[i] = 0
        BY <3>4
      <4>2. saved'[i] = 0 /\ queue'[i] = 0
        BY <2>1, <2>2, <3>1, <3>4, <4>1
      <4> QED BY <4>2 DEF CountRightOf
    <3> QED BY <3>2, <3>3, <3>4
  <2>3. CASE i # rsid[r]
    <3>1. saved'[i] = saved[i]
      BY <2>1, <2>3 DEF UpdateRow
    <3>2. Settled(i)' => Settled(i)
      BY <1>1, <2>3 DEF Settled
    <3> QED BY <1>2, <2>1, <3>1, <3>2, RightFrame
  <2> QED BY <2>2, <2>3
<1>6. CASE ~FinishWrite(r) /\ ~FinishCount(r)
  <2>1. UNCHANGED <<status, saved>>
    BY <1>6 DEF CrawlStep, FinishStep, UpdaterStep, CrawlIndex, CrawlSavePostings, CrawlAppendPData, CrawlEnd,
       CrawlReturn, FinishLook, FinishSnap, RunDelete, RunClose, UpdaterTick, UpdaterExit, dbVars
  <2>2. CASE i = rsid[r] /\ rpc[r] \in Unsettled
    <3>1. FinishLook(r) => crawls[rsid[r]] # NoRun
      BY RunsCount DEF FinishLook, LiveIsRegistered, Live, BeforeWrite
    <3>2. rpc'[r] \in Unsettled
      BY <1>6, <2>2, <3>1 DEF CrawlStep, FinishStep, UpdaterStep, CrawlIndex, CrawlSavePostings, CrawlAppendPData,
         CrawlEnd, CrawlReturn, FinishLook, FinishSnap, RunDelete, RunClose, UpdaterTick, UpdaterExit, runVars,
         Unsettled, BeforeWrite
    <3>3. ~Settled(i)'
      BY <1>1, <2>2, <3>2 DEF Settled
    <3> QED BY <3>3 DEF CountRightOf
  <2>3. CASE i # rsid[r] \/ rpc[r] \notin Unsettled
    <3>1. Settled(i)' => Settled(i)
      BY <1>1, <2>3 DEF Settled
    <3>2. queue'[i] = queue[i]
      <4>1. CASE CrawlEnd(r)
        <5>1. i # rsid[r] /\ \E n : queue' = [queue EXCEPT ![rsid[r]] = n]
          BY <2>3, <4>1 DEF CrawlEnd, Tx, Patient, Unsettled, BeforeWrite
        <5> QED BY <5>1
      <4>2. CASE ~CrawlEnd(r)
        BY <1>6, <4>2 DEF CrawlStep, FinishStep, UpdaterStep, CrawlIndex, CrawlSavePostings, CrawlAppendPData,
           CrawlReturn, FinishLook, FinishSnap, RunDelete, RunClose, UpdaterTick, UpdaterExit, dbVars
      <4> QED BY <4>1, <4>2
    <3> QED BY <1>2, <2>1, <3>1, <3>2, RightFrame
  <2> QED BY <2>2, <2>3
<1> QED BY <1>4, <1>5, <1>6

\* A request may mark, clear and resume sessions; whatever it does to one that
\* is settled keeps row and queue together.
LEMMA RightHandler ==
    ASSUME RowContext, RunningIsLive, CountReset, CountRight,
           NEW h \in Handlers, Request(h) \/ HandlerStep(h), NEW CONSTANT i \in Sessions
    PROVE  CountRightOf(i)'
<1> USE DEF RowContext, ManagerInv, TypeOK, RunTypeOK, DbTypeOK, ReqTypeOK
<1>1. CountRightOf(i)
  BY DEF CountRight
<1>2. CASE ClearResumeData(h)
  <2>1. hpc'[h] = "clear"
    BY <1>2 DEF ClearResumeData
  <2> QED BY <2>1 DEF CountRightOf, NoClear
<1>3. CASE ClearSessions(h)
  <2>1. status'[i] \notin {"stopped", "completed"}
    <3>1. status' = [j \in Sessions |-> IF j \in Finished THEN "none" ELSE status[j]]
      BY <1>3 DEF ClearSessions, Patient
    <3>2. status[i] \in {"none", "running"} \/ i \in Finished
      BY DEF Finished, Statuses
    <3> QED BY <3>1, <3>2
  <2> QED BY <2>1 DEF CountRightOf
<1>4. CASE ResumeLaunch(h)
  <2>1. /\ hid[h] \in Sessions /\ lastRun < MaxRun /\ Launch(hid[h]) /\ UNCHANGED <<status, queue>>
        /\ saved' = UpdateRow(saved, hid[h], 0) /\ hpc[h] = "launch" /\ hpc'[h] = "idle"
        /\ \A g \in Handlers : g # h => hpc'[g] = hpc[g] /\ hid'[g] = hid[g]
    BY <1>4, TxPatient DEF ResumeLaunch, ResumeReady
  <2>2. /\ lastRun' \in Runs /\ rsid'[lastRun'] = hid[h] /\ rpc'[lastRun'] = "crawl" /\ rpc[lastRun'] = "unused"
        /\ \A r \in Runs : r # lastRun' => rpc'[r] = rpc[r] /\ rsid'[r] = rsid[r]
    BY <2>1, LaunchRow
  <2>3. CASE i = hid[h]
    <3>1. ~Settled(i)'
      BY <2>2, <2>3 DEF Settled, Unsettled, BeforeWrite
    <3> QED BY <3>1 DEF CountRightOf
  <2>4. CASE i # hid[h]
    <3>1. saved'[i] = saved[i]
      BY <2>1, <2>4 DEF UpdateRow
    <3>2. ASSUME Settled(i)' PROVE Settled(i)
      <4>1. \A r \in Runs : rsid[r] = i => rpc[r] \notin Unsettled
        BY <2>2, <3>2 DEF Settled, Unsettled, BeforeWrite
      <4>2. \A g \in Handlers : hid[g] = i => hpc[g] \notin {"running", "launch"}
        BY <2>1, <2>4, <3>2 DEF Settled
      <4> QED BY <4>1, <4>2 DEF Settled
    <3>3. NoClear' => NoClear
      BY <2>1 DEF NoClear
    <3> QED BY <1>1, <2>1, <3>1, <3>2, <3>3, RightFrame
  <2> QED BY <2>3, <2>4
<1>5. CASE FormMark(h)
  <2>1. UNCHANGED <<rpc, rsid, hpc, hid, saved, queue>>
    BY <1>5 DEF FormMark, runVars
  <2>2. Settled(i)' = Settled(i) /\ NoClear' = NoClear
    BY <2>1 DEF Settled, NoClear
  <2>3. PICK j \in Sessions : status' = UpdateRow(status, j, "stopped")
    BY <1>5, TxPatient DEF FormMark, UpdateSessionStatus
  <2>4. CASE status[i] = "running"
    <3>1. ~Settled(i)
      BY <2>4 DEF RunningIsLive, Settled, Unsettled
    <3> QED BY <2>2, <3>1 DEF CountRightOf
  <2>5. CASE status[i] # "running"
    <3>1. status'[i] \in {"stopped", "completed"} => status[i] \in {"stopped", "completed"}
      BY <2>3, <2>5 DEF UpdateRow, Statuses
    <3> QED BY <1>1, <2>1, <2>2, <3>1, RightFrame
  <2> QED BY <2>4, <2>5
<1>6. CASE ResumeMark(h)
  <2>1. /\ UNCHANGED <<rpc, rsid, hid, saved, queue>> /\ hpc' = [hpc EXCEPT ![h] = "launch"]
        /\ status' = UpdateRow(status, hid[h], "running") /\ hpc[h] = "running"
    BY <1>6, TxPatient DEF ResumeMark, UpdateSessionStatus, runVars
  <2>2. CASE i = hid[h]
    <3>1. ~Settled(i)'
      BY <2>1, <2>2 DEF Settled
    <3> QED BY <3>1 DEF CountRightOf
  <2>3. CASE i # hid[h]
    <3>1. status'[i] = status[i]
      BY <2>1, <2>3 DEF UpdateRow
    <3>2. (Settled(i)' => Settled(i)) /\ (NoClear' => NoClear)
      BY <2>1, <2>3 DEF Settled, NoClear
    <3> QED BY <1>1, <2>1, <3>1, <3>2, RightFrame
  <2> QED BY <2>2, <2>3
<1>7. CASE ~ClearResumeData(h) /\ ~ClearSessions(h) /\ ~ResumeLaunch(h) /\ ~FormMark(h) /\ ~ResumeMark(h)
  <2>1. UNCHANGED <<rpc, rsid, status, saved, queue>>
    BY <1>7 DEF Request, HandlerStep, FormStopCrawl, Resume, FormStop, FormList, FormDone, FormWait, FormReturn,
       ResumeLoad, dbVars, runVars
  <2>2. /\ hpc[h] \notin {"running", "launch", "clear"}
        /\ \A g \in Handlers : g # h => hpc'[g] = hpc[g] /\ hid'[g] = hid[g]
    BY <1>7 DEF Request, HandlerStep, FormStopCrawl, Resume, FormStop, FormList, FormDone, FormWait, FormReturn,
       ResumeLoad
  <2>3. (Settled(i)' => Settled(i)) /\ (NoClear' => NoClear)
    BY <2>1, <2>2 DEF Settled, NoClear
  <2> QED BY <1>1, <2>1, <2>3, RightFrame
<1> QED BY <1>2, <1>3, <1>4, <1>5, <1>6, <1>7

\* A new session is not settled before its crawl ends.
LEMMA RightOther ==
    ASSUME RowContext, CountRight, Other \/ UNCHANGED vars, ~Restart, NEW CONSTANT i \in Sessions
    PROVE  CountRightOf(i)'
<1> USE DEF RowContext, ManagerInv, TypeOK, RunTypeOK, DbTypeOK
<1>1. CountRightOf(i)
  BY DEF CountRight
<1>2. CASE StartCrawl
  <2>1. /\ lastRow + 1 \in Sessions /\ lastRun < MaxRun /\ Launch(lastRow + 1)
        /\ status' = [status EXCEPT ![lastRow + 1] = "running"] /\ UNCHANGED <<hpc, hid, saved, queue>>
    BY <1>2, StartRow
  <2>2. /\ lastRun' \in Runs /\ rpc[lastRun'] = "unused"
        /\ \A r \in Runs : r # lastRun' => rpc'[r] = rpc[r] /\ rsid'[r] = rsid[r]
    BY <2>1, LaunchRow
  <2>3. status'[i] \in {"stopped", "completed"} => status[i] \in {"stopped", "completed"}
    BY <2>1
  <2>4. Settled(i)' => Settled(i)
    BY <2>1, <2>2 DEF Settled, Unsettled, BeforeWrite
  <2>5. NoClear' => NoClear
    BY <2>1 DEF NoClear
  <2> QED BY <1>1, <2>1, <2>3, <2>4, <2>5, RightFrame
<1>3. ~StartCrawlLocal
  BY DEF StartCrawlLocal, Patient
<1>4. CASE (\E j \in Sessions : StopCrawlByID(j)) \/ StopCrawl \/ Shutdown \/ UNCHANGED vars
  <2>1. UNCHANGED <<rpc, rsid, hpc, hid, status, saved, queue>>
    BY <1>4 DEF StopCrawlByID, StopCrawl, Shutdown, vars, dbVars, runVars, reqVars
  <2>2. (Settled(i)' => Settled(i)) /\ (NoClear' => NoClear)
    BY <2>1 DEF Settled, NoClear
  <2> QED BY <1>1, <2>1, <2>2, RightFrame
<1> QED BY <1>2, <1>3, <1>4 DEF Other

-----------------------------------------------------------------------------
(* Theorems *)

\* In a process that has not been restarted, with patient users and no failing
\* statement, the rows are true.
RecordAlways == Patient /\ restarts = 0 => RecordInv

\* Every step of the process keeps the rows true.
LEMMA RecordStep == ManagerInv /\ PatientInv /\ RecordAlways /\ [Next]_vars => RecordAlways'
<1> SUFFICES ASSUME ManagerInv, PatientInv, RecordAlways, [Next]_vars, Patient, restarts' = 0
             PROVE  RecordInv'
  BY DEF RecordAlways, Patient
<1>1. ~Restart
  BY ManagerAssumption DEF Restart, ManagerInv, TypeOK, DocTypeOK
<1>2. restarts = 0
  <2>1. Restart \/ restarts' = restarts
    BY DEF Next, StartCrawl, StartCrawlLocal, StopCrawlByID, StopCrawl, Shutdown, CrawlStep, FinishStep, UpdaterStep,
       CrawlIndex, CrawlSavePostings, CrawlAppendPData, CrawlEnd, CrawlReturn, FinishLook, FinishSnap, FinishWrite,
       FinishCount, RunDelete, RunClose, UpdaterTick, UpdaterExit, Request, HandlerStep, FormStopCrawl, Resume,
       FormStop, ClearResumeData, FormList, FormDone, FormWait, FormMark, FormReturn, ResumeLoad, ResumeMark,
       ResumeLaunch, ClearSessions, vars
  <2> QED BY <1>1, <2>1
<1>3. RowContext /\ RunningIsLive /\ CountReset /\ LeftoverStopped /\ CountRight
  BY <1>2 DEF RecordAlways, RecordInv, PatientInv, RowContext
<1>4. RowContext'
  BY ManagerStep, PatientStep DEF RowContext, PatientInv, Patient
<1>5. \/ \E r \in Runs : CrawlStep(r) \/ FinishStep(r) \/ UpdaterStep(r)
      \/ \E h \in Handlers : Request(h) \/ HandlerStep(h)
      \/ Other \/ UNCHANGED vars
  BY DEF Next, Other
<1>6. RunningIsLive'
  BY <1>1, <1>3, <1>5, RunningRun, RunningHandler, RunningOther
<1>7. CountReset'
  BY <1>1, <1>3, <1>5, ResetRun, ResetHandler, ResetOther
<1>8. LeftoverStopped'
  BY <1>1, <1>3, <1>5, LeftoverRun, LeftoverRest
<1>9. ASSUME NEW CONSTANT i \in Sessions PROVE CountRightOf(i)'
  BY <1>1, <1>3, <1>5, RightRun, RightHandler, RightOther
<1>10. CountRight'
  BY <1>9 DEF CountRight
<1> QED BY <1>6, <1>7, <1>8, <1>10 DEF RecordInv

\* The rows are true from the start.
LEMMA RecordInit == Init => RecordAlways
<1> SUFFICES ASSUME Init PROVE RecordInv
  BY DEF RecordAlways
<1>1. \A r \in Runs : rpc[r] = "unused"
  BY DEF Init
<1>2. \A i \in Sessions : status[i] = "none" /\ saved[i] = 0
  BY DEF Init
<1>3. RunningIsLive /\ CountReset
  BY <1>1, <1>2 DEF RunningIsLive, CountReset, Unsettled, BeforeWrite
<1>4. LeftoverStopped
  BY <1>1 DEF LeftoverStopped, Leftover
<1>5. CountRight
  BY <1>2 DEF CountRight, CountRightOf
<1> QED BY <1>3, <1>4, <1>5 DEF RecordInv

\* Unless a session is resumed before its old crawl is gone, a statement fails
\* or the process is restarted, a row that says running has a crawl that will
\* write its end, or a resume that will launch one.
THEOREM RunningRowsAreLive == Spec => [](Patient /\ restarts = 0 => RunningIsLive)
<1>1. RecordAlways => (Patient /\ restarts = 0 => RunningIsLive)
  BY DEF RecordAlways, RecordInv
<1> QED BY <1>1, InvInit, PatientInit, RecordInit, ManagerStep, PatientStep, RecordStep, PTL DEF Spec

\* Under the same conditions the saved count that a stopped session shows is
\* the number of tasks a resume loads, however stops, clears and resumes meet.
THEOREM SavedCountIsTrue == Spec => [](Patient /\ restarts = 0 => SavedCountTruthful)
<1>1. ManagerInv /\ PatientInv /\ RecordAlways => (Patient /\ restarts = 0 => SavedCountTruthful)
  <2> SUFFICES ASSUME ManagerInv, PatientInv, RecordAlways, Patient, restarts = 0 PROVE SavedCountTruthful
    OBVIOUS
  <2>1. RowContext /\ CountRight
    BY DEF RecordAlways, RecordInv, PatientInv, RowContext
  <2>2. ASSUME NoClear, NEW h \in Handlers, hpc[h] = "load", status[hid[h]] = "stopped"
        PROVE  queue[hid[h]] = saved[hid[h]]
    <3>1. /\ hid[h] \in Sessions /\ \A r \in Runs : rsid[r] = hid[h] => rpc[r] \notin Live
          /\ \A g \in Handlers : hpc[g] \in {"load", "running", "launch"} => g = h
      BY <2>1, <2>2, ResumeAlone
    <3>2. Settled(hid[h])
      BY <2>2, <3>1 DEF Settled, Unsettled, Live
    <3> QED BY <2>1, <2>2, <3>1, <3>2 DEF CountRight, CountRightOf
  <2> QED BY <2>2 DEF SavedCountTruthful, NoClear
<1> QED BY <1>1, InvInit, PatientInit, RecordInit, ManagerStep, PatientStep, RecordStep, PTL DEF Spec

=============================================================================
