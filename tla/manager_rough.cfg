CONSTANTS
    h1 = h1
    h2 = h2
    Free = Free
    MaxSession = 1
    MaxRun = 2
    MaxRestart = 1
    PageRuns = {}
    TickRuns = {}
    Handlers = {h1}
    EarlyResume = TRUE
    SlowStop = TRUE
    DBMayFail = TRUE
SPECIFICATION Spec
INVARIANTS
    TypeOK
    MapIsLive
    LockDiscipline
