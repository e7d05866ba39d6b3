CONSTANTS
    h1 = h1
    h2 = h2
    Free = Free
    MaxSession = 1
    MaxRun = 2
    MaxRestart = 0
    PageRuns = {}
    TickRuns = {}
    Handlers = {h1}
    EarlyResume = TRUE
    SlowStop = FALSE
    DBMayFail = FALSE
SPECIFICATION Spec
INVARIANTS
    RunningIsLive
